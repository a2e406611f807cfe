--------------------------- MODULE DeadlockProofs ---------------------------
(***************************************************************************)
(* For every array size and every pair of file names that fit: no          *)
(* demonstration leaves a lock taken, the unsafe one never passes its last *)
(* spin_lock, and together they implement Transfer.                        *)
(***************************************************************************)
EXTENDS DeadlockDemo, SequenceTheorems, TLAPS

Terminated(a) == \E n \in Cell : IsLength(a, n)

(* Which locks are taken is a function of where the main loop is.           *)
Taken == [vga    |-> IF dpc \in {"boot", "idle", "u_vga", "s_vga"} THEN 0 ELSE 1,
          serial |-> IF dpc \in {"u_serial", "s_tmp", "s_copy_vga",
                                 "s_copy_serial", "s_free_serial"} THEN 1 ELSE 0]

LockInv == /\ dpc \in PC \ {"u_after"}
           /\ locked = Taken

(* The arrays hold strings, and the swap is where its program counter says. *)
DataInv == /\ data \in [User -> Array]
           /\ tmp \in Array
           /\ \A u \in User : Terminated(data[u])
           /\ dpc \in {"s_copy_vga", "s_copy_serial"} => Terminated(tmp)
           /\ dpc = "s_copy_vga" => CString(tmp) = CString(data["vga"])
           /\ dpc = "s_copy_serial" =>
                CString(data["vga"]) = CString(data["serial"])

-----------------------------------------------------------------------------
(* Copying.                                                                 *)

(* The arrays of M + 1 cells over the alphabet T.                           *)
CArray(T, M) == [0..M -> T \cup {NUL}]

(* A string has one length.                                                 *)
LEMMA StringIs ==
  ASSUME NEW M \in Nat, NEW a, DOMAIN a = 0..M, NEW n \in 0..M, IsLength(a, n)
  PROVE  CString(a) = [i \in 1..n |-> a[i - 1]]
<1>1. ASSUME NEW m \in DOMAIN a, IsLength(a, m)
      PROVE  m = n
  BY <1>1 DEF IsLength
<1>2. (CHOOSE m \in DOMAIN a : IsLength(a, m)) = n
  BY <1>1
<1>3. QED
  BY <1>2 DEF CString

(* A literal holds its string and nothing else.                             *)
LEMMA LiteralIs ==
  ASSUME NEW T, NUL \notin T, NEW s \in Seq(T), NEW n \in Nat, n = Len(s)
  PROVE  /\ Literal(s) \in CArray(T, n)
         /\ IsLength(Literal(s), n)
         /\ CString(Literal(s)) = s
<1>1. Literal(s) = [i \in 0..n |-> IF i < n THEN s[i + 1] ELSE NUL]
  BY DEF Literal
<1>2. s = [i \in 1..n |-> s[i]] /\ \A i \in 1..n : s[i] \in T
  BY ElementOfSeq
<1>3. /\ \A i \in 0 .. n - 1 : Literal(s)[i] = s[i + 1] /\ s[i + 1] \in T
      /\ Literal(s)[n] = NUL
  <2>1. \A i \in 0 .. n - 1 : i + 1 \in 1..n /\ i \in 0..n /\ i < n
    OBVIOUS
  <2>2. n \in 0..n /\ ~(n < n)
    OBVIOUS
  <2>3. QED
    BY <1>1, <1>2, <2>1, <2>2
<1>4. Literal(s) \in CArray(T, n)
  <2>1. \A i \in 0..n : i \in 0 .. n - 1 \/ i = n
    OBVIOUS
  <2>2. \A i \in 0..n : Literal(s)[i] \in T \cup {NUL}
    BY <1>3, <2>1
  <2>3. QED
    BY <1>1, <2>2 DEF CArray
<1>5. DOMAIN Literal(s) = 0..n /\ n \in 0..n
  BY <1>1
<1>6. IsLength(Literal(s), n)
  <2>1. \A i \in 0 .. n - 1 : Literal(s)[i] # NUL
    BY <1>3
  <2>2. QED
    BY <1>3, <1>5, <2>1 DEF IsLength
<1>7. CString(Literal(s)) = [i \in 1..n |-> Literal(s)[i - 1]]
  BY <1>5, <1>6, StringIs
<1>8. \A i \in 1..n : Literal(s)[i - 1] = s[i]
  <2>1. \A i \in 1..n : i - 1 \in 0 .. n - 1 /\ (i - 1) + 1 = i
    OBVIOUS
  <2>2. QED
    BY <1>3, <2>1
<1>9. QED
  BY <1>2, <1>4, <1>6, <1>7, <1>8

(* str_copy copies the whole string when it fits both the limit and the     *)
(* destination, whatever the destination held.                              *)
LEMMA StrCopyIs ==
  ASSUME NEW T, NUL \notin T, NEW M \in Nat, NEW K \in Nat, NEW max \in Nat,
         NEW dst \in CArray(T, M), NEW src \in CArray(T, K),
         NEW n \in 0..K, IsLength(src, n), n <= M, n + 1 <= max
  PROVE  /\ StrCopy(dst, src, max) \in CArray(T, M)
         /\ IsLength(StrCopy(dst, src, max), n)
         /\ CString(StrCopy(dst, src, max)) = CString(src)
<1>1. DOMAIN src = 0..K /\ DOMAIN dst = 0..M
  BY DEF CArray
<1>2. CopyLength(src, max) = n
  <2> DEFINE Stops(m) == /\ src[m] = NUL \/ m + 1 >= max
                         /\ \A i \in 0 .. m - 1 : src[i] # NUL /\ i + 1 < max
  <2>1. n \in DOMAIN src /\ Stops(n)
    BY <1>1 DEF IsLength
  <2>2. ASSUME NEW m \in DOMAIN src, Stops(m)
        PROVE  m = n
    <3>1. ~(m < n)
      BY <1>1, <2>2 DEF IsLength
    <3>2. ~(n < m)
      BY <1>1, <2>2 DEF IsLength
    <3>3. QED
      BY <1>1, <3>1, <3>2
  <2> HIDE DEF Stops
  <2>3. (CHOOSE m \in DOMAIN src : Stops(m)) = n
    BY <2>1, <2>2
  <2>4. QED
    BY <2>3 DEF CopyLength, Stops
<1> DEFINE out == StrCopy(dst, src, max)
<1>3. out = [i \in 0..M |-> IF i < n THEN src[i] ELSE IF i = n THEN NUL ELSE dst[i]]
  BY <1>1, <1>2 DEF StrCopy
<1> HIDE DEF out
<1>4. out \in CArray(T, M)
  BY <1>3 DEF CArray
<1>5. /\ out[n] = NUL
      /\ \A i \in 0 .. n - 1 : out[i] = src[i]
  <2>1. n \in 0..M /\ ~(n < n)
    OBVIOUS
  <2>2. \A i \in 0 .. n - 1 : i \in 0..M /\ i < n
    OBVIOUS
  <2>3. QED
    BY <1>3, <2>1, <2>2
<1>6. IsLength(out, n)
  <2>1. n \in DOMAIN out
    BY <1>3
  <2>2. QED
    BY <1>5, <2>1 DEF IsLength
<1>7. CString(out) = [i \in 1..n |-> out[i - 1]]
  <2>1. DOMAIN out = 0..M /\ n \in 0..M
    BY <1>3
  <2>2. QED
    BY <1>6, <2>1, StringIs
<1>8. CString(src) = [i \in 1..n |-> src[i - 1]]
  BY <1>1, StringIs
<1>9. \A i \in 1..n : out[i - 1] = src[i - 1]
  <2>1. TAKE i \in 1..n
  <2>2. i - 1 \in 0 .. n - 1
    OBVIOUS
  <2>3. QED
    BY <1>5, <2>2
<1>10. QED
  BY <1>4, <1>6, <1>7, <1>8, <1>9 DEF out

(* A string that an array of the same size holds is copied whole.           *)
LEMMA CopyIs ==
  ASSUME NEW dst \in Array, NEW src \in Array, Terminated(src)
  PROVE  /\ Copy(dst, src) \in Array
         /\ Terminated(Copy(dst, src))
         /\ CString(Copy(dst, src)) = CString(src)
<1> DEFINE M == FileMax - 1
<1>1. /\ M \in Nat /\ FileMax \in Nat /\ NUL \notin Text
      /\ Cell = 0..M /\ Array = CArray(Text, M)
  BY DemoAssumption DEF Cell, Array, CArray
<1>2. PICK n \in 0..M : IsLength(src, n)
  BY <1>1 DEF Terminated
<1>3. n <= M /\ n + 1 <= FileMax
  BY <1>1
<1> HIDE DEF M
<1>4. /\ StrCopy(dst, src, FileMax) \in CArray(Text, M)
      /\ IsLength(StrCopy(dst, src, FileMax), n)
      /\ CString(StrCopy(dst, src, FileMax)) = CString(src)
  BY <1>1, <1>2, <1>3, StrCopyIs
<1>5. QED
  BY <1>1, <1>4 DEF Copy, Terminated

(* So is a file name's literal.                                             *)
LEMMA CopyLiteralIs ==
  ASSUME NEW dst \in Array, NEW s \in Name
  PROVE  /\ Copy(dst, Literal(s)) \in Array
         /\ Terminated(Copy(dst, Literal(s)))
         /\ CString(Copy(dst, Literal(s))) = s
<1> DEFINE M == FileMax - 1
<1>1. /\ M \in Nat /\ FileMax \in Nat /\ NUL \notin Text
      /\ Cell = 0..M /\ Array = CArray(Text, M)
  BY DemoAssumption DEF Cell, Array, CArray
<1>2. PICK n \in Nat : n = Len(s) /\ n <= M /\ n + 1 <= FileMax
  BY <1>1, DemoAssumption
<1>3. s \in Seq(Text) /\ n \in 0..n /\ n \in 0..M
  BY <1>1, <1>2, DemoAssumption
<1>4. /\ Literal(s) \in CArray(Text, n) /\ IsLength(Literal(s), n)
      /\ CString(Literal(s)) = s
  BY <1>1, <1>2, <1>3, LiteralIs
<1> HIDE DEF M
<1>5. /\ StrCopy(dst, Literal(s), FileMax) \in CArray(Text, M)
      /\ IsLength(StrCopy(dst, Literal(s), FileMax), n)
      /\ CString(StrCopy(dst, Literal(s), FileMax)) = CString(Literal(s))
  BY <1>1, <1>2, <1>3, <1>4, StrCopyIs
<1>6. QED
  BY <1>1, <1>3, <1>4, <1>5 DEF Copy, Terminated

-----------------------------------------------------------------------------
(* The locks.                                                               *)

LEMMA LockInit == Init => LockInv
  BY DEF Init, LockInv, Taken, User, PC

(* Storing 1 into a taken lock changes nothing.                             *)
LEMMA Retaken ==
  ASSUME NEW f \in [User -> {0, 1}], NEW u \in User, f[u] = 1
  PROVE  [f EXCEPT ![u] = 1] = f
  OBVIOUS

LEMMA LockStep == LockInv /\ [Next]_vars => LockInv'
<1> SUFFICES ASSUME LockInv, [Next]_vars
             PROVE  LockInv'
  OBVIOUS
<1> USE DEF LockInv, Taken, User, Go, Spin
<1>1. ASSUME NEW v \in Name, NEW s \in Name, DeadlockInit(v, s)
      PROVE  LockInv'
  BY <1>1 DEF DeadlockInit, ClearLocks, PC
<1>2. CASE CallUnsafe
  BY <1>2 DEF CallUnsafe, ClearLocks, PC, Unsafe
<1>3. CASE CallSafe
  BY <1>3 DEF CallSafe, ClearLocks, PC, Safe
<1>4. CASE UnsafeLockVga
  BY <1>4 DEF UnsafeLockVga, PC, Unsafe
<1>5. CASE UnsafeInject
  BY <1>5 DEF UnsafeInject, PC, Unsafe
<1>6. CASE UnsafeLockSerial
  <2>1. /\ dpc = "u_serial"
        /\ locked' = [locked EXCEPT !["serial"] = 1]
        /\ dpc' = IF locked["serial"] = 0 THEN "u_after" ELSE "u_serial"
    BY <1>6 DEF UnsafeLockSerial
  <2>2. locked["serial"] = 1 /\ locked \in [User -> {0, 1}]
    BY <2>1
  <2>3. locked' = locked
    BY <2>1, <2>2, Retaken
  <2>4. dpc' = dpc
    BY <2>1, <2>2
  <2>5. QED
    BY <2>3, <2>4
<1>7. CASE SafeLockVga
  BY <1>7 DEF SafeLockVga, PC, Safe
<1>8. CASE SafeLockSerial
  BY <1>8 DEF SafeLockSerial, PC, Safe
<1>9. CASE CopyToTmp
  BY <1>9 DEF CopyToTmp, PC, Safe
<1>10. CASE CopyToVga
  BY <1>10 DEF CopyToVga, PC, Safe
<1>11. CASE CopyToSerial
  BY <1>11 DEF CopyToSerial, PC, Safe, Swapped
<1>12. CASE UnlockSerial
  BY <1>12 DEF UnlockSerial, Unlock, PC, Swapped
<1>13. CASE UnlockVga
  BY <1>13 DEF UnlockVga, Unlock, PC, Swapped
<1>14. CASE UNCHANGED vars
  BY <1>14 DEF vars
<1>15. QED
  BY <1>1, <1>2, <1>3, <1>4, <1>5, <1>6, <1>7, <1>8, <1>9, <1>10, <1>11,
     <1>12, <1>13, <1>14 DEF Next, MainStep

LEMMA LocksAlways == Spec => []LockInv
<1>1. Init => LockInv
  BY LockInit
<1>2. LockInv /\ [Next]_vars => LockInv'
  BY LockStep
<1>3. QED
  BY <1>1, <1>2, PTL DEF Spec

(* No demonstration leaves a lock taken for the next one's reset to hide.   *)
THEOREM LocksFree == Spec => []FreeWhenIdle
<1>1. LockInv => FreeWhenIdle
  BY DEF LockInv, Taken, FreeWhenIdle, User
<1>2. QED
  BY <1>1, LocksAlways, PTL

(* The unsafe demonstration never returns.                                  *)
THEOREM Unreached == Spec => []NeverAfter
<1>1. LockInv => NeverAfter
  BY DEF LockInv, NeverAfter
<1>2. QED
  BY <1>1, LocksAlways, PTL

-----------------------------------------------------------------------------
(* The files.                                                               *)

LEMMA DataInit == Init => DataInv
<1> SUFFICES ASSUME Init
             PROVE  DataInv
  OBVIOUS
<1>1. 0 \in Cell
  BY DemoAssumption DEF Cell
<1>2. tmp \in Array /\ data \in [User -> Array]
  BY DEF Init, Array
<1>3. ASSUME NEW u \in User
      PROVE  IsLength(data[u], 0)
  BY <1>1 DEF Init, IsLength
<1>4. QED
  BY <1>1, <1>2, <1>3 DEF Init, DataInv, Terminated

LEMMA DataStep == DataInv /\ [Next]_vars => DataInv'
<1> SUFFICES ASSUME DataInv, [Next]_vars
             PROVE  DataInv'
  OBVIOUS
<1>0. /\ data["vga"] \in Array /\ Terminated(data["vga"])
      /\ data["serial"] \in Array /\ Terminated(data["serial"])
  BY DEF DataInv, User
<1>1. ASSUME NEW v \in Name, NEW s \in Name, DeadlockInit(v, s)
      PROVE  DataInv'
  <2>1. /\ data'["vga"] \in Array /\ Terminated(data'["vga"])
        /\ data'["serial"] \in Array /\ Terminated(data'["serial"])
        /\ data' \in [User -> Array]
    BY <1>0, <1>1, CopyLiteralIs DEF DeadlockInit, User
  <2>2. QED
    BY <1>1, <2>1 DEF DeadlockInit, Go, DataInv, User
<1>2. CASE CallUnsafe
  BY <1>2 DEF CallUnsafe, Go, DataInv
<1>3. CASE CallSafe
  BY <1>3 DEF CallSafe, Go, DataInv
<1>4. CASE UnsafeLockVga
  BY <1>4 DEF UnsafeLockVga, Spin, DataInv
<1>5. CASE UnsafeInject
  BY <1>5 DEF UnsafeInject, Go, DataInv
<1>6. CASE UnsafeLockSerial
  BY <1>6 DEF UnsafeLockSerial, Spin, DataInv
<1>7. CASE SafeLockVga
  BY <1>7 DEF SafeLockVga, Spin, DataInv
<1>8. CASE SafeLockSerial
  BY <1>8 DEF SafeLockSerial, Spin, DataInv
<1>9. CASE CopyToTmp
  <2>1. /\ tmp' \in Array /\ Terminated(tmp')
        /\ CString(tmp') = CString(data["vga"])
    BY <1>0, <1>9, CopyIs DEF CopyToTmp, DataInv
  <2>2. QED
    BY <1>9, <2>1 DEF CopyToTmp, Go, DataInv
<1>10. CASE CopyToVga
  <2>1. /\ Copy(data["vga"], data["serial"]) \in Array
        /\ Terminated(Copy(data["vga"], data["serial"]))
        /\ CString(Copy(data["vga"], data["serial"])) = CString(data["serial"])
    BY <1>0, CopyIs
  <2>2. /\ data'["vga"] = Copy(data["vga"], data["serial"])
        /\ data'["serial"] = data["serial"]
    BY <1>10 DEF CopyToVga, DataInv, User
  <2>3. data' \in [User -> Array]
    BY <1>10, <2>1 DEF CopyToVga, DataInv
  <2>4. tmp' = tmp /\ Terminated(tmp) /\ dpc' = "s_copy_serial"
    BY <1>10 DEF CopyToVga, Go, DataInv
  <2>5. QED
    BY <1>0, <2>1, <2>2, <2>3, <2>4 DEF DataInv, User
<1>11. CASE CopyToSerial
  <2>1. Terminated(tmp) /\ tmp \in Array
    BY <1>11 DEF CopyToSerial, Go, DataInv
  <2>2. /\ Copy(data["serial"], tmp) \in Array
        /\ Terminated(Copy(data["serial"], tmp))
    BY <1>0, <2>1, CopyIs
  <2>3. /\ data'["serial"] = Copy(data["serial"], tmp)
        /\ data'["vga"] = data["vga"]
    BY <1>11 DEF CopyToSerial, DataInv, User
  <2>4. data' \in [User -> Array]
    BY <1>11, <2>2 DEF CopyToSerial, DataInv
  <2>5. tmp' = tmp /\ dpc' = "s_free_serial"
    BY <1>11 DEF CopyToSerial, Go
  <2>6. QED
    BY <1>0, <2>1, <2>2, <2>3, <2>4, <2>5 DEF DataInv, User
<1>12. CASE UnlockSerial
  BY <1>12 DEF UnlockSerial, Go, DataInv
<1>13. CASE UnlockVga
  BY <1>13 DEF UnlockVga, Go, DataInv
<1>14. CASE UNCHANGED vars
  BY <1>14 DEF vars, DataInv
<1>15. QED
  BY <1>1, <1>2, <1>3, <1>4, <1>5, <1>6, <1>7, <1>8, <1>9, <1>10, <1>11,
     <1>12, <1>13, <1>14 DEF Next, MainStep

LEMMA DataAlways == Spec => []DataInv
<1>1. Init => DataInv
  BY DataInit
<1>2. DataInv /\ [Next]_vars => DataInv'
  BY DataStep
<1>3. QED
  BY <1>1, <1>2, PTL DEF Spec

(* Every variable keeps its type.                                           *)
THEOREM TypeCorrect == Spec => []TypeOK
<1>1. LockInv /\ DataInv => TypeOK
  BY DEF LockInv, Taken, DataInv, TypeOK, User
<1>2. QED
  BY <1>1, LocksAlways, DataAlways, PTL

-----------------------------------------------------------------------------
(* The refinement.                                                          *)

LEMMA Simulation ==
  ASSUME LockInv, DataInv, LockInv', DataInv', [Next]_vars
  PROVE  [SwapView!Next]_(SwapView!vars)
<1> DEFINE Same == UNCHANGED SwapView!vars
<1> USE DEF SwapView!vars, Files, Phase, Safe, Unsafe, Swapped
<1>0. /\ data["vga"] \in Array /\ Terminated(data["vga"])
      /\ data["serial"] \in Array /\ Terminated(data["serial"])
  BY DEF DataInv, User
<1>1. ASSUME NEW v \in Name, NEW s \in Name, DeadlockInit(v, s)
      PROVE  SwapView!Next
  <2>1. CString(data'["vga"]) = v /\ CString(data'["serial"]) = s
    BY <1>0, <1>1, CopyLiteralIs DEF DeadlockInit
  <2>2. dpc = "boot" /\ dpc' = "idle"
    BY <1>1 DEF DeadlockInit, Go
  <2>3. [vga |-> v, serial |-> s] \in [SwapView!User -> Name]
    BY DEF SwapView!User
  <2>4. SwapView!SetUp
    BY <2>1, <2>2, <2>3 DEF SwapView!SetUp
  <2>5. QED
    BY <2>4 DEF SwapView!Next
<1>2. CASE CallUnsafe
  <2>1. SwapView!Hang
    BY <1>2 DEF CallUnsafe, Go, SwapView!Hang
  <2>2. QED
    BY <2>1 DEF SwapView!Next
<1>3. CASE CallSafe
  <2>1. SwapView!BeginTransfer
    BY <1>3 DEF CallSafe, Go, SwapView!BeginTransfer
  <2>2. QED
    BY <2>1 DEF SwapView!Next
<1>4. CASE UnsafeLockVga
  BY <1>4 DEF UnsafeLockVga, Spin
<1>5. CASE UnsafeInject
  BY <1>5 DEF UnsafeInject, Go
<1>6. CASE UnsafeLockSerial
  BY <1>6 DEF UnsafeLockSerial, Spin
<1>7. CASE SafeLockVga
  BY <1>7 DEF SafeLockVga, Spin
<1>8. CASE SafeLockSerial
  BY <1>8 DEF SafeLockSerial, Spin
<1>9. CASE CopyToTmp
  BY <1>9 DEF CopyToTmp, Go
<1>10. CASE CopyToVga
  <2>1. /\ dpc = "s_copy_vga" /\ dpc' = "s_copy_serial" /\ tmp' = tmp
        /\ data'["serial"] = data["serial"]
    BY <1>10 DEF CopyToVga, Go, DataInv, User
  <2>2. CString(tmp) = CString(data["vga"])
    BY <2>1 DEF DataInv
  <2>3. QED
    BY <2>1, <2>2
<1>11. CASE CopyToSerial
  <2>1. /\ dpc = "s_copy_serial" /\ dpc' = "s_free_serial"
        /\ data'["vga"] = data["vga"]
        /\ data'["serial"] = Copy(data["serial"], tmp)
    BY <1>11 DEF CopyToSerial, Go, DataInv, User
  <2>2. /\ CString(data["vga"]) = CString(data["serial"])
        /\ tmp \in Array /\ Terminated(tmp)
    BY <2>1 DEF DataInv
  <2>3. CString(Copy(data["serial"], tmp)) = CString(tmp)
    BY <1>0, <2>2, CopyIs
  <2>4. SwapView!Swap
    BY <2>1, <2>2, <2>3 DEF SwapView!Swap
  <2>5. QED
    BY <2>4 DEF SwapView!Next
<1>12. CASE UnlockSerial
  BY <1>12 DEF UnlockSerial, Go
<1>13. CASE UnlockVga
  <2>1. SwapView!Return
    BY <1>13 DEF UnlockVga, Go, SwapView!Return
  <2>2. QED
    BY <2>1 DEF SwapView!Next
<1>14. CASE UNCHANGED vars
  BY <1>14 DEF vars
<1>15. QED
  BY <1>1, <1>2, <1>3, <1>4, <1>5, <1>6, <1>7, <1>8, <1>9, <1>10, <1>11,
     <1>12, <1>13, <1>14 DEF Next, MainStep

(* Over any number of demonstrations the files are only exchanged, once in  *)
(* each safe run before it returns, and never by the unsafe one, which      *)
(* never returns.                                                           *)
THEOREM Refinement == Spec => ImplementsTransfer
<1>1. Init => SwapView!Init
  <2> SUFFICES ASSUME Init
               PROVE  SwapView!Init
    OBVIOUS
  <2> DEFINE zero == [i \in Cell |-> NUL]
             M == FileMax - 1
  <2>1. /\ M \in Nat /\ 0 \in 0..M /\ NUL \notin Text
        /\ Cell = 0..M /\ Array = CArray(Text, M)
    BY DemoAssumption DEF Cell, Array, CArray
  <2>2. zero \in Array /\ IsLength(zero, 0)
    BY <2>1 DEF Array, IsLength
  <2> HIDE DEF zero, M
  <2>3. CString(zero) = [i \in 1..0 |-> zero[i - 1]]
    BY <2>1, <2>2, StringIs DEF Array
  <2>4. CString(zero) = <<>>
    BY <2>3
  <2>5. dpc = "boot" /\ data["vga"] = zero /\ data["serial"] = zero
    BY DEF Init, User, zero
  <2>6. /\ CString(data["serial"]) = <<>>
        /\ (IF dpc = "s_copy_serial" THEN CString(tmp)
            ELSE CString(data["vga"])) = <<>>
    BY <2>4, <2>5
  <2>7. Files = [vga |-> <<>>, serial |-> <<>>]
    BY <2>6 DEF Files
  <2>8. Phase = "off"
    BY <2>5 DEF Phase, Safe, Swapped
  <2>9. QED
    BY <2>7, <2>8 DEF SwapView!Init
<1>2. LockInv /\ DataInv /\ LockInv' /\ DataInv' /\ [Next]_vars
        => [SwapView!Next]_(SwapView!vars)
  BY Simulation
<1>3. QED
  BY <1>1, <1>2, LocksAlways, DataAlways, PTL
     DEF Spec, ImplementsTransfer, SwapView!Spec
=============================================================================
