------------------------------ MODULE CStrings ------------------------------
(***************************************************************************)
(* NUL-terminated strings in arrays indexed from 0, and the two string     *)
(* helpers the kernel writes for itself (chat.c and deadlock.c: there is   *)
(* no libc).  Bytes behind the first NUL are whatever was there before.    *)
(***************************************************************************)
EXTENDS Naturals, Sequences

CONSTANT NUL

\* n is the offset of the first NUL of a.
IsLength(a, n) == /\ n \in DOMAIN a
                  /\ a[n] = NUL
                  /\ \A i \in 0 .. n - 1 : a[i] # NUL

CString(a) == LET n == CHOOSE m \in DOMAIN a : IsLength(a, m)
              IN  [i \in 1..n |-> a[i - 1]]

\* A literal: its characters and the terminator.
Literal(s) == [i \in 0..Len(s) |-> IF i < Len(s) THEN s[i + 1] ELSE NUL]

\* Fault: the comparison stops at the end of the first string.
StrEqualPrefix(a, b) ==
  \E n \in DOMAIN a \cap DOMAIN b :
     /\ a[n] = NUL
     /\ \A i \in 0 .. n - 1 : a[i] # NUL /\ a[i] = b[i]

\* str_equal walks both strings while neither ends and they agree; it is
\* true when it stops because both end.
StrEqual(a, b) ==
  \E n \in DOMAIN a \cap DOMAIN b :
     /\ a[n] = NUL
     /\ b[n] = NUL
     /\ \A i \in 0 .. n - 1 : a[i] # NUL /\ a[i] = b[i]

\* Where str_copy stops: at the source's NUL or at the last cell.
CopyLength(src, max) ==
  CHOOSE n \in DOMAIN src :
     /\ src[n] = NUL \/ n + 1 >= max
     /\ \A i \in 0 .. n - 1 : src[i] # NUL /\ i + 1 < max

\* str_copy
StrCopy(dst, src, max) ==
  LET n == CopyLength(src, max)
  IN  [i \in DOMAIN dst |->
         IF i < n THEN src[i] ELSE IF i = n THEN NUL ELSE dst[i]]
=============================================================================
