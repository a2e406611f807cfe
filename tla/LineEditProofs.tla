--------------------------- MODULE LineEditProofs ---------------------------
(***************************************************************************)
(* For every line length, alphabet and set of commands, and for both       *)
(* editors of chat.c: the array always holds a terminated line, a message  *)
(* is never cut by its buffer, and the editor implements LineSpec.         *)
(***************************************************************************)
EXTENDS LineEdit, SequenceTheorems, TLAPS

Array == [0..LineMax -> Text \cup {NUL}]
Cut(a, k) == [a EXCEPT ![k] = NUL]

-----------------------------------------------------------------------------
(* What the string helpers compute.  A literal's array has the size of its  *)
(* string, the editor's is larger.                                          *)

(* The arrays of M + 1 cells over the alphabet T.                           *)
CArray(T, M) == [0..M -> T \cup {NUL}]

(* A string has one length, and reading it gives its characters.            *)
LEMMA CStringIs ==
  ASSUME NEW T, NUL \notin T, NEW M \in Nat,
         NEW a \in CArray(T, M), NEW n \in 0..M, IsLength(a, n)
  PROVE  /\ CString(a) = [i \in 1..n |-> a[i - 1]]
         /\ CString(a) \in Seq(T)
         /\ Len(CString(a)) = n
<1>1. DOMAIN a = 0..M
  BY DEF CArray
<1>2. ASSUME NEW m \in DOMAIN a, IsLength(a, m)
      PROVE  m = n
  BY <1>1, <1>2 DEF IsLength
<1>3. (CHOOSE m \in DOMAIN a : IsLength(a, m)) = n
  BY <1>1, <1>2
<1>4. CString(a) = [i \in 1..n |-> a[i - 1]]
  BY <1>3 DEF CString
<1>5. \A i \in 1..n : a[i - 1] \in T
  <2>1. TAKE i \in 1..n
  <2>2. i - 1 \in 0..n - 1 /\ i - 1 \in 0..M
    BY <1>1
  <2>3. a[i - 1] # NUL /\ a[i - 1] \in T \cup {NUL}
    BY <1>1, <2>2 DEF IsLength, CArray
  <2>4. QED
    BY <2>3
<1>6. CString(a) \in Seq(T)
  BY <1>1, <1>4, <1>5, SeqDef
<1>7. QED
  BY <1>1, <1>4, <1>6, LenProperties

(* A literal holds its string.                                              *)
LEMMA LiteralIs ==
  ASSUME NEW T, NUL \notin T, NEW s \in Seq(T)
  PROVE  /\ DOMAIN Literal(s) = 0..Len(s)
         /\ Literal(s)[Len(s)] = NUL
         /\ \A i \in 0 .. Len(s) - 1 : /\ Literal(s)[i] = s[i + 1]
                                       /\ Literal(s)[i] # NUL
         /\ Literal(s) \in CArray(T, Len(s))
         /\ IsLength(Literal(s), Len(s))
<1>1. Len(s) \in Nat
  OBVIOUS
<1>2. \A i \in 0 .. Len(s) - 1 : s[i + 1] \in T
  <2>1. TAKE i \in 0 .. Len(s) - 1
  <2>2. i + 1 \in 1..Len(s)
    BY <1>1
  <2>3. QED
    BY <2>2, ElementOfSeq
<1>3. PICK n \in Nat : n = Len(s)
  BY <1>1
<1>4. Literal(s) = [i \in 0..n |-> IF i < n THEN s[i + 1] ELSE NUL]
  BY <1>3 DEF Literal
<1>5. \A i \in 0 .. n - 1 : i \in 0..n /\ i < n
  OBVIOUS
<1>6. n \in 0..n /\ ~(n < n)
  OBVIOUS
<1>7. \A i \in 0 .. n - 1 : Literal(s)[i] = s[i + 1]
  BY <1>4, <1>5
<1>8. Literal(s)[n] = NUL /\ DOMAIN Literal(s) = 0..n
  BY <1>4, <1>6
<1>9. \A i \in 0 .. n - 1 : Literal(s)[i] \in T
  BY <1>2, <1>3, <1>7
<1>10. \A i \in 0..n : i \in 0 .. n - 1 \/ i = n
  BY <1>3
<1>11. Literal(s) \in CArray(T, n)
  <2>1. \A i \in 0..n : Literal(s)[i] \in T \cup {NUL}
    BY <1>8, <1>9, <1>10
  <2>2. QED
    BY <1>4, <1>8, <2>1 DEF CArray
<1>12. IsLength(Literal(s), n)
  BY <1>6, <1>8, <1>9 DEF IsLength
<1>13. QED
  BY <1>3, <1>7, <1>8, <1>9, <1>11, <1>12

(* str_equal is equality of the strings the arrays hold.                    *)
LEMMA StrEqualIs ==
  ASSUME NEW T, NUL \notin T, NEW M \in Nat,
         NEW a \in CArray(T, M), NEW n \in 0..M, IsLength(a, n),
         NEW s \in Seq(T)
  PROVE  StrEqual(a, Literal(s)) <=> CString(a) = s
<1>1. DOMAIN a = 0..M /\ Len(s) \in Nat
  BY DEF CArray
<1>2. /\ CString(a) = [i \in 1..n |-> a[i - 1]]
      /\ CString(a) \in Seq(T)
      /\ Len(CString(a)) = n
  BY CStringIs
<1>3. ASSUME StrEqual(a, Literal(s))
      PROVE  CString(a) = s
  <2>1. PICK m \in DOMAIN a \cap DOMAIN Literal(s) :
              /\ a[m] = NUL
              /\ Literal(s)[m] = NUL
              /\ \A i \in 0 .. m - 1 : a[i] # NUL /\ a[i] = Literal(s)[i]
    BY <1>3 DEF StrEqual
  <2>2. m = Len(s)
    BY <1>1, <2>1, LiteralIs
  <2>3. m = n
    BY <1>1, <2>1 DEF IsLength
  <2>4. \A i \in 1..n : CString(a)[i] = s[i]
    <3>1. TAKE i \in 1..n
    <3>2. i - 1 \in 0 .. m - 1 /\ (i - 1) + 1 = i
      BY <1>1, <2>3
    <3>3. CString(a)[i] = a[i - 1]
      BY <1>2
    <3>4. Literal(s)[i - 1] = s[(i - 1) + 1]
      BY <2>2, <3>2, LiteralIs
    <3>5. QED
      BY <2>1, <3>2, <3>3, <3>4
  <2>5. QED
    BY <1>2, <2>2, <2>3, <2>4, SeqEqual
<1>4. ASSUME CString(a) = s
      PROVE  StrEqual(a, Literal(s))
  <2>1. n = Len(s) /\ n \in DOMAIN a \cap DOMAIN Literal(s)
    BY <1>1, <1>2, <1>4, LiteralIs
  <2>2. a[n] = NUL /\ Literal(s)[n] = NUL
    BY <2>1, LiteralIs DEF IsLength
  <2>3. \A i \in 0 .. n - 1 : a[i] # NUL /\ a[i] = Literal(s)[i]
    <3>1. TAKE i \in 0 .. n - 1
    <3>2. i + 1 \in 1..n /\ (i + 1) - 1 = i
      BY <1>1
    <3>3. s[i + 1] = a[i]
      BY <1>2, <1>4, <3>2
    <3>4. QED
      BY <2>1, <3>3, LiteralIs DEF IsLength
  <2>4. QED
    BY <2>1, <2>2, <2>3 DEF StrEqual
<1>5. QED
  BY <1>3, <1>4

(* Cutting an array at k cuts its string at k.                              *)
LEMMA CutIs ==
  ASSUME NEW T, NUL \notin T, NEW M \in Nat,
         NEW a \in CArray(T, M), NEW n \in 0..M, IsLength(a, n),
         NEW k \in 0..n
  PROVE  /\ Cut(a, k) \in CArray(T, M)
         /\ IsLength(Cut(a, k), k)
         /\ CString(Cut(a, k)) = SubSeq(CString(a), 1, k)
<1> DEFINE cut == Cut(a, k)
<1>1. k \in 0..M
  OBVIOUS
<1>2. cut \in CArray(T, M)
  BY <1>1 DEF CArray, Cut
<1>3. cut[k] = NUL /\ \A i \in 0 .. k - 1 : cut[i] = a[i]
  BY <1>1 DEF CArray, Cut
<1>4. DOMAIN cut = 0..M
  BY <1>1 DEF CArray, Cut
<1> HIDE DEF cut
<1>5. IsLength(cut, k)
  BY <1>1, <1>3, <1>4 DEF IsLength
<1>6. PICK old \in Seq(T) : /\ old = CString(a)
                            /\ Len(old) = n
                            /\ old = [i \in 1..n |-> a[i - 1]]
  BY CStringIs
<1>7. /\ CString(cut) \in Seq(T)
      /\ Len(CString(cut)) = k
      /\ CString(cut) = [i \in 1..k |-> cut[i - 1]]
  BY <1>1, <1>2, <1>5, CStringIs
<1>8. CString(cut) = SubSeq(old, 1, k)
  <2>1. /\ SubSeq(old, 1, k) \in Seq(T)
        /\ Len(SubSeq(old, 1, k)) = k
        /\ \A i \in 1..k : SubSeq(old, 1, k)[i] = old[i]
    <3>1. \A i \in 1..k : old[i] \in T
      BY <1>6, ElementOfSeq
    <3>2. /\ SubSeq(old, 1, k) \in Seq(T)
          /\ Len(SubSeq(old, 1, k)) = IF 1 <= k THEN k - 1 + 1 ELSE 0
          /\ \A i \in 1 .. k - 1 + 1 : SubSeq(old, 1, k)[i] = old[1 + i - 1]
      BY <3>1, SubSeqProperties
    <3>3. QED
      BY <3>2
  <2>2. ASSUME NEW i \in 1..k
        PROVE  CString(cut)[i] = old[i]
    <3>1. i - 1 \in 0 .. k - 1 /\ i \in 1..n
      OBVIOUS
    <3>2. QED
      BY <1>3, <1>6, <1>7, <3>1
  <2>3. QED
    BY <1>7, <2>1, <2>2, SeqEqual
<1>9. QED
  BY <1>2, <1>5, <1>6, <1>8 DEF cut

(* These facts for the editor's array.                                      *)

LEMMA ArrayIs ==
  Array = CArray(Text, LineMax) /\ NUL \notin Text /\ LineMax \in Nat
  BY LineAssumption DEF Array, CArray

LEMMA LineIs ==
  ASSUME NEW a \in Array, NEW n \in 0..LineMax, IsLength(a, n)
  PROVE  /\ CString(a) = [i \in 1..n |-> a[i - 1]]
         /\ CString(a) \in Seq(Text)
         /\ Len(CString(a)) = n
  BY ArrayIs, CStringIs

LEMMA EqualIs ==
  ASSUME NEW a \in Array, NEW n \in 0..LineMax, IsLength(a, n),
         NEW s \in Seq(Text)
  PROVE  StrEqual(a, Literal(s)) <=> CString(a) = s
  BY ArrayIs, StrEqualIs

LEMMA CutAt ==
  ASSUME NEW a \in Array, NEW n \in 0..LineMax, IsLength(a, n), NEW k \in 0..n
  PROVE  /\ [a EXCEPT ![k] = NUL] \in Array
         /\ IsLength([a EXCEPT ![k] = NUL], k)
         /\ CString([a EXCEPT ![k] = NUL]) = SubSeq(CString(a), 1, k)
<1>1. NUL \notin Text /\ LineMax \in Nat /\ a \in CArray(Text, LineMax)
  BY ArrayIs
<1>2. /\ Cut(a, k) \in CArray(Text, LineMax)
      /\ IsLength(Cut(a, k), k)
      /\ CString(Cut(a, k)) = SubSeq(CString(a), 1, k)
  BY <1>1, CutIs
<1>3. QED
  BY <1>2, ArrayIs DEF Cut

-----------------------------------------------------------------------------
(* What serving a terminated line amounts to.                               *)

(* The buffer has room for a full line and its newline.                     *)
LEMMA FormatIs ==
  ASSUME user \in User, NEW s \in Seq(Text), Len(s) <= LineMax
  PROVE  Format(s) = [kind |-> "message", text |-> s, newline |-> TRUE]
<1>1. Len(s) \in Nat /\ LineMax \in Nat /\ NameLen[user] \in 1..11
  BY LineAssumption
<1>2. Room \in Int /\ Len(s) < Room
  BY <1>1 DEF Room, BufSize
<1>3. Len(s) <= Room
  BY <1>1, <1>2
<1>4. QED
  BY <1>2, <1>3 DEF Format

LEMMA ServeIs ==
  ASSUME user \in User, NEW a \in Array, NEW n \in 0..LineMax, IsLength(a, n)
  PROVE  /\ Serve(a) = [kind |-> Editor!Kind(CString(a)),
                        text |-> CString(a), newline |-> TRUE]
         /\ Serve(a) \in Message
<1> DEFINE s == CString(a)
           matches == {k \in Commands : StrEqual(a, Literal(k))}
<1>1. s \in Seq(Text) /\ Len(s) = n /\ n <= LineMax
  BY LineIs, LineAssumption
<1>2. \A k \in Commands : StrEqual(a, Literal(k)) <=> s = k
  BY EqualIs, LineAssumption
<1> HIDE DEF s
<1>3. CASE s \in Commands
  <2>1. matches = {s}
    BY <1>2, <1>3
  <2>2. matches # {} /\ (CHOOSE k \in matches : TRUE) = s
    BY <2>1
  <2>3. Serve(a) = [kind |-> "command", text |-> s, newline |-> TRUE]
    BY <2>2 DEF Serve
  <2>4. QED
    BY <1>1, <1>3, <2>3 DEF Message, Editor!Kind, s
<1>4. CASE s \notin Commands
  <2>1. matches = {}
    BY <1>2, <1>4
  <2>2. CASE n = 0
    <3>1. s = <<>> /\ a[0] = NUL
      BY <1>1, <2>2, EmptySeq DEF IsLength
    <3>2. Serve(a) = [kind |-> "empty", text |-> s, newline |-> TRUE]
      BY <2>1, <3>1 DEF Serve
    <3>3. QED
      BY <1>1, <1>4, <3>1, <3>2 DEF Message, Editor!Kind, s
  <2>3. CASE n # 0
    <3>1. a[0] # NUL
      BY <2>3, LineAssumption DEF IsLength
    <3>2. s # <<>>
      BY <1>1, <2>3, EmptySeq
    <3>3. Serve(a) = Format(s)
      BY <2>1, <3>1 DEF Serve, s
    <3>4. Format(s) = [kind |-> "message", text |-> s, newline |-> TRUE]
      BY <1>1, FormatIs
    <3>5. QED
      BY <1>1, <1>4, <3>2, <3>3, <3>4 DEF Message, Editor!Kind, s
  <2>4. QED
    BY <2>2, <2>3
<1>5. QED
  BY <1>3, <1>4

-----------------------------------------------------------------------------
(* What each edit does to the string.                                       *)

LEMMA StoreEffect ==
  ASSUME TypeOK, Terminated, NEW ch \in Text, Store(ch)
  PROVE  /\ TypeOK' /\ Terminated'
         /\ CString(line)' = Append(CString(line), ch)
<1>1. /\ len \in 0..LineMax /\ len < LineMax /\ LineMax \in Nat
      /\ line \in Array
      /\ line' = [line EXCEPT ![len] = ch, ![len + 1] = NUL]
      /\ len' = len + 1
      /\ busy' = busy /\ handed' = handed /\ user' = user
  BY LineAssumption DEF TypeOK, Store, Array
<1>2. line' \in Array /\ len' \in 0..LineMax
  BY <1>1 DEF Array
<1>3. TypeOK'
  BY <1>1, <1>2 DEF TypeOK, Array
<1>4. /\ line'[len + 1] = NUL /\ line'[len] = ch
      /\ \A i \in 0 .. len - 1 : line'[i] = line[i]
  BY <1>1 DEF Array
<1>5. DOMAIN line' = 0..LineMax /\ DOMAIN line = 0..LineMax
  BY <1>1, <1>2 DEF Array
<1>6. IsLength(line', len + 1)
  BY <1>1, <1>4, <1>5, LineAssumption DEF IsLength, Terminated
<1>7. /\ CString(line) \in Seq(Text)
      /\ Len(CString(line)) = len
      /\ CString(line) = [i \in 1..len |-> line[i - 1]]
  BY <1>1, LineIs DEF Terminated
<1>8. /\ CString(line') \in Seq(Text)
      /\ Len(CString(line')) = len + 1
      /\ CString(line') = [i \in 1 .. len + 1 |-> line'[i - 1]]
  BY <1>1, <1>2, <1>6, LineIs
<1>9. CString(line') = Append(CString(line), ch)
  <2> DEFINE old == CString(line)
             new == CString(line')
             app == Append(old, ch)
  <2>1. /\ new \in Seq(Text) /\ Len(new) = len + 1
        /\ \A i \in 1 .. len + 1 : new[i] = line'[i - 1]
        /\ old \in Seq(Text) /\ Len(old) = len
        /\ \A i \in 1..len : old[i] = line[i - 1]
    BY <1>7, <1>8
  <2> HIDE DEF old, new
  <2>2. /\ app \in Seq(Text)
        /\ Len(app) = len + 1
        /\ \A i \in 1..len : app[i] = old[i]
        /\ app[len + 1] = ch
    BY <2>1, AppendProperties
  <2> HIDE DEF app
  <2>3. ASSUME NEW i \in 1..len
        PROVE  new[i] = app[i]
    <3>1. i - 1 \in 0 .. len - 1 /\ i \in 1 .. len + 1
      BY <1>1
    <3>2. QED
      BY <1>4, <2>1, <2>2, <3>1
  <2>4. new[len + 1] = app[len + 1]
    <3>1. len + 1 \in 1 .. len + 1 /\ (len + 1) - 1 = len
      BY <1>1
    <3>2. QED
      BY <1>4, <2>1, <2>2, <3>1
  <2>5. \A i \in 1 .. len + 1 : i \in 1..len \/ i = len + 1
    BY <1>1
  <2>6. \A i \in 1 .. len + 1 : new[i] = app[i]
    BY <2>3, <2>4, <2>5
  <2>7. new = app
    BY <2>1, <2>2, <2>6, SeqEqual
  <2>8. QED
    BY <2>7 DEF new, app, old
<1>10. QED
  BY <1>1, <1>3, <1>6, <1>9 DEF Terminated

(* Cutting the array at k cuts the string at k.                             *)
LEMMA CutEffect ==
  ASSUME TypeOK, Terminated, NEW k \in 0..LineMax, k <= len
  PROVE  /\ [line EXCEPT ![k] = NUL] \in Array
         /\ IsLength([line EXCEPT ![k] = NUL], k)
         /\ CString([line EXCEPT ![k] = NUL]) = SubSeq(CString(line), 1, k)
<1>1. /\ len \in 0..LineMax /\ LineMax \in Nat /\ k \in 0..len
      /\ line \in Array /\ IsLength(line, len) /\ NUL \notin Text
  BY LineAssumption DEF TypeOK, Terminated, Array
<1>2. QED
  BY <1>1, CutAt

-----------------------------------------------------------------------------
(* Enter stores a NUL where there is one, so the array does not change.     *)
LEMMA EnterEffect ==
  ASSUME TypeOK, Terminated, Enter
  PROVE  /\ line' = line
         /\ handed' = [kind |-> Editor!Kind(CString(line)),
                       text |-> CString(line), newline |-> TRUE]
         /\ handed' \in Message
<1>1. /\ user \in User
      /\ line \in Array /\ len \in 0..LineMax /\ IsLength(line, len)
  BY DEF TypeOK, Terminated, Array
<1>2. line' = line
  BY <1>1 DEF Enter, IsLength, Array
<1>3. handed' = Serve(line)
  BY <1>2 DEF Enter
<1>4. QED
  BY <1>1, <1>2, <1>3, ServeIs

LEMMA InvInit == Init => IInv
<1> SUFFICES ASSUME Init
             PROVE  IInv
  OBVIOUS
<1>1. 0 \in 0..LineMax
  BY LineAssumption
<1>2. TypeOK /\ WholeMessage
  <2>1. <<>> \in Seq(Text)
    OBVIOUS
  <2>2. handed \in Message /\ handed.newline
    BY <2>1 DEF Init, Message
  <2>3. QED
    BY <1>1, <2>2 DEF Init, TypeOK, WholeMessage
<1>3. Terminated
  BY <1>1 DEF Init, Terminated, IsLength
<1>4. QED
  BY <1>2, <1>3 DEF IInv

LEMMA InvStep == IInv /\ [Next]_vars => IInv'
<1> SUFFICES ASSUME IInv, [Next]_vars
             PROVE  IInv'
  OBVIOUS
<1> USE DEF IInv
<1>0. len \in 0..LineMax /\ 0 \in 0..LineMax /\ LineMax \in Nat
  BY LineAssumption DEF TypeOK
<1>1. ASSUME NEW ch \in Text, Store(ch)
      PROVE  IInv'
  BY <1>1, StoreEffect DEF WholeMessage, Store
<1>2. CASE KbdErase
  <2>1. len - 1 \in 0..LineMax /\ len - 1 <= len
    BY <1>0, <1>2 DEF KbdErase
  <2>2. /\ line' \in Array /\ IsLength(line', len - 1) /\ len' = len - 1
        /\ busy' = busy /\ handed' = handed /\ user' = user
    BY <1>2, <2>1, CutEffect DEF KbdErase
  <2>3. QED
    BY <2>1, <2>2 DEF TypeOK, Terminated, WholeMessage, Array
<1>3. CASE SerErase
  <2>1. len' \in 0..LineMax /\ len' <= len
    BY <1>0, <1>3 DEF SerErase
  <2>2. /\ line' \in Array /\ IsLength(line', len')
        /\ busy' = busy /\ handed' = handed /\ user' = user
    BY <1>3, <2>1, CutEffect DEF SerErase
  <2>3. QED
    BY <2>1, <2>2 DEF TypeOK, Terminated, WholeMessage, Array
<1>4. CASE Enter
  <2>1. line' = line /\ handed' \in Message /\ handed'.newline = TRUE
    BY <1>4, EnterEffect
  <2>2. QED
    BY <1>4, <2>1 DEF Enter, TypeOK, Terminated, WholeMessage
<1>5. CASE Clear
  <2>1. 0 <= len
    BY <1>0
  <2>2. line' \in Array /\ IsLength(line', 0)
    BY <1>0, <1>5, <2>1, CutEffect DEF Clear
  <2>3. QED
    BY <1>0, <1>5, <2>2 DEF Clear, TypeOK, Terminated, WholeMessage, Array
<1>6. CASE UNCHANGED vars
  BY <1>6 DEF vars, TypeOK, Terminated, WholeMessage, Message
<1>7. QED
  BY <1>1, <1>2, <1>3, <1>4, <1>5, <1>6 DEF Next

LEMMA InvAlways == Spec => []IInv
<1>1. Init => IInv
  BY InvInit
<1>2. IInv /\ [Next]_vars => IInv'
  BY InvStep
<1>3. QED
  BY <1>1, <1>2, PTL DEF Spec

(* No sequence of characters, erasures and Enters writes outside the array. *)
THEOREM TypeCorrect == Spec => []TypeOK
<1>1. IInv => TypeOK
  BY DEF IInv
<1>2. QED
  BY <1>1, InvAlways, PTL

(* The string a reader of the pointer finds is the line, at any moment.     *)
THEOREM AlwaysTerminated == Spec => []Terminated
<1>1. IInv => Terminated
  BY DEF IInv
<1>2. QED
  BY <1>1, InvAlways, PTL

(* chat_submit's buffer never cuts a message.                               *)
THEOREM AlwaysWhole == Spec => []WholeMessage
<1>1. IInv => WholeMessage
  BY DEF IInv
<1>2. QED
  BY <1>1, InvAlways, PTL

-----------------------------------------------------------------------------
(* The editor implements LineSpec.                                          *)

LEMMA Simulation ==
  ASSUME IInv, [Next]_vars
  PROVE  [Editor!Next]_(Editor!vars)
<1> USE DEF IInv
<1> DEFINE Same == UNCHANGED Editor!vars
<1>0. /\ line \in Array /\ len \in 0..LineMax /\ LineMax \in Nat
      /\ CString(line) \in Seq(Text) /\ Len(CString(line)) = len
  BY LineAssumption, LineIs DEF TypeOK, Terminated, Array
<1>1. ASSUME NEW ch \in Text, Store(ch)
      PROVE  Editor!Next
  <2>1. CString(line)' = Append(CString(line), ch)
    BY <1>1, StoreEffect
  <2>2. Editor!Add(ch)
    BY <1>0, <1>1, <2>1 DEF Store, Editor!Add
  <2>3. QED
    BY <2>2 DEF Editor!Next
<1>2. ASSUME len > 0, len' = len - 1, ~busy,
             line' = [line EXCEPT ![len - 1] = NUL],
             UNCHANGED <<busy, handed>>
      PROVE  Editor!Next
  <2>1. len - 1 \in 0..LineMax /\ len - 1 <= len
    BY <1>0, <1>2
  <2>2. CString(line') = Editor!Front(CString(line))
    BY <1>0, <1>2, <2>1, CutEffect DEF Editor!Front
  <2>3. CString(line) # <<>>
    BY <1>0, <1>2, EmptySeq
  <2>4. Editor!Erase
    BY <1>2, <2>2, <2>3 DEF Editor!Erase
  <2>5. QED
    BY <2>4 DEF Editor!Next
<1>3. CASE KbdErase
  BY <1>2, <1>3 DEF KbdErase
<1>4. CASE SerErase
  <2>1. CASE len > 0
    <3>1. len' = len - 1
      BY <1>4, <2>1 DEF SerErase
    <3>2. QED
      BY <1>2, <1>4, <2>1, <3>1 DEF SerErase
  <2>2. CASE ~(len > 0)
    <3>1. len = 0 /\ len' = 0
      BY <1>0, <1>4, <2>2 DEF SerErase
    <3>2. line' = line
      BY <1>0, <1>4, <3>1 DEF SerErase, Terminated, IsLength, Array
    <3>3. QED
      BY <1>4, <3>2 DEF SerErase, Editor!vars
  <2>3. QED
    BY <2>1, <2>2
<1>5. CASE Enter
  <2>1. /\ line' = line
        /\ handed' = [kind |-> Editor!Kind(CString(line)),
                      text |-> CString(line), newline |-> TRUE]
    BY <1>5, EnterEffect
  <2>2. Editor!HandOver
    BY <1>5, <2>1 DEF Enter, Editor!HandOver
  <2>3. QED
    BY <2>2 DEF Editor!Next
<1>6. CASE Clear
  <2>1. 0 \in 0..LineMax /\ 0 <= len
    BY <1>0
  <2>2. CString([line EXCEPT ![0] = NUL]) = <<>>
    <3>1. /\ [line EXCEPT ![0] = NUL] \in Array
          /\ IsLength([line EXCEPT ![0] = NUL], 0)
      BY <2>1, CutEffect
    <3>2. /\ CString([line EXCEPT ![0] = NUL]) \in Seq(Text)
          /\ Len(CString([line EXCEPT ![0] = NUL])) = 0
      BY <2>1, <3>1, LineIs
    <3>3. QED
      BY <3>2, EmptySeq
  <2>3. Editor!Restart
    BY <1>6, <2>2 DEF Clear, Editor!Restart
  <2>4. QED
    BY <2>3 DEF Editor!Next
<1>7. CASE UNCHANGED vars
  BY <1>7 DEF vars, Editor!vars
<1>8. QED
  BY <1>1, <1>3, <1>4, <1>5, <1>6, <1>7 DEF Next

(* What Enter hands over is exactly what was typed and not erased since the *)
(* last Enter, and it is a command exactly when it equals one.              *)
THEOREM Refinement == Spec => ImplementsLine
<1>1. Init => Editor!Init
  <2> SUFFICES ASSUME Init
               PROVE  Editor!Init
    OBVIOUS
  <2>1. IInv
    BY InvInit
  <2>2. CString(line) \in Seq(Text) /\ Len(CString(line)) = 0
    BY <2>1, LineIs DEF Init, IInv, TypeOK, Terminated, Array
  <2>3. CString(line) = <<>>
    BY <2>2, EmptySeq
  <2>4. QED
    BY <2>3 DEF Init, Editor!Init
<1>2. IInv /\ [Next]_vars => [Editor!Next]_(Editor!vars)
  BY Simulation
<1>3. QED
  BY <1>1, <1>2, InvAlways, PTL DEF Spec, ImplementsLine, Editor!Spec
=============================================================================
