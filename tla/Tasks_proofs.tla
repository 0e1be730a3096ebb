---------------------------- MODULE Tasks_proofs ----------------------------
(***************************************************************************)
(* The contexts of the tasks, for every size of the XMM image, every depth *)
(* of the tasks' stacks and any interrupts and exceptions, nested to any   *)
(* depth: between the running task's own code and the present there is a   *)
(* chain of contexts, each of them interrupted by the handler that the     *)
(* next one runs, and each lies on the stack just as the handler will find *)
(* it when it returns.                                                     *)
(***************************************************************************)
EXTENDS Tasks, SequenceTheorems, TLAPS

---------------------------------------------------------------------------
(* Sequences of any elements *)
Words(s) == s \in Seq({s[i] : i \in DOMAIN s})

(* What is a sequence over some set is one over its own elements.          *)
LEMMA WordsOf ==
  ASSUME NEW S, NEW s \in Seq(S)
  PROVE  Words(s) /\ Len(s) \in Nat
  <1>1. Len(s) \in Nat /\ s = [i \in 1 .. Len(s) |-> s[i]] /\ DOMAIN s = 1 .. Len(s)
    OBVIOUS
  <1> DEFINE E == {s[i] : i \in DOMAIN s}
  <1>2. \A i \in 1 .. Len(s) : s[i] \in E
    BY <1>1
  <1> HIDE DEF E
  <1>3. s \in Seq(E)
    BY <1>1, <1>2
  <1> QED BY <1>1, <1>3 DEF E, Words

(* So a function on the first n numbers is a sequence. *)
LEMMA WordsBuilt ==
  ASSUME NEW n \in Nat, NEW f, f = [k \in 1 .. n |-> f[k]]
  PROVE  Words(f) /\ Len(f) = n
  <1> PICK S : S = {f[k] : k \in 1 .. n}
    OBVIOUS
  <1>1. \A k \in 1 .. n : f[k] \in S
    OBVIOUS
  <1>2. f \in Seq(S) /\ Len(f) = n
    BY ONLY <1>1, f = [k \in 1 .. n |-> f[k]], n \in Nat
  <1> QED BY <1>2, WordsOf

LEMMA WordsLen ==
  ASSUME NEW s, Words(s)
  PROVE  Len(s) \in Nat /\ s = [k \in 1 .. Len(s) |-> s[k]]
  BY DEF Words

(* Three sequences have a common set of elements. *)
LEMMA CommonWords ==
  ASSUME NEW s, NEW t, NEW u, Words(s), Words(t), Words(u)
  PROVE  \E S : s \in Seq(S) /\ t \in Seq(S) /\ u \in Seq(S)
  <1> DEFINE S == {s[i] : i \in DOMAIN s} \cup {t[i] : i \in DOMAIN t}
                    \cup {u[i] : i \in DOMAIN u}
  <1>1. \A x : Words(x) /\ {x[i] : i \in DOMAIN x} \subseteq S => x \in Seq(S)
    <2> HIDE DEF S
    <2> SUFFICES ASSUME NEW x, Words(x), {x[i] : i \in DOMAIN x} \subseteq S
                 PROVE  x \in Seq(S)
      OBVIOUS
    <2> PICK R : R = {x[i] : i \in DOMAIN x}
      OBVIOUS
    <2>1. x \in Seq(R) /\ R \subseteq S
      BY DEF Words
    <2> QED BY ONLY <2>1, SeqMonotonic
  <1> QED BY <1>1

(* Pushing words and taking them off again. *)
LEMMA Joined ==
  ASSUME NEW s, NEW t, Words(s), Words(t)
  PROVE  /\ Words(s \o t) /\ Len(s) \in Nat /\ Len(t) \in Nat
         /\ Len(s \o t) = Len(s) + Len(t)
         /\ \A k \in 1 .. Len(s) : (s \o t)[k] = s[k]
         /\ \A k \in 1 .. Len(t) : (s \o t)[Len(s) + k] = t[k]
         /\ SubSeq(s \o t, 1, Len(s)) = s
  <1> PICK S : s \in Seq(S) /\ t \in Seq(S)
    BY CommonWords
  <1>1. /\ s \o t \in Seq(S) /\ Len(s) \in Nat /\ Len(t) \in Nat
        /\ Len(s \o t) = Len(s) + Len(t)
        /\ \A k \in 1 .. Len(s) + Len(t) :
             (s \o t)[k] = IF k <= Len(s) THEN s[k] ELSE t[k - Len(s)]
    BY ConcatProperties
  <1> PICK j : j = s \o t
    OBVIOUS
  <1> PICK m \in Nat : m = Len(s)
    BY <1>1
  <1> PICK n \in Nat : n = Len(t)
    BY <1>1
  <1>2. \A k \in 1 .. m + n : j[k] = IF k <= m THEN s[k] ELSE t[k - m]
    BY <1>1
  <1>3. \A k \in 1 .. m : j[k] = s[k]
    BY ONLY <1>2, m \in Nat, n \in Nat
  <1>4. \A k \in 1 .. n : j[m + k] = t[k]
    <2> SUFFICES ASSUME NEW k \in 1 .. n PROVE j[m + k] = t[k]
      OBVIOUS
    <2>1. m + k \in 1 .. m + n /\ ~(m + k <= m) /\ (m + k) - m = k
      BY ONLY m \in Nat, n \in Nat, k \in 1 .. n
    <2> QED BY ONLY <1>2, <2>1
  <1>5. SubSeq(j, 1, m) = s
    <2>1. j \in Seq(S) /\ Len(j) = m + n
      BY <1>1
    <2> PICK p : p = SubSeq(j, 1, m)
      OBVIOUS
    <2>2. p \in Seq(S) /\ Len(p) = m /\ \A k \in 1 .. m : p[k] = j[k]
      BY ONLY <2>1, p = SubSeq(j, 1, m), m \in Nat, n \in Nat
    <2>3. s \in Seq(S) /\ Len(s) = Len(p) /\ \A k \in 1 .. Len(p) : p[k] = s[k]
      BY <1>3, <2>2
    <2> QED BY <2>2, <2>3, SeqEqual
  <1>6. Words(j)
    BY <1>1, WordsOf
  <1> QED BY <1>1, <1>3, <1>4, <1>5, <1>6

LEMMA JoinedTwice ==
  ASSUME NEW s, NEW t, NEW u, Words(s), Words(t), Words(u)
  PROVE  (s \o t) \o u = s \o (t \o u)
  <1> PICK S : s \in Seq(S) /\ t \in Seq(S) /\ u \in Seq(S)
    BY CommonWords
  <1> QED BY ConcatAssociative

(* One word more, as a sequence of its own. *)
LEMMA OneWord ==
  ASSUME NEW s, NEW w, Words(s)
  PROVE  /\ Words(<<w>>) /\ Len(<<w>>) = 1 /\ <<w>>[1] = w
         /\ Append(s, w) = s \o <<w>>
  <1>1. <<w>> \in Seq({w}) /\ Len(<<w>>) = 1 /\ <<w>>[1] = w
    OBVIOUS
  <1>2. Words(<<w>>)
    BY <1>1, WordsOf
  <1> PICK S : s \in Seq(S) /\ <<w>> \in Seq(S)
    BY <1>2, CommonWords
  <1>3. w \in S
    <2> PICK o : o = <<w>>
      OBVIOUS
    <2>1. o \in Seq(S) /\ Len(o) = 1 /\ o[1] = w
      OBVIOUS
    <2> QED BY ONLY <2>1
  <1>4. Append(s, w) = s \o <<w>>
    BY <1>3, AppendIsConcat
  <1> QED BY <1>1, <1>2, <1>4

LEMMA PushedWord ==
  ASSUME NEW s, NEW w, Words(s)
  PROVE  /\ Words(Append(s, w)) /\ Len(s) \in Nat /\ Len(Append(s, w)) = Len(s) + 1
         /\ Append(s, w)[Len(s) + 1] = w
         /\ \A k \in 1 .. Len(s) : Append(s, w)[k] = s[k]
         /\ SubSeq(Append(s, w), 1, Len(s)) = s
  <1> PICK o : o = <<w>> /\ Append(s, w) = s \o o /\ Words(o) /\ Len(o) = 1 /\ o[1] = w
    BY OneWord
  <1>1. 1 \in 1 .. Len(o)
    BY ONLY Len(o) = 1
  <1> QED BY <1>1, Joined

(* No words more *)
LEMMA NoWord ==
  ASSUME NEW s, Words(s)
  PROVE  /\ Words(<<>>) /\ Len(<<>>) = 0
         /\ s \o <<>> = s
  <1>1. <<>> \in Seq({})
    OBVIOUS
  <1>2. Words(<<>>)
    BY <1>1, WordsOf
  <1> PICK S : s \in Seq(S)
    BY CommonWords
  <1> QED BY <1>2, ConcatEmptySeq

---------------------------------------------------------------------------
(* Multiples of n *)
LEMMA Aligned ==
  ASSUME NEW l \in Nat, NEW n \in Nat \ {0}
  PROVE  /\ (-l) % n \in 0 .. n - 1
         /\ \E q \in Int : l + ((-l) % n) = n * q
  <1> PICK a \in Int : a = -l
    OBVIOUS
  <1> PICK q \in Int : q = a \div n
    OBVIOUS
  <1> PICK r \in Int : r = a % n
    OBVIOUS
  <1>1. a = n * q + r /\ r \in 0 .. n - 1
    OBVIOUS
  <1> PICK p \in Int : p = -q
    OBVIOUS
  <1>2. n * p = -(n * q)
    OBVIOUS
  <1> PICK x \in Int : x = n * q
    OBVIOUS
  <1>3. l + r = n * p
    BY ONLY <1>1, <1>2, a = -l, x = n * q, l \in Nat, a \in Int, r \in Int, x \in Int
  <1> QED BY <1>1, <1>3

LEMMA MultipleNext ==
  ASSUME NEW n \in Nat \ {0}, NEW q \in Int
  PROVE  (n * q + n) % n = 0
  <1> PICK p \in Int : p = q + 1
    OBVIOUS
  <1> PICK m \in Int : m = n * q + n
    OBVIOUS
  <1>1. m = n * p
    OBVIOUS
  <1>2. m % n = 0
    BY ONLY <1>1, n \in Nat \ {0}, p \in Int
  <1> QED BY <1>2

(* Padding up to a multiple *)
LEMMA PaddedTo ==
  ASSUME NEW s, Words(s), NEW n \in Nat \ {0}
  PROVE  /\ ToAlign(s, n) \in 0 .. n - 1
         /\ Words(Padding(ToAlign(s, n))) /\ Len(Padding(ToAlign(s, n))) = ToAlign(s, n)
         /\ (Len(s) + ToAlign(s, n) + n) % n = 0
  <1> PICK l \in Nat : l = Len(s)
    BY WordsLen
  <1> PICK a : a = (-l) % n
    OBVIOUS
  <1>1. a \in 0 .. n - 1 /\ \E q \in Int : l + a = n * q
    BY Aligned
  <1>2. ToAlign(s, n) = a
    BY DEF ToAlign
  <1>3. (l + a + n) % n = 0
    BY <1>1, MultipleNext
  <1> PICK p : p = Padding(a)
    OBVIOUS
  <1>4. p = [k \in 1 .. a |-> p[k]] /\ a \in Nat
    BY <1>1 DEF Padding
  <1>5. Words(p) /\ Len(p) = a
    BY <1>4, WordsBuilt
  <1> QED BY <1>1, <1>2, <1>3, <1>5

---------------------------------------------------------------------------
(* The registers *)
LEMMA SavedGprsLen == Len(SavedGprs) = 14 /\ DOMAIN SavedGprs = 1 .. 14
                      /\ \A k \in 1 .. 14 : SavedGprs[k] \in Gprs \ {"rax"}
  <1>1. /\ SavedGprs[1] = "r8" /\ SavedGprs[2] = "r9" /\ SavedGprs[3] = "r10"
        /\ SavedGprs[4] = "r11" /\ SavedGprs[5] = "r12" /\ SavedGprs[6] = "r13"
        /\ SavedGprs[7] = "r14" /\ SavedGprs[8] = "r15" /\ SavedGprs[9] = "rbx"
        /\ SavedGprs[10] = "rcx" /\ SavedGprs[11] = "rdx" /\ SavedGprs[12] = "rdi"
        /\ SavedGprs[13] = "rsi" /\ SavedGprs[14] = "rbp"
    BY DEF SavedGprs
  <1>2. Len(SavedGprs) = 14 /\ DOMAIN SavedGprs = 1 .. 14
    BY DEF SavedGprs
  <1>3. \A k \in 1 .. 14 : SavedGprs[k] # "rax"
    BY ONLY <1>1
  <1> QED BY <1>2, <1>3 DEF Gprs, Range

LEMMA RestoreOrderReversed ==
  /\ Len(RestoreOrder) = 14 /\ DOMAIN RestoreOrder = 1 .. 14
  /\ \A k \in 1 .. 14 : RestoreOrder[k] = SavedGprs[15 - k]
  /\ Range(RestoreOrder) = Gprs \ {"rax"}
  <1>1. /\ SavedGprs[1] = "r8" /\ SavedGprs[2] = "r9" /\ SavedGprs[3] = "r10"
        /\ SavedGprs[4] = "r11" /\ SavedGprs[5] = "r12" /\ SavedGprs[6] = "r13"
        /\ SavedGprs[7] = "r14" /\ SavedGprs[8] = "r15" /\ SavedGprs[9] = "rbx"
        /\ SavedGprs[10] = "rcx" /\ SavedGprs[11] = "rdx" /\ SavedGprs[12] = "rdi"
        /\ SavedGprs[13] = "rsi" /\ SavedGprs[14] = "rbp"
    BY DEF SavedGprs
  <1>2. /\ RestoreOrder[14] = "r8" /\ RestoreOrder[13] = "r9" /\ RestoreOrder[12] = "r10"
        /\ RestoreOrder[11] = "r11" /\ RestoreOrder[10] = "r12" /\ RestoreOrder[9] = "r13"
        /\ RestoreOrder[8] = "r14" /\ RestoreOrder[7] = "r15" /\ RestoreOrder[6] = "rbx"
        /\ RestoreOrder[5] = "rcx" /\ RestoreOrder[4] = "rdx" /\ RestoreOrder[3] = "rdi"
        /\ RestoreOrder[2] = "rsi" /\ RestoreOrder[1] = "rbp"
    BY DEF RestoreOrder
  <1>3. Len(RestoreOrder) = 14 /\ DOMAIN RestoreOrder = 1 .. 14
    BY DEF RestoreOrder
  <1>4. \A k \in 1 .. 14 : RestoreOrder[k] = SavedGprs[15 - k]
    BY ONLY <1>1, <1>2
  <1>5. Range(RestoreOrder) = Range(SavedGprs)
    <2>1. \A k \in 1 .. 14 : SavedGprs[k] = RestoreOrder[15 - k] /\ 15 - k \in 1 .. 14
      BY <1>4
    <2>2. \A k \in 1 .. 14 : 15 - k \in 1 .. 14
      OBVIOUS
    <2> QED BY <1>3, <1>4, <2>1, <2>2, SavedGprsLen DEF Range
  <1>6. "rax" \notin Range(SavedGprs)
    BY SavedGprsLen DEF Range
  <1> QED BY <1>3, <1>4, <1>5, <1>6 DEF Gprs

(* RESTORE_GPR pops every register from where SAVE_GPR has pushed it.      *)
LEMMA PopsItsOwn ==
  ASSUME NEW g \in Gprs \ {"rax"}
  PROVE  LET k == AntiFunction(RestoreOrder)[g]
         IN  k \in 1 .. 14 /\ SavedGprs[15 - k] = g
  <1> PICK f : f = RestoreOrder
    OBVIOUS
  <1>1. DOMAIN f = 1 .. 14 /\ g \in Range(f)
    BY RestoreOrderReversed
  <1> PICK k : k = AntiFunction(f)[g]
    OBVIOUS
  <1>2. k = CHOOSE i \in 1 .. 14 : g \in Range(f) => f[i] = g
    BY <1>1 DEF AntiFunction, Inverse
  <1>3. \E i \in 1 .. 14 : g \in Range(f) => f[i] = g
    BY <1>1 DEF Range
  <1>4. k \in 1 .. 14 /\ f[k] = g
    BY ONLY <1>1, <1>2, <1>3
  <1> QED BY <1>4, RestoreOrderReversed

LEMMA GprsSaved ==
  ASSUME NEW s, Words(s), NEW r
  PROVE  /\ Words(SaveGpr(s, r)) /\ Len(s) \in Nat
         /\ Len(SaveGpr(s, r)) = Len(s) + 14
         /\ \A k \in 1 .. 14 : SaveGpr(s, r)[Len(s) + k] = r[SavedGprs[k]]
         /\ SubSeq(SaveGpr(s, r), 1, Len(s)) = s
  <1> PICK f : f = [k \in DOMAIN SavedGprs |-> r[SavedGprs[k]]]
    OBVIOUS
  <1>1. f = [k \in 1 .. 14 |-> f[k]] /\ \A k \in 1 .. 14 : f[k] = r[SavedGprs[k]]
    BY SavedGprsLen
  <1> PICK n \in Nat : n = 14
    OBVIOUS
  <1>2. Words(f) /\ Len(f) = n
    <2>1. f = [k \in 1 .. n |-> f[k]]
      BY ONLY <1>1, n = 14
    <2> QED BY ONLY <2>1, n \in Nat, WordsBuilt
  <1>3. SaveGpr(s, r) = s \o f
    BY DEF SaveGpr
  <1> PICK o : o = s \o f
    OBVIOUS
  <1>4. /\ Words(o) /\ Len(s) \in Nat /\ Len(o) = Len(s) + Len(f)
        /\ \A k \in 1 .. Len(f) : o[Len(s) + k] = f[k]
        /\ SubSeq(o, 1, Len(s)) = s
    BY <1>2, Joined
  <1>5. Len(f) = 14
    BY <1>2
  <1>6. SaveGpr(s, r) = o
    BY <1>3
  <1> QED BY ONLY <1>1, <1>4, <1>5, <1>6

(* RESTORE_GPR behind SAVE_GPR *)
LEMMA GprsRestored ==
  ASSUME NEW s, Words(s), NEW r, NEW g \in Gprs \ {"rax"}
  PROVE  LET t == SaveGpr(s, r)
         IN  t[Len(t) + 1 - AntiFunction(RestoreOrder)[g]] = r[g]
  <1> PICK t : t = SaveGpr(s, r)
    OBVIOUS
  <1> PICK k : k = AntiFunction(RestoreOrder)[g]
    OBVIOUS
  <1>1. k \in 1 .. 14 /\ SavedGprs[15 - k] = g
    BY PopsItsOwn
  <1> PICK l \in Nat : l = Len(s)
    BY WordsLen
  <1>2. Len(t) = l + 14 /\ \A j \in 1 .. 14 : t[l + j] = r[SavedGprs[j]]
    <2>1. /\ Len(SaveGpr(s, r)) = Len(s) + 14
          /\ \A j \in 1 .. 14 : SaveGpr(s, r)[Len(s) + j] = r[SavedGprs[j]]
      BY ONLY Words(s), GprsSaved
    <2> QED BY ONLY <2>1, t = SaveGpr(s, r), l = Len(s)
  <1>3. 15 - k \in 1 .. 14 /\ Len(t) + 1 - k = l + (15 - k)
    <2>1. k \in 1 .. 14 /\ Len(t) = l + 14
      BY ONLY <1>1, <1>2
    <2> QED BY ONLY <2>1, l \in Nat
  <1>4. t[Len(t) + 1 - k] = r[g]
    BY ONLY <1>1, <1>2, <1>3
  <1> QED BY <1>4

(* What SAVE_GPR pushes depends on the registers it saves alone.           *)
LEMMA GprsSame ==
  ASSUME NEW s, NEW r, NEW q, \A g \in Gprs \ {"rax"} : r[g] = q[g]
  PROVE  SaveGpr(s, r) = SaveGpr(s, q)
  BY SavedGprsLen DEF SaveGpr

---------------------------------------------------------------------------
(* The XMM state *)
XmmStates == Tasks \cup {"zero", "junk"}

(* What SAVE_MM leaves on the stack is what RESTORE_MM needs: a whole and  *)
(* aligned image, and the way over it to where the stack was.              *)
LEMMA MmSaved ==
  ASSUME NEW s, Words(s), NEW x \in XmmStates
  PROVE  LET t == SaveMm(s, x)
         IN  /\ Words(t) /\ Len(t) \in Nat /\ Len(s) \in Nat
             /\ FxTop(t)
             /\ t[Len(t)][1] = "num" /\ t[Len(t)][2] = Len(t) - 1 - Len(s)
             /\ t[Len(t) - 1][2] = x
             /\ SubSeq(t, 1, Len(s)) = s
  <1> PICK n \in Nat \ {0} : n = FxWords /\ n > 2
    BY TasksAssumption
  <1> PICK l \in Nat : l = Len(s)
    BY WordsLen
  <1> PICK a \in 0 .. n - 1 : a = ToAlign(s, n) /\ (l + a + n) % n = 0
    BY PaddedTo
  <1> PICK p : p = Padding(a)
    OBVIOUS
  <1>1. Words(p) /\ Len(p) = a
    BY PaddedTo
  <1> PICK i : i = [k \in 1 .. n |-> <<"fx", x>>]
    OBVIOUS
  <1>2. i = [k \in 1 .. n |-> i[k]] /\ \A k \in 1 .. n : i[k] = <<"fx", x>>
    OBVIOUS
  <1>3. Words(i) /\ Len(i) = n
    BY <1>2, WordsBuilt
  <1> PICK w : w = Num(a + n)
    OBVIOUS
  <1> PICK b : b = s \o p
    OBVIOUS
  <1>4. Words(b) /\ Len(b) = l + a
    <2>1. Words(s) /\ Words(p) /\ Len(p) = a /\ Len(s) = l
      BY <1>1
    <2> QED BY ONLY <2>1, b = s \o p, Joined
  <1> PICK m : m = b \o i
    OBVIOUS
  <1>5. Words(m) /\ Len(m) = l + a + n /\ \A k \in 1 .. n : m[l + a + k] = <<"fx", x>>
    <2>1. /\ Words(m) /\ Len(m) = Len(b) + Len(i)
          /\ \A k \in 1 .. Len(i) : m[Len(b) + k] = i[k]
      <3>1. Words(b) /\ Words(i)
        BY ONLY <1>3, <1>4
      <3> QED BY ONLY <3>1, m = b \o i, Joined
    <2> QED BY ONLY <1>2, <1>3, <1>4, <2>1
  <1> PICK u : u = <<w>>
    OBVIOUS
  <1>6. Words(u) /\ Len(u) = 1 /\ u[1] = w
    BY <1>1, OneWord
  <1> PICK t : t = m \o u
    OBVIOUS
  <1>7. t = SaveMm(s, x)
    <2> HIDE DEF Padding
    <2> QED BY DEF SaveMm
  <1> PICK c : c = l + a + n
    OBVIOUS
  <1>8. /\ Words(t) /\ Len(t) = c + 1 /\ t[c + 1] = w
        /\ \A k \in 1 .. c : t[k] = m[k]
    <2>1. /\ Words(t) /\ Len(t) = Len(m) + Len(u)
          /\ \A k \in 1 .. Len(m) : t[k] = m[k]
          /\ \A k \in 1 .. Len(u) : t[Len(m) + k] = u[k]
      <3>1. Words(m) /\ Words(u)
        BY ONLY <1>5, <1>6
      <3> QED BY ONLY <3>1, t = m \o u, Joined
    <2>2. 1 \in 1 .. Len(u)
      BY ONLY <1>6
    <2> QED BY ONLY <1>5, <1>6, <2>1, <2>2, c = l + a + n
  <1>9. SubSeq(t, 1, l) = s
    <2> PICK iu : iu = i \o u
      OBVIOUS
    <2>1. Words(iu)
      BY ONLY <1>3, <1>6, iu = i \o u, Joined
    <2>2. t = b \o iu
      <3>1. (b \o i) \o u = b \o (i \o u)
        BY ONLY <1>3, <1>4, <1>6, JoinedTwice
      <3> QED BY ONLY <3>1, m = b \o i, t = m \o u, iu = i \o u
    <2> PICK piu : piu = p \o iu
      OBVIOUS
    <2>3. Words(piu)
      BY ONLY <1>1, <2>1, piu = p \o iu, Joined
    <2>4. t = s \o piu
      <3>1. (s \o p) \o iu = s \o (p \o iu)
        BY ONLY <1>1, <2>1, Words(s), JoinedTwice
      <3> QED BY ONLY <2>2, <3>1, b = s \o p, piu = p \o iu
    <2> QED BY ONLY <2>3, <2>4, l = Len(s), Words(s), Joined
  <1>10. c \in Nat /\ c >= n /\ c = l + a + n
    BY ONLY l \in Nat, n \in Nat \ {0}, a \in 0 .. n - 1, c = l + a + n
  <1>11. \A k \in 1 .. n : t[l + a + k] = <<"fx", x>>
    <2> SUFFICES ASSUME NEW k \in 1 .. n PROVE t[l + a + k] = <<"fx", x>>
      OBVIOUS
    <2>1. l + a + k \in 1 .. c
      BY ONLY l \in Nat, n \in Nat \ {0}, a \in 0 .. n - 1, c = l + a + n, k \in 1 .. n
    <2> QED BY ONLY <1>5, <1>8, <2>1, k \in 1 .. n
  <1>12. t[c] = <<"fx", x>>
    <2>1. n \in 1 .. n /\ c = l + a + n
      OBVIOUS
    <2> QED BY ONLY <1>11, <2>1
  <1>13. \A k \in 1 .. n : ImageIn(t)[k] = <<"fx", x>>
    <2> PICK S : t \in Seq(S)
      BY <1>8, CommonWords
    <2> PICK f \in Int : f = Len(t) - n
      BY ONLY <1>8, <1>10, n \in Nat \ {0}
    <2> PICK g \in Int : g = Len(t) - 1
      BY ONLY <1>8, <1>10
    <2> PICK e : e = Len(t)
      OBVIOUS
    <2>0. e = c + 1
      BY ONLY <1>8, e = Len(t)
    <2>1. /\ f \in 1 .. Len(t) /\ g \in 0 .. Len(t) /\ (g - f) + 1 = n
          /\ f = l + a + 1
      BY ONLY <2>0, <1>10, e = Len(t), l \in Nat, n \in Nat \ {0}, a \in 0 .. n - 1, f \in Int, g \in Int,
              f = Len(t) - n, g = Len(t) - 1
    <2>2. \A k \in f .. g : t[k] \in S
      BY ONLY <2>1, t \in Seq(S), f \in Int, g \in Int
    <2> PICK im : im = SubSeq(t, f, g)
      OBVIOUS
    <2>3. \A k \in 1 .. g - f + 1 : im[k] = t[f + k - 1]
      BY ONLY <2>2, SubSeqProperties, f \in Int, g \in Int, im = SubSeq(t, f, g)
    <2>4. \A k \in 1 .. n : im[k] = <<"fx", x>>
      <3> SUFFICES ASSUME NEW k \in 1 .. n PROVE im[k] = <<"fx", x>>
        OBVIOUS
      <3>1. k \in 1 .. g - f + 1 /\ f + k - 1 = l + a + k
        BY ONLY <2>1, k \in 1 .. n, n \in Nat \ {0}, f \in Int, g \in Int, l \in Nat, a \in 0 .. n - 1
      <3> QED BY ONLY <1>11, <2>3, <3>1, k \in 1 .. n
    <2>5. ImageIn(t) = im
      BY DEF ImageIn
    <2> QED BY ONLY <2>4, <2>5
  <1>14. w[1] = "num" /\ w[2] = a + n
    BY DEF Num
  <1>15. Len(t) = c + 1 /\ Len(t) - 1 = c /\ c - l = a + n /\ a + n \in n .. c
    BY ONLY <1>8, <1>10, l \in Nat, n \in Nat \ {0}, a \in 0 .. n - 1
  <1>16. FxTop(t)
    <2>1. Len(t) > n /\ t[Len(t)] = w
      BY ONLY <1>8, <1>10, n \in Nat \ {0}
    <2>2. w[2] \in n .. Len(t) - 1 /\ (Len(t) - 1) % n = 0
      BY ONLY <1>10, <1>14, <1>15, (l + a + n) % n = 0
    <2>3. \E y \in Tasks \cup {"zero", "junk"} :
             \A k \in 1 .. n : ImageIn(t)[k] = <<"fx", y>>
      BY ONLY <1>13, x \in XmmStates DEF XmmStates
    <2> QED BY ONLY <1>14, <2>1, <2>2, <2>3, n = FxWords /\ n > 2 DEF FxTop
  <1> QED
    BY ONLY <1>7, <1>8, <1>9, <1>10, <1>12, <1>14, <1>15, <1>16, l = Len(s), l \in Nat

---------------------------------------------------------------------------
(* The frame that the processor pushes *)
Frame(s, on, p) ==
  s \o Padding(ToAlign(s, 2))
    \o <<<<"ss", "kernel">>, Num(Len(s)), <<"if", on>>, <<"cs", "kernel">>, Pc(p)>>

(* IRETQ finds in it what was interrupted. *)
LEMMA FrameFacts ==
  ASSUME NEW s, Words(s), NEW on, NEW p
  PROVE  LET t == Frame(s, on, p)
         IN  /\ Words(t) /\ Len(t) \in Nat /\ Len(t) >= 5 /\ Len(s) \in Nat
             /\ t[Len(t)] = Pc(p) /\ t[Len(t) - 2] = <<"if", on>>
             /\ t[Len(t) - 3] = Num(Len(s))
             /\ SubSeq(t, 1, Len(s)) = s
  <1> PICK l \in Nat : l = Len(s)
    BY WordsLen
  <1> PICK two \in Nat \ {0} : two = 2
    OBVIOUS
  <1> PICK a \in 0 .. two - 1 : a = ToAlign(s, two)
    BY PaddedTo
  <1> PICK d : d = Padding(a)
    OBVIOUS
  <1>1. Words(d) /\ Len(d) = a
    BY PaddedTo
  <1> PICK f : f = <<<<"ss", "kernel">>, Num(Len(s)), <<"if", on>>, <<"cs", "kernel">>, Pc(p)>>
    OBVIOUS
  <1> PICK n \in Nat : n = 5
    OBVIOUS
  <1>2. /\ f = [k \in 1 .. n |-> f[k]]
        /\ f[2] = Num(Len(s)) /\ f[3] = <<"if", on>> /\ f[5] = Pc(p)
    BY ONLY n = 5,
         f = <<<<"ss", "kernel">>, Num(Len(s)), <<"if", on>>, <<"cs", "kernel">>, Pc(p)>>
  <1>3. Words(f) /\ Len(f) = n
    BY <1>2, WordsBuilt
  <1> PICK b : b = s \o d
    OBVIOUS
  <1>4. Words(b) /\ Len(b) = l + a
    <2>1. Words(s) /\ Words(d) /\ Len(d) = a /\ Len(s) = l
      BY <1>1
    <2> QED BY ONLY <2>1, b = s \o d, Joined
  <1> PICK t : t = b \o f
    OBVIOUS
  <1>5. t = Frame(s, on, p)
    <2> HIDE DEF Padding
    <2> QED BY DEF Frame
  <1>6. /\ Words(t) /\ Len(t) = l + a + 5 /\ t[l + a + 2] = f[2]
        /\ t[l + a + 3] = f[3] /\ t[l + a + 5] = f[5]
    <2>1. /\ Words(t) /\ Len(t) = Len(b) + Len(f)
          /\ \A k \in 1 .. Len(f) : t[Len(b) + k] = f[k]
      <3>1. Words(b) /\ Words(f)
        BY ONLY <1>3, <1>4
      <3> QED BY ONLY <3>1, t = b \o f, Joined
    <2>2. 2 \in 1 .. Len(f) /\ 3 \in 1 .. Len(f) /\ 5 \in 1 .. Len(f) /\ Len(f) = 5
      BY ONLY <1>3, n = 5
    <2> QED BY ONLY <1>4, <2>1, <2>2
  <1>7. SubSeq(t, 1, l) = s
    <2> PICK df : df = d \o f
      OBVIOUS
    <2>1. Words(df) /\ t = s \o df
      <3>1. Words(df) /\ df = d \o f
        BY ONLY <1>1, <1>3, df = d \o f, Joined
      <3>2. (s \o d) \o f = s \o (d \o f)
        BY ONLY <1>1, <1>3, Words(s), JoinedTwice
      <3> QED BY ONLY <3>1, <3>2, b = s \o d, t = b \o f
    <2> QED BY ONLY <2>1, Words(s), l = Len(s), Joined
  <1>8. /\ Len(t) \in Nat /\ Len(t) >= 5 /\ Len(t) = l + a + 5
        /\ Len(t) - 2 = l + a + 3 /\ Len(t) - 3 = l + a + 2
    BY ONLY <1>6, l \in Nat, two = 2, a \in 0 .. two - 1
  <1> QED BY ONLY <1>2, <1>5, <1>6, <1>7, <1>8, l = Len(s), l \in Nat

(* That is the frame of an interrupt of the state. *)
LEMMA FrameNow ==
  ASSUME NEW s
  PROVE  InterruptFrame(s) = Frame(s, ifOn, pc)
  BY DEF InterruptFrame, Frame

---------------------------------------------------------------------------
(* What an interrupt or an exception finds: a place, the interrupts, the   *)
(* registers, the XMM state and the stack.                                 *)
Now == [pc |-> pc, on |-> ifOn, regs |-> regs, fx |-> fx, s |-> stack[cur]]

Context(c) ==
  /\ Words(c.s) /\ c.fx \in XmmStates
  /\ c.regs = [g \in Gprs |-> c.regs[g]]
  /\ c = [pc |-> c.pc, on |-> c.on, regs |-> c.regs, fx |-> c.fx, s |-> c.s]

(* The stack of a handler of c, from the frame of the processor (and an    *)
(* error code) up                                                          *)
ErrorCode     == <<<<"error", "">>>>
Framed(c, e)  == Frame(c.s, c.on, c.pc) \o e
WithRax(c, e) == Append(Framed(c, e), c.regs["rax"])
WithGprs(c, e) == SaveGpr(WithRax(c, e), c.regs)
WithMm(c, e)  == SaveMm(WithGprs(c, e), c.fx)

(* An exception without a handler of its own to stop at, but with an error *)
(* code, has been raised                                                   *)
Lost == raised \cap (WithErrorCode \ Stoppers) # {}

Raised(v, e) == /\ v \in raised \cap faults_to_install
                /\ e = IF v \in WithErrorCode THEN ErrorCode ELSE <<>>

(* d is a context of the handler of what interrupted c: on its way to the  *)
(* handler and in it, and on its way back to c                             *)
Entering(c, d, e) ==
  \/ d.pc[1] = "do_irq" /\ e = <<>> /\ d.s = WithMm(c, e)
  \/ /\ d.pc[1] = "trap" /\ Raised(d.pc[2], e) /\ d.s = Framed(c, e)
     /\ d.regs = c.regs /\ d.fx = c.fx
  \/ /\ d.pc[1] = "trap_mm" /\ Raised(d.pc[2], e) /\ d.s = WithGprs(c, e)
     /\ d.regs["rax"] = Num(d.pc[2]) /\ d.fx = c.fx
  \/ /\ d.pc[1] = "fault" /\ d.s = WithMm(c, e) /\ d.on = FALSE
     /\ \E v : Raised(v, e) /\ d.pc[2] = hi_level_fault_handlers[v + 1]

Leaving(c, d, e) ==
  /\ e = <<>> \/ Lost
  /\ \/ d.pc = <<"restore_mm", "irq">> /\ d.s = WithMm(c, e)
     \/ d.pc = <<"restore_gpr", "irq">> /\ d.s = WithGprs(c, e) /\ d.fx = c.fx
     \/ /\ d.pc = <<"restored", "irq">> /\ d.s = WithRax(c, e) /\ d.fx = c.fx
        /\ \A g \in Gprs \ {"rax"} : d.regs[g] = c.regs[g]
     \/ /\ d.pc = <<"iretq", "irq">> /\ d.s = Framed(c, e) /\ d.fx = c.fx
        /\ d.regs = c.regs

Handles(c, d) == \E e \in {<<>>, ErrorCode} : Entering(c, d, e) \/ Leaving(c, d, e)

---------------------------------------------------------------------------
(* A task in its own code.  Called is its stack in arch_activate_task().   *)
OwnStack(t, s) == Words(s) /\ Len(s) = depth[t]
Kept(t, r)     == \A g \in CalleeSaved : r[g] = Own(t)[g]
Called(s)      == Append(s, Pc(<<"resumed", "own">>))
CallSaved(s, x, r) == SaveGpr(Append(Called(s), x), r)

ForkFrame == <<<<"ss", "kernel">>, Num(0), SetupRflags, <<"cs", "kernel">>,
               Pc(<<"helper", "own">>)>>
ForkStack == SaveGpr(ForkFrame, ThreadRegs)
Arguments(r) == r["rdi"] = <<"clone_fn", "">> /\ r["rsi"] = <<"data", "">>

Looping(t, c) ==
  /\ c.pc \in {<<"loop", "own">>, <<"activate", "own">>}
  /\ OwnStack(t, c.s) /\ c.regs = Own(t) /\ c.fx = t /\ c.on = TRUE

Calling(t, c) ==
  /\ Kept(t, c.regs) /\ c.fx = t /\ c.on = TRUE
  /\ c.regs["rsi"] = Num(ctxRsp[Other(t)]) /\ Exists(Other(t))
  /\ \E s : /\ OwnStack(t, s)
            /\ \/ c.pc = <<"push_rax", "activate">> /\ c.s = Called(s)
               \/ /\ c.pc = <<"switch", "activate">>
                  /\ \E x : c.s = CallSaved(s, x, c.regs)

(* A stack that RESTORE_ALL takes back to the task on one of its paths     *)
WayBack(t, s, path) ==
  \/ /\ path = "sleep"
     /\ \E o, x, r : OwnStack(t, o) /\ Kept(t, r) /\ s = SaveMm(CallSaved(o, x, r), t)
  \/ path = "fork" /\ t = "thread" /\ s = SaveMm(ForkStack, "zero")

Resuming(t, c) ==
  \/ \E path : c.pc = <<"restore_mm", path>> /\ WayBack(t, c.s, path)
  \/ /\ c.pc = <<"restore_gpr", "sleep">> /\ c.fx = t
     /\ \E o, x, r : OwnStack(t, o) /\ Kept(t, r) /\ c.s = CallSaved(o, x, r)
  \/ /\ c.pc = <<"restored", "sleep">> /\ c.fx = t /\ Kept(t, c.regs)
     /\ \E o, x : OwnStack(t, o) /\ c.s = Append(Called(o), x)
  \/ /\ c.pc = <<"resumed", "own">> /\ c.fx = t /\ Kept(t, c.regs)
     /\ OwnStack(t, c.s) /\ c.on = TRUE

Starting(t, c) ==
  \/ c.pc = <<"restore_gpr", "fork">> /\ c.s = ForkStack
  \/ c.pc = <<"restored", "fork">> /\ c.s = ForkFrame /\ Arguments(c.regs)
  \/ c.pc = <<"helper", "own">> /\ c.s = <<>> /\ Arguments(c.regs) /\ c.on = TRUE

OwnContext(t, c) == Looping(t, c) \/ Calling(t, c) \/ Resuming(t, c) \/ Starting(t, c)

(* The task that does not run *)
Asleep(u) ==
  \E s, path : /\ WayBack(u, s, path)
               /\ stack[u] = Append(s, Pc(<<"restore_mm", path>>))
               /\ ctxRsp[u] = Len(stack[u])

(* From the running task's own code to the present: each context handles   *)
(* what interrupted the one before it.                                     *)
Chain(n, ch) ==
  /\ n \in Nat \ {0} /\ ch[n] = Now
  /\ OwnContext(cur, ch[1])
  /\ \A i \in 1 .. n : Context(ch[i])
  /\ \A i \in 1 .. n - 1 : Handles(ch[i], ch[i + 1])

Typed ==
  /\ cur \in Tasks /\ depth \in [Tasks -> Depths]
  /\ stack = [t \in Tasks |-> stack[t]] /\ ctxRsp = [t \in Tasks |-> ctxRsp[t]]

ContextInv ==
  /\ Typed
  /\ At("wild") => ~kthread1 \/ Lost
  /\ At("stopped") => raised \cap Stoppers # {} /\ ifOn = FALSE
  /\ \A u \in Tasks \ {cur} : Exists(u) => Asleep(u)
  /\ At("wild") \/ At("stopped") \/ \E n, ch : Chain(n, ch)

---------------------------------------------------------------------------
(* Handlers' stacks are stacks *)
LEMMA FramedWords ==
  ASSUME NEW c, Context(c), NEW e \in {<<>>, ErrorCode}
  PROVE  /\ Words(Framed(c, e)) /\ Words(WithRax(c, e)) /\ Words(WithGprs(c, e))
         /\ Words(WithMm(c, e))
  <1>1. Words(Frame(c.s, c.on, c.pc))
    BY FrameFacts DEF Context
  <1> PICK w : w = <<"error", "">>
    OBVIOUS
  <1>2. Words(e)
    <2>1. Words(<<w>>) /\ Words(<<>>)
      BY ONLY <1>1, OneWord, NoWord
    <2> QED BY ONLY <2>1, e \in {<<>>, ErrorCode}, w = <<"error", "">> DEF ErrorCode
  <1>3. Words(Framed(c, e))
    BY ONLY <1>1, <1>2, Joined DEF Framed
  <1>4. Words(WithRax(c, e))
    BY ONLY <1>3, PushedWord DEF WithRax
  <1>5. Words(WithGprs(c, e))
    BY ONLY <1>4, GprsSaved DEF WithGprs
  <1>6. Words(WithMm(c, e))
    <2>1. c.fx \in XmmStates
      BY DEF Context
    <2> QED BY ONLY <1>5, <2>1, MmSaved DEF WithMm
  <1> QED BY <1>3, <1>4, <1>5, <1>6

(* Without an error code, what was interrupted is under the stub's words,  *)
(* and with one it is on top.                                              *)
LEMMA FramedTop ==
  ASSUME NEW c, Context(c)
  PROVE  /\ LET t == Framed(c, <<>>)
            IN  /\ Len(t) \in Nat /\ Len(t) >= 5
                /\ t[Len(t)] = Pc(c.pc) /\ t[Len(t) - 2] = <<"if", c.on>>
                /\ t[Len(t) - 3] = Num(Len(c.s))
                /\ SubSeq(t, 1, Len(c.s)) = c.s
         /\ LET t == Framed(c, ErrorCode)
            IN  t[Len(t)] = <<"error", "">>
  <1> PICK f : f = Frame(c.s, c.on, c.pc)
    OBVIOUS
  <1>1. /\ Words(f) /\ Len(f) \in Nat /\ Len(f) >= 5 /\ f[Len(f)] = Pc(c.pc)
        /\ f[Len(f) - 2] = <<"if", c.on>> /\ f[Len(f) - 3] = Num(Len(c.s))
        /\ SubSeq(f, 1, Len(c.s)) = c.s
    BY FrameFacts DEF Context
  <1>2. Framed(c, <<>>) = f
    BY <1>1, NoWord DEF Framed
  <1> PICK w : w = <<"error", "">>
    OBVIOUS
  <1> PICK t : t = Append(f, w)
    OBVIOUS
  <1>3. t[Len(t)] = w
    <2>1. Len(f) \in Nat /\ Len(t) = Len(f) + 1 /\ t[Len(f) + 1] = w
      <3>1. Words(f)
        BY ONLY <1>1
      <3> QED BY ONLY <3>1, t = Append(f, w), PushedWord
    <2> QED BY ONLY <2>1
  <1>4. Framed(c, ErrorCode) = t
    <2>1. Append(f, w) = f \o <<w>>
      BY <1>1, OneWord
    <2> QED BY <2>1 DEF Framed, ErrorCode
  <1> QED BY <1>1, <1>2, <1>3, <1>4

(* Who stops: the handlers of vectors 13 and 14. *)
LEMMA HandlerNames ==
  ASSUME NEW v \in faults_to_install
  PROVE  hi_level_fault_handlers[v + 1] \in {"GP", "PF"} <=> v \in Stoppers
  <1> PICK a : a = <<"DE", "DB", "NMI", "BP", "OF", "BR", "UD", "NM", "DF">>
    OBVIOUS
  <1> PICK b : b = <<"TS", "NP", "SS", "GP", "PF">>
    OBVIOUS
  <1> PICK c : c = <<"MF", "AC", "MC", "XF">>
    OBVIOUS
  <1> PICK d : d = <<"SX">>
    OBVIOUS
  <1>1. /\ Words(a) /\ Len(a) = 9 /\ \A k \in 1 .. 9 : a[k] \notin {"GP", "PF"}
        /\ Words(b) /\ Len(b) = 5 /\ \A k \in 1 .. 3 : b[k] \notin {"GP", "PF"}
        /\ b[4] = "GP" /\ b[5] = "PF"
        /\ Words(c) /\ Len(c) = 4 /\ \A k \in 1 .. 4 : c[k] \notin {"GP", "PF"}
        /\ Words(d) /\ Len(d) = 1 /\ d[1] \notin {"GP", "PF"}
    <2> PICK n1 \in Nat : n1 = 1
      OBVIOUS
    <2> PICK n4 \in Nat : n4 = 4
      OBVIOUS
    <2> PICK n5 \in Nat : n5 = 5
      OBVIOUS
    <2> PICK n9 \in Nat : n9 = 9
      OBVIOUS
    <2>1. a = [k \in 1 .. n9 |-> a[k]] /\ \A k \in 1 .. 9 : a[k] \notin {"GP", "PF"}
      BY ONLY n9 = 9, a = <<"DE", "DB", "NMI", "BP", "OF", "BR", "UD", "NM", "DF">>
    <2>2. /\ b = [k \in 1 .. n5 |-> b[k]] /\ \A k \in 1 .. 3 : b[k] \notin {"GP", "PF"}
          /\ b[4] = "GP" /\ b[5] = "PF"
      BY ONLY n5 = 5, b = <<"TS", "NP", "SS", "GP", "PF">>
    <2>3. c = [k \in 1 .. n4 |-> c[k]] /\ \A k \in 1 .. 4 : c[k] \notin {"GP", "PF"}
      BY ONLY n4 = 4, c = <<"MF", "AC", "MC", "XF">>
    <2>4. d = [k \in 1 .. n1 |-> d[k]] /\ d[1] \notin {"GP", "PF"}
      BY ONLY n1 = 1, d = <<"SX">>
    <2>5. /\ Words(a) /\ Len(a) = n9 /\ Words(b) /\ Len(b) = n5
          /\ Words(c) /\ Len(c) = n4 /\ Words(d) /\ Len(d) = n1
      BY ONLY <2>1, <2>2, <2>3, <2>4, WordsBuilt, n1 \in Nat, n4 \in Nat, n5 \in Nat,
              n9 \in Nat
    <2> QED BY ONLY <2>1, <2>2, <2>3, <2>4, <2>5, n1 = 1, n4 = 4, n5 = 5, n9 = 9
  <1> PICK r : r = reserved(1)
    OBVIOUS
  <1> PICK q : q = reserved(10)
    OBVIOUS
  <1>2. Words(r) /\ Len(r) = 1 /\ Words(q) /\ Len(q) = 10
    <2> PICK one \in Nat : one = 1
      OBVIOUS
    <2> PICK ten \in Nat : ten = 10
      OBVIOUS
    <2>1. r = [k \in 1 .. one |-> r[k]] /\ q = [k \in 1 .. ten |-> q[k]]
      BY DEF reserved
    <2>2. Words(r) /\ Len(r) = one /\ Words(q) /\ Len(q) = ten
      BY <2>1, WordsBuilt
    <2> QED BY <2>2
  <1> PICK ar : ar = a \o r
    OBVIOUS
  <1>3. Words(ar) /\ Len(ar) = 10 /\ \A k \in 1 .. 9 : ar[k] = a[k]
    <2>1. Words(ar) /\ Len(ar) = Len(a) + Len(r) /\ \A k \in 1 .. Len(a) : ar[k] = a[k]
      <3>1. Words(a) /\ Words(r)
        BY ONLY <1>1, <1>2
      <3> QED BY ONLY <3>1, ar = a \o r, Joined
    <2> QED BY ONLY <1>1, <1>2, <2>1
  <1> PICK arb : arb = ar \o b
    OBVIOUS
  <1>4. /\ Words(arb) /\ Len(arb) = 15 /\ \A k \in 1 .. 10 : arb[k] = ar[k]
        /\ \A k \in 1 .. 5 : arb[10 + k] = b[k]
    <2>1. /\ Words(arb) /\ Len(arb) = Len(ar) + Len(b)
          /\ \A k \in 1 .. Len(ar) : arb[k] = ar[k]
          /\ \A k \in 1 .. Len(b) : arb[Len(ar) + k] = b[k]
      <3>1. Words(ar) /\ Words(b)
        BY ONLY <1>1, <1>3
      <3> QED BY ONLY <3>1, arb = ar \o b, Joined
    <2> QED BY ONLY <1>1, <1>3, <2>1
  <1> PICK arbr : arbr = arb \o r
    OBVIOUS
  <1>5. Words(arbr) /\ Len(arbr) = 16 /\ \A k \in 1 .. 15 : arbr[k] = arb[k]
    <2>1. /\ Words(arbr) /\ Len(arbr) = Len(arb) + Len(r)
          /\ \A k \in 1 .. Len(arb) : arbr[k] = arb[k]
      <3>1. Words(arb) /\ Words(r)
        BY ONLY <1>2, <1>4
      <3> QED BY ONLY <3>1, arbr = arb \o r, Joined
    <2> QED BY ONLY <1>2, <1>4, <2>1
  <1> PICK f : f = arbr \o c
    OBVIOUS
  <1>6. /\ Words(f) /\ Len(f) = 20 /\ \A k \in 1 .. 16 : f[k] = arbr[k]
        /\ \A k \in 1 .. 4 : f[16 + k] = c[k]
    <2>1. /\ Words(f) /\ Len(f) = Len(arbr) + Len(c)
          /\ \A k \in 1 .. Len(arbr) : f[k] = arbr[k]
          /\ \A k \in 1 .. Len(c) : f[Len(arbr) + k] = c[k]
      <3>1. Words(arbr) /\ Words(c)
        BY ONLY <1>1, <1>5
      <3> QED BY ONLY <3>1, f = arbr \o c, Joined
    <2> QED BY ONLY <1>1, <1>5, <2>1
  <1> PICK fq : fq = f \o q
    OBVIOUS
  <1>7. Words(fq) /\ Len(fq) = 30 /\ \A k \in 1 .. 20 : fq[k] = f[k]
    <2>1. /\ Words(fq) /\ Len(fq) = Len(f) + Len(q)
          /\ \A k \in 1 .. Len(f) : fq[k] = f[k]
      <3>1. Words(f) /\ Words(q)
        BY ONLY <1>2, <1>6
      <3> QED BY ONLY <3>1, fq = f \o q, Joined
    <2> QED BY ONLY <1>2, <1>6, <2>1
  <1> PICK g : g = fq \o d
    OBVIOUS
  <1>8. /\ Words(g) /\ Len(g) = 31 /\ \A k \in 1 .. 30 : g[k] = fq[k]
        /\ g[31] = d[1]
    <2>1. /\ Words(g) /\ Len(g) = Len(fq) + Len(d)
          /\ \A k \in 1 .. Len(fq) : g[k] = fq[k]
          /\ \A k \in 1 .. Len(d) : g[Len(fq) + k] = d[k]
      <3>1. Words(fq) /\ Words(d)
        BY ONLY <1>1, <1>7
      <3> QED BY ONLY <3>1, g = fq \o d, Joined
    <2> QED BY ONLY <1>1, <1>7, <2>1
  <1> PICK h : h = g \o r
    OBVIOUS
  <1>9. \A k \in 1 .. 31 : h[k] = g[k]
    <2>1. \A k \in 1 .. Len(g) : h[k] = g[k]
      <3>1. Words(g) /\ Words(r)
        BY ONLY <1>2, <1>8
      <3> QED BY ONLY <3>1, h = g \o r, Joined
    <2> QED BY ONLY <1>8, <2>1
  <1>10. h = hi_level_fault_handlers
    BY DEF hi_level_fault_handlers
  <1>11. \A k \in 0 .. 8 : h[k + 1] = a[k + 1] /\ k + 1 \in 1 .. 9
    BY ONLY <1>3, <1>4, <1>5, <1>6, <1>7, <1>8, <1>9
  <1>12. \A k \in 10 .. 14 : h[k + 1] = b[k - 9] /\ k - 9 \in 1 .. 5
    <2> SUFFICES ASSUME NEW k \in 10 .. 14
                 PROVE  h[k + 1] = b[k - 9] /\ k - 9 \in 1 .. 5
      OBVIOUS
    <2> PICK j \in 1 .. 5 : j = k - 9
      OBVIOUS
    <2>1. h[10 + j] = b[j]
      BY ONLY <1>4, <1>5, <1>6, <1>7, <1>8, <1>9, j \in 1 .. 5
    <2>2. 10 + j = k + 1
      BY ONLY j = k - 9, k \in 10 .. 14
    <2> QED BY ONLY <2>1, <2>2, j = k - 9, j \in 1 .. 5
  <1>13. \A k \in 16 .. 19 : h[k + 1] = c[k - 15] /\ k - 15 \in 1 .. 4
    <2> SUFFICES ASSUME NEW k \in 16 .. 19
                 PROVE  h[k + 1] = c[k - 15] /\ k - 15 \in 1 .. 4
      OBVIOUS
    <2> PICK j \in 1 .. 4 : j = k - 15
      OBVIOUS
    <2>1. h[16 + j] = c[j]
      BY ONLY <1>6, <1>7, <1>8, <1>9, j \in 1 .. 4
    <2>2. 16 + j = k + 1
      BY ONLY j = k - 15, k \in 16 .. 19
    <2> QED BY ONLY <2>1, <2>2, j = k - 15, j \in 1 .. 4
  <1>14. h[31] = d[1]
    BY ONLY <1>8, <1>9
  <1>15. v \in (0 .. 8) \cup (10 .. 14) \cup (16 .. 19) \cup {30}
    BY DEF faults_to_install
  <1>16. h[v + 1] \in {"GP", "PF"} <=> v \in {13, 14}
    <2>1. CASE v \in 0 .. 8
      BY ONLY <1>1, <1>11, <2>1
    <2>2. CASE v \in 10 .. 14
      <3>1. h[v + 1] = b[v - 9] /\ v \in 10 .. 14
        BY ONLY <1>12, <2>2
      <3>2. v \in {10, 11, 12} => v - 9 \in 1 .. 3
        OBVIOUS
      <3>3. (v = 13 => v - 9 = 4) /\ (v = 14 => v - 9 = 5)
        OBVIOUS
      <3> QED BY ONLY <1>1, <3>1, <3>2, <3>3
    <2>3. CASE v \in 16 .. 19
      BY ONLY <1>1, <1>13, <2>3
    <2>4. CASE v = 30
      BY ONLY <1>1, <1>14, <2>4
    <2> QED BY ONLY <1>15, <2>1, <2>2, <2>3, <2>4
  <1> QED BY ONLY <1>10, <1>16 DEF Stoppers

---------------------------------------------------------------------------
(* What no step but Switch changes *)
TaskKept ==
  /\ cur' = cur /\ ctxRsp' = ctxRsp /\ kthread1' = kthread1 /\ depth' = depth
  /\ raised \subseteq raised'
  /\ stack' = [t \in Tasks |-> stack'[t]]
  /\ \A u \in Tasks \ {cur} : stack'[u] = stack[u]

(* A step on the running task's stack *)
LEMMA StackStep ==
  ASSUME Typed, NEW s, OnStack(s)
  PROVE  /\ stack' = [t \in Tasks |-> stack'[t]]
         /\ stack'[cur] = s /\ \A u \in Tasks \ {cur} : stack'[u] = stack[u]
  BY DEF Typed, OnStack

LEMMA NowFields ==
  /\ Now.pc = pc /\ Now.on = ifOn /\ Now.regs = regs /\ Now.fx = fx
  /\ Now.s = stack[cur]
  BY DEF Now

LEMMA NextFields ==
  ASSUME cur' = cur
  PROVE  /\ Now'.pc = pc' /\ Now'.on = ifOn' /\ Now'.regs = regs' /\ Now'.fx = fx'
         /\ Now'.s = stack'[cur]
  BY DEF Now

LEMMA NextContext ==
  ASSUME cur' = cur, Words(stack'[cur]), fx' \in XmmStates,
         regs' = [g \in Gprs |-> regs'[g]]
  PROVE  Context(Now)'
  BY DEF Context, Now

(* Where a handler is *)
LEMMA HandlerPlaces ==
  ASSUME NEW c, Handles(c, Now)
  PROVE  /\ pc[1] \in {"do_irq", "trap", "trap_mm", "fault", "restore_mm", "restore_gpr",
                       "restored", "iretq"}
         /\ pc[1] \in {"restore_mm", "restore_gpr", "restored", "iretq"} => pc[2] = "irq"
  BY NowFields DEF Handles, Entering, Leaving

LEMMA RegistersUpdated ==
  ASSUME regs = [g \in Gprs |-> regs[g]], NEW v, NEW w
  PROVE  /\ AfterSaveMm(regs) = [g \in Gprs |-> AfterSaveMm(regs)[g]]
         /\ \A r \in Gprs : [regs EXCEPT ![r] = v] = [g \in Gprs |-> [regs EXCEPT ![r] = v][g]]
         /\ [AfterSaveMm(regs) EXCEPT !["rdi"] = v]
              = [g \in Gprs |-> [AfterSaveMm(regs) EXCEPT !["rdi"] = v][g]]
         /\ [AfterSaveMm(regs) EXCEPT !["rax"] = v, !["rdi"] = w]
              = [g \in Gprs |-> [AfterSaveMm(regs) EXCEPT !["rax"] = v, !["rdi"] = w][g]]
  BY DEF AfterSaveMm

---------------------------------------------------------------------------
(* The handlers' ways in *)
LEMMA DoIrqKeeps ==
  ASSUME Typed, NEW CONSTANT c, Context(c), Context(Now), Handles(c, Now), do_irq
  PROVE  Handles(c, Now)' /\ Context(Now)' /\ TaskKept
  <1>1. /\ pc[1] = "do_irq" /\ pc' = <<"restore_mm", "irq">> /\ stack' = stack /\ cur' = cur
        /\ raised' = raised /\ regs' = Clobbered(regs) /\ fx' = "junk"
        /\ ctxRsp' = ctxRsp /\ kthread1' = kthread1 /\ depth' = depth
    BY DEF do_irq, At, Go
  <1>2. stack[cur] = WithMm(c, <<>>)
    BY <1>1, NowFields DEF Handles, Entering, Leaving
  <1>3. Leaving(c, Now, <<>>)'
    BY <1>1, <1>2, NextFields DEF Leaving
  <1>4. Context(Now)'
    <2>1. regs' = [g \in Gprs |-> regs'[g]]
      BY <1>1 DEF Clobbered
    <2>2. Words(stack'[cur])
      BY <1>1, NowFields DEF Context
    <2>3. fx' \in XmmStates
      BY <1>1 DEF XmmStates
    <2> QED BY <1>1, <2>1, <2>2, <2>3, NextContext
  <1>5. TaskKept
    BY <1>1 DEF TaskKept, Typed
  <1> QED BY <1>3, <1>4, <1>5 DEF Handles

LEMMA TrapGprsKeeps ==
  ASSUME Typed, NEW CONSTANT c, Context(c), Context(Now), Handles(c, Now), TrapGprs
  PROVE  Handles(c, Now)' /\ Context(Now)' /\ TaskKept
  <1>1. /\ pc[1] = "trap" /\ pc' = <<"trap_mm", pc[2]>> /\ cur' = cur /\ fx' = fx
        /\ raised' = raised /\ regs' = [regs EXCEPT !["rax"] = Num(pc[2])]
        /\ OnStack(SaveGpr(Append(stack[cur], regs["rax"]),
                           [regs EXCEPT !["rax"] = Num(pc[2])]))
        /\ ctxRsp' = ctxRsp /\ kthread1' = kthread1 /\ depth' = depth
    BY DEF TrapGprs, At, Go, taskVars
  <1>2. PICK e \in {<<>>, ErrorCode} :
          /\ Raised(pc[2], e) /\ stack[cur] = Framed(c, e) /\ regs = c.regs /\ fx = c.fx
    BY <1>1, NowFields DEF Handles, Entering, Leaving
  <1>3. regs = [g \in Gprs |-> regs[g]] /\ fx \in XmmStates
    BY NowFields DEF Context
  <1>4. SaveGpr(Append(stack[cur], regs["rax"]), [regs EXCEPT !["rax"] = Num(pc[2])])
          = WithGprs(c, e)
    <2> PICK n : n = Num(pc[2])
      OBVIOUS
    <2> PICK q : q = [regs EXCEPT !["rax"] = n]
      OBVIOUS
    <2>1. \A g \in Gprs \ {"rax"} : q[g] = regs[g]
      BY ONLY <1>3, q = [regs EXCEPT !["rax"] = n]
    <2> PICK s : s = Append(stack[cur], regs["rax"])
      OBVIOUS
    <2>2. SaveGpr(s, q) = SaveGpr(s, regs)
      BY ONLY <2>1, GprsSame
    <2> QED BY <1>2, <2>2 DEF WithGprs, WithRax
  <1>5. /\ stack' = [t \in Tasks |-> stack'[t]] /\ stack'[cur] = WithGprs(c, e)
        /\ \A u \in Tasks \ {cur} : stack'[u] = stack[u]
    BY <1>1, <1>4, StackStep
  <1> PICK v : v = pc[2]
    OBVIOUS
  <1>6. Raised(v, e)' /\ pc'[1] = "trap_mm" /\ pc'[2] = v
    BY <1>1, <1>2 DEF Raised
  <1>7. regs'["rax"] = Num(v) /\ regs' = [g \in Gprs |-> regs'[g]]
    BY <1>1, <1>3, RegistersUpdated DEF Gprs
  <1>8. Entering(c, Now, e)'
    <2>1. cur' = cur /\ fx' = c.fx
      BY <1>1, <1>2
    <2> QED BY ONLY <1>5, <1>6, <1>7, <2>1, NextFields DEF Entering, Raised
  <1>9. Context(Now)'
    BY <1>1, <1>3, <1>5, <1>7, FramedWords, NextContext
  <1>10. TaskKept
    BY <1>1, <1>5 DEF TaskKept
  <1> QED BY <1>8, <1>9, <1>10 DEF Handles

LEMMA CallHandlerKeeps ==
  ASSUME Typed, NEW CONSTANT c, Context(c), Context(Now), Handles(c, Now), CallHandler
  PROVE  Handles(c, Now)' /\ Context(Now)' /\ TaskKept
  <1>1. /\ pc[1] = "trap_mm" /\ cur' = cur /\ fx' = fx
        /\ pc' = <<"fault", hi_level_fault_handlers[regs["rax"][2] + 1]>>
        /\ raised' = raised
        /\ regs' = [AfterSaveMm(regs) EXCEPT !["rdi"] = ArgumentFrom(regs["r10"])]
        /\ OnStack(SaveMm(stack[cur], fx)) /\ ifOn' = FALSE
        /\ ctxRsp' = ctxRsp /\ kthread1' = kthread1 /\ depth' = depth
    BY DEF CallHandler, At, Go, taskVars
  <1>2. PICK e \in {<<>>, ErrorCode} :
          /\ Raised(pc[2], e) /\ stack[cur] = WithGprs(c, e) /\ regs["rax"] = Num(pc[2])
          /\ fx = c.fx
    BY <1>1, NowFields DEF Handles, Entering, Leaving
  <1>3. regs = [g \in Gprs |-> regs[g]] /\ fx \in XmmStates
    BY NowFields DEF Context
  <1>5. /\ stack' = [t \in Tasks |-> stack'[t]] /\ stack'[cur] = WithMm(c, e)
        /\ \A u \in Tasks \ {cur} : stack'[u] = stack[u]
    <2>1. SaveMm(stack[cur], fx) = WithMm(c, e)
      BY <1>2 DEF WithMm
    <2> QED BY <1>1, <2>1, StackStep
  <1> PICK v : v = pc[2]
    OBVIOUS
  <1>6. Raised(v, e)'
    BY <1>1, <1>2 DEF Raised
  <1>7. pc' = <<"fault", hi_level_fault_handlers[v + 1]>>
    BY <1>1, <1>2 DEF Num
  <1>8. regs' = [g \in Gprs |-> regs'[g]]
    BY <1>1, <1>3, RegistersUpdated
  <1>9. Entering(c, Now, e)'
    <2>1. pc'[1] = "fault" /\ pc'[2] = hi_level_fault_handlers[v + 1] /\ cur' = cur
          /\ ifOn' = FALSE
      BY <1>1, <1>7
    <2>2. \E w : Raised(w, e)' /\ pc'[2] = hi_level_fault_handlers[w + 1]
      BY ONLY <1>6, <2>1
    <2> QED BY ONLY <1>5, <2>1, <2>2, NextFields DEF Entering, Raised
  <1>10. Context(Now)'
    BY <1>1, <1>3, <1>5, <1>8, FramedWords, NextContext
  <1>11. TaskKept
    BY <1>1, <1>5 DEF TaskKept
  <1> QED BY <1>9, <1>10, <1>11 DEF Handles

(* A handler stops the machine, or it is none of those that do and then    *)
(* the error code, if there is one, is in the way of the return.           *)
LEMMA FaultHandlerKeeps ==
  ASSUME Typed, NEW CONSTANT c, Context(c), Context(Now), Handles(c, Now), FaultHandler
  PROVE  /\ \/ Handles(c, Now)' /\ ~At("stopped")' /\ ~At("wild")'
            \/ At("stopped")' /\ raised' \cap Stoppers # {} /\ ifOn' = FALSE
         /\ Context(Now)' /\ TaskKept
  <1>1. /\ pc[1] = "fault" /\ cur' = cur /\ fx' = "junk" /\ stack' = stack
        /\ pc' = (IF pc[2] \in {"GP", "PF"} THEN <<"stopped", "">> ELSE <<"restore_mm", "irq">>)
        /\ raised' = raised /\ regs' = Clobbered(regs) /\ ifOn' = ifOn
        /\ ctxRsp' = ctxRsp /\ kthread1' = kthread1 /\ depth' = depth
    BY DEF FaultHandler, At, Go, taskVars
  <1>2. PICK e \in {<<>>, ErrorCode} :
          /\ stack[cur] = WithMm(c, e) /\ ifOn = FALSE
          /\ \E v : Raised(v, e) /\ pc[2] = hi_level_fault_handlers[v + 1]
    <2> PICK e \in {<<>>, ErrorCode} : Entering(c, Now, e) \/ Leaving(c, Now, e)
      BY DEF Handles
    <2>1. ~Leaving(c, Now, e)
      <3>1. Leaving(c, Now, e) => Now.pc[1] \in {"restore_mm", "restore_gpr", "restored", "iretq"}
        BY ONLY TRUE DEF Leaving
      <3> QED BY <1>1, <3>1, NowFields
    <2>2. Entering(c, Now, e)
      BY <2>1
    <2>3. Now.pc[1] = "fault"
      BY <1>1, NowFields
    <2> QED BY ONLY <2>2, <2>3, NowFields DEF Entering
  <1>3. PICK v : Raised(v, e) /\ pc[2] = hi_level_fault_handlers[v + 1]
    BY <1>2
  <1>4. pc[2] \in {"GP", "PF"} <=> v \in Stoppers
    <2>1. v \in faults_to_install
      BY <1>3 DEF Raised
    <2> QED BY <1>3, <2>1, HandlerNames
  <1>5. Context(Now)'
    <2>1. regs' = [g \in Gprs |-> regs'[g]]
      BY <1>1 DEF Clobbered
    <2>2. Words(stack'[cur])
      BY <1>1, NowFields DEF Context
    <2>3. fx' \in XmmStates
      BY <1>1 DEF XmmStates
    <2> QED BY <1>1, <2>1, <2>2, <2>3, NextContext
  <1>6. TaskKept
    BY <1>1 DEF TaskKept, Typed
  <1>7. CASE v \in Stoppers
    BY <1>1, <1>2, <1>3, <1>4, <1>5, <1>6, <1>7 DEF At, Raised
  <1>8. CASE v \notin Stoppers
    <2>1. pc' = <<"restore_mm", "irq">>
      BY <1>1, <1>4, <1>8
    <2>2. (e = <<>> \/ Lost)'
      <3>1. v \in WithErrorCode => v \in raised' \cap (WithErrorCode \ Stoppers)
        BY <1>1, <1>3, <1>8 DEF Raised
      <3>2. v \notin WithErrorCode => e = <<>>
        BY <1>3 DEF Raised
      <3> QED BY <3>1, <3>2 DEF Lost
    <2>3. Leaving(c, Now, e)'
      BY <1>1, <1>2, <2>1, <2>2, NextFields DEF Leaving
    <2>4. Handles(c, Now)'
      BY <2>3 DEF Handles
    <2>5. ~At("stopped")' /\ ~At("wild")'
      BY <2>1 DEF At
    <2> QED BY <1>1, <1>5, <1>6, <2>4, <2>5
  <1> QED BY <1>7, <1>8

---------------------------------------------------------------------------
(* RESTORE_MM, RESTORE_GPR and the pop of rax undo what was pushed, with   *)
(* whatever below.                                                         *)
LEMMA MmUndone ==
  ASSUME Typed, NEW s, Words(s), NEW x \in XmmStates, stack[cur] = SaveMm(s, x),
         RESTORE_MM, regs = [g \in Gprs |-> regs[g]]
  PROVE  /\ fx' = x /\ stack'[cur] = s /\ regs' = [g \in Gprs |-> regs'[g]]
         /\ pc' = <<"restore_gpr", pc[2]>> /\ raised' = raised /\ cur' = cur
         /\ ifOn' = ifOn /\ TaskKept
  <1> PICK t : t = stack[cur]
    OBVIOUS
  <1>1. /\ FxTop(t) /\ t[Len(t) - 1][2] = x /\ t[Len(t)][2] = Len(t) - 1 - Len(s)
        /\ Len(t) \in Nat /\ Len(s) \in Nat /\ SubSeq(t, 1, Len(s)) = s
    <2>1. t = SaveMm(s, x)
      OBVIOUS
    <2> QED BY ONLY <2>1, Words(s), x \in XmmStates, MmSaved
  <1>2. /\ fx' = t[Len(t) - 1][2] /\ OnStack(SubSeq(t, 1, Len(t) - (1 + t[Len(t)][2])))
        /\ regs' = [regs EXCEPT !["r10"] = t[Len(t)]] /\ pc' = <<"restore_gpr", pc[2]>>
        /\ raised' = raised /\ cur' = cur /\ ifOn' = ifOn
        /\ ctxRsp' = ctxRsp /\ kthread1' = kthread1 /\ depth' = depth
    BY <1>1 DEF RESTORE_MM, Rsp, Top, Below, Go, taskVars
  <1>3. Len(t) - (1 + t[Len(t)][2]) = Len(s)
    BY ONLY <1>1
  <1>4. OnStack(s)
    BY <1>1, <1>2, <1>3
  <1>5. "r10" \in Gprs
    <2>1. SavedGprs[3] = "r10" /\ 3 \in 1 .. 14
      BY DEF SavedGprs
    <2> QED BY <2>1, SavedGprsLen
  <1>6. regs' = [g \in Gprs |-> regs'[g]]
    BY <1>2, <1>5, RegistersUpdated
  <1> QED BY <1>1, <1>2, <1>4, <1>6, StackStep DEF TaskKept

LEMMA GprsUndone ==
  ASSUME Typed, NEW s, Words(s), NEW r, stack[cur] = SaveGpr(s, r), RESTORE_GPR
  PROVE  /\ stack'[cur] = s /\ regs' = [g \in Gprs |-> regs'[g]]
         /\ \A g \in Gprs \ {"rax"} : regs'[g] = r[g]
         /\ pc' = <<"restored", pc[2]>> /\ raised' = raised /\ cur' = cur /\ fx' = fx
         /\ ifOn' = ifOn /\ TaskKept
  <1> PICK t : t = stack[cur]
    OBVIOUS
  <1>1. /\ Len(t) = Len(s) + 14 /\ Len(s) \in Nat /\ SubSeq(t, 1, Len(s)) = s
    BY GprsSaved
  <1>2. \A g \in Gprs \ {"rax"} : t[Len(t) + 1 - AntiFunction(RestoreOrder)[g]] = r[g]
    BY GprsRestored
  <1>3. Len(RestoreOrder) = 14 /\ Has(14)
    BY <1>1, RestoreOrderReversed DEF Has, Rsp
  <1>4. /\ regs' = [g \in Gprs |-> IF g = "rax" THEN regs[g]
                                   ELSE t[Len(t) + 1 - AntiFunction(RestoreOrder)[g]]]
        /\ OnStack(SubSeq(t, 1, Len(t) - 14)) /\ pc' = <<"restored", pc[2]>>
        /\ raised' = raised /\ cur' = cur /\ fx' = fx /\ ifOn' = ifOn
        /\ ctxRsp' = ctxRsp /\ kthread1' = kthread1 /\ depth' = depth
    BY <1>3 DEF RESTORE_GPR, Rsp, Below, Go, taskVars
  <1>5. Len(t) - 14 = Len(s)
    BY ONLY <1>1
  <1>6. OnStack(s)
    BY <1>1, <1>4, <1>5
  <1>7. \A g \in Gprs \ {"rax"} : regs'[g] = r[g]
    BY ONLY <1>2, <1>4
  <1>8. regs' = [g \in Gprs |-> regs'[g]]
    BY ONLY <1>4
  <1> QED BY <1>4, <1>6, <1>7, <1>8, StackStep DEF TaskKept

---------------------------------------------------------------------------
(* The handlers' ways out *)
LEMMA HandlerMmKeeps ==
  ASSUME Typed, NEW CONSTANT c, Context(c), Context(Now), Handles(c, Now), RESTORE_MM
  PROVE  Handles(c, Now)' /\ Context(Now)' /\ TaskKept
  <1>1. pc[1] = "restore_mm"
    BY DEF RESTORE_MM, At
  <1>2. PICK e \in {<<>>, ErrorCode} :
          stack[cur] = WithMm(c, e) /\ pc[2] = "irq" /\ (e = <<>> \/ Lost)
    BY <1>1, NowFields DEF Handles, Entering, Leaving
  <1> PICK s : s = WithGprs(c, e)
    OBVIOUS
  <1>3. Words(s) /\ stack[cur] = SaveMm(s, c.fx) /\ c.fx \in XmmStates
    BY <1>2, FramedWords DEF WithMm, Context
  <1>4. regs = [g \in Gprs |-> regs[g]]
    BY NowFields DEF Context
  <1>5. /\ fx' = c.fx /\ stack'[cur] = s /\ regs' = [g \in Gprs |-> regs'[g]]
        /\ pc' = <<"restore_gpr", pc[2]>> /\ raised' = raised /\ cur' = cur /\ TaskKept
    BY <1>3, <1>4, MmUndone
  <1>6. Leaving(c, Now, e)'
    <2>1. (e = <<>> \/ Lost)'
      BY <1>2, <1>5 DEF Lost
    <2>2. pc' = <<"restore_gpr", "irq">> /\ stack'[cur] = WithGprs(c, e)
      BY <1>2, <1>5
    <2> QED BY <1>5, <2>1, <2>2, NextFields DEF Leaving
  <1>7. Context(Now)'
    BY <1>3, <1>5, NextContext
  <1> QED BY <1>5, <1>6, <1>7 DEF Handles

LEMMA HandlerGprsKeeps ==
  ASSUME Typed, NEW CONSTANT c, Context(c), Context(Now), Handles(c, Now), RESTORE_GPR
  PROVE  Handles(c, Now)' /\ Context(Now)' /\ TaskKept
  <1>1. pc[1] = "restore_gpr"
    BY DEF RESTORE_GPR, At
  <1>2. PICK e \in {<<>>, ErrorCode} :
          /\ stack[cur] = WithGprs(c, e) /\ pc[2] = "irq" /\ fx = c.fx
          /\ e = <<>> \/ Lost
    BY <1>1, NowFields DEF Handles, Entering, Leaving
  <1> PICK s : s = WithRax(c, e)
    OBVIOUS
  <1>3. Words(s) /\ stack[cur] = SaveGpr(s, c.regs)
    BY <1>2, FramedWords DEF WithGprs
  <1>4. /\ stack'[cur] = s /\ regs' = [g \in Gprs |-> regs'[g]] /\ fx' = fx
        /\ \A g \in Gprs \ {"rax"} : regs'[g] = c.regs[g]
        /\ pc' = <<"restored", pc[2]>> /\ raised' = raised /\ cur' = cur /\ TaskKept
    BY <1>3, GprsUndone
  <1>5. Leaving(c, Now, e)'
    <2>1. (e = <<>> \/ Lost)'
      BY <1>2, <1>4 DEF Lost
    <2>2. pc' = <<"restored", "irq">> /\ stack'[cur] = WithRax(c, e) /\ fx' = c.fx
      BY <1>2, <1>4
    <2> QED BY <1>4, <2>1, <2>2, NextFields DEF Leaving
  <1>6. Context(Now)'
    BY <1>2, <1>3, <1>4, NextContext DEF Context
  <1> QED BY <1>4, <1>5, <1>6 DEF Handles

LEMMA PopRaxKeeps ==
  ASSUME Typed, NEW CONSTANT c, Context(c), Context(Now), Handles(c, Now), PopRax
  PROVE  Handles(c, Now)' /\ Context(Now)' /\ TaskKept
  <1>1. pc[1] = "restored"
    BY DEF PopRax, At
  <1>2. PICK e \in {<<>>, ErrorCode} :
          /\ stack[cur] = WithRax(c, e) /\ pc[2] = "irq" /\ fx = c.fx
          /\ \A g \in Gprs \ {"rax"} : regs[g] = c.regs[g]
          /\ e = <<>> \/ Lost
    BY <1>1, NowFields DEF Handles, Entering, Leaving
  <1> PICK s : s = Framed(c, e)
    OBVIOUS
  <1> PICK t : t = stack[cur]
    OBVIOUS
  <1>3. Words(s) /\ t = Append(s, c.regs["rax"])
    BY <1>2, FramedWords DEF WithRax
  <1>4. /\ Len(s) \in Nat /\ Len(t) = Len(s) + 1 /\ t[Len(s) + 1] = c.regs["rax"]
        /\ SubSeq(t, 1, Len(s)) = s
    BY <1>3, PushedWord
  <1>5. t[Len(t)] = c.regs["rax"] /\ Len(t) - 1 = Len(s) /\ Len(t) >= 1
    BY ONLY <1>4
  <1>6. /\ regs' = [regs EXCEPT !["rax"] = t[Len(t)]] /\ OnStack(SubSeq(t, 1, Len(t) - 1))
        /\ pc' = <<"iretq", "irq">> /\ raised' = raised /\ cur' = cur /\ fx' = fx
        /\ ctxRsp' = ctxRsp /\ kthread1' = kthread1 /\ depth' = depth
    BY <1>5 DEF PopRax, Has, Rsp, Top, Below, Go, taskVars
  <1>7. OnStack(s)
    BY <1>4, <1>5, <1>6
  <1>8. regs' = c.regs
    <2>1. regs = [g \in Gprs |-> regs[g]] /\ c.regs = [g \in Gprs |-> c.regs[g]]
      BY NowFields DEF Context
    <2> PICK v : v = c.regs["rax"]
      OBVIOUS
    <2>2. regs' = [regs EXCEPT !["rax"] = v] /\ \A g \in Gprs \ {"rax"} : regs[g] = c.regs[g]
      BY <1>2, <1>5, <1>6
    <2>3. regs' = [g \in Gprs |-> IF g = "rax" THEN v ELSE regs[g]]
      BY ONLY <2>1, <2>2
    <2>4. \A g \in Gprs : (IF g = "rax" THEN v ELSE regs[g]) = c.regs[g]
      BY <2>2
    <2>5. regs' = [g \in Gprs |-> c.regs[g]]
      BY ONLY <2>3, <2>4
    <2> QED BY ONLY <2>1, <2>5
  <1>9. stack'[cur] = s /\ TaskKept
    BY <1>6, <1>7, StackStep DEF TaskKept
  <1>10. Leaving(c, Now, e)'
    <2>1. (e = <<>> \/ Lost)'
      BY <1>2, <1>6 DEF Lost
    <2>2. pc' = <<"iretq", "irq">> /\ stack'[cur] = Framed(c, e) /\ fx' = c.fx
      BY <1>2, <1>6, <1>9
    <2> QED BY <1>6, <1>8, <2>1, <2>2, NextFields DEF Leaving
  <1>11. Context(Now)'
    <2>1. fx' \in XmmStates /\ regs' = [g \in Gprs |-> regs'[g]]
      BY <1>2, <1>6, <1>8 DEF Context
    <2> QED BY <1>3, <1>6, <1>9, <2>1, NextContext
  <1> QED BY <1>9, <1>10, <1>11 DEF Handles

(* What was interrupted goes on as it was, or, over an error code, control *)
(* is lost.                                                                *)
LEMMA IretqReturns ==
  ASSUME Typed, NEW CONSTANT c, Context(c), Context(Now), Handles(c, Now), Iretq
  PROVE  /\ Now' = c \/ (At("wild")' /\ Lost')
         /\ TaskKept
  <1>1. pc[1] \in {"iretq", "restored"} /\ pc # <<"restored", "irq">> /\ pc[2] = "irq"
    <2>1. pc[1] = "iretq" \/ pc = <<"restored", "fork">>
      BY DEF Iretq, At
    <2>2. pc[1] \in {"iretq", "restored"}
      BY <2>1
    <2>3. pc[2] = "irq"
      BY <2>2, HandlerPlaces
    <2> QED BY <2>1, <2>2, <2>3
  <1>2. PICK e \in {<<>>, ErrorCode} :
          /\ stack[cur] = Framed(c, e) /\ fx = c.fx /\ regs = c.regs
          /\ e = <<>> \/ Lost
    BY <1>1, NowFields DEF Handles, Entering, Leaving
  <1> PICK t : t = stack[cur]
    OBVIOUS
  <1>3. /\ raised' = raised /\ cur' = cur /\ fx' = fx /\ regs' = regs
        /\ ctxRsp' = ctxRsp /\ kthread1' = kthread1 /\ depth' = depth
    BY DEF Iretq, taskVars
  <1>4. CASE e = <<>>
    <2>1. /\ Len(t) \in Nat /\ Len(t) >= 5
          /\ t[Len(t)] = Pc(c.pc) /\ t[Len(t) - 2] = <<"if", c.on>>
          /\ t[Len(t) - 3] = Num(Len(c.s)) /\ SubSeq(t, 1, Len(c.s)) = c.s
      BY <1>2, <1>4, FramedTop
    <2>2. /\ Pc(c.pc)[1] = "pc" /\ Pc(c.pc)[2] = c.pc
          /\ Num(Len(c.s))[2] = Len(c.s)
      BY DEF Pc, Num
    <2>3. /\ ifOn' = t[Len(t) - 2][2] /\ pc' = t[Len(t)][2]
          /\ OnStack(SubSeq(t, 1, t[Len(t) - 3][2]))
      BY <2>1, <2>2 DEF Iretq, Has, Rsp, Top, Go
    <2>4. ifOn' = c.on /\ pc' = c.pc /\ OnStack(c.s)
      <3>1. pc' = c.pc
        BY ONLY <2>1, <2>2, <2>3
      <3>2. ifOn' = c.on
        BY ONLY <2>1, <2>3
      <3>3. t[Len(t) - 3][2] = Len(c.s)
        BY ONLY <2>1, <2>2
      <3>4. OnStack(c.s)
        BY <2>1, <2>3, <3>3
      <3> QED BY <3>1, <3>2, <3>4
    <2>5. /\ stack' = [u \in Tasks |-> stack'[u]] /\ stack'[cur] = c.s
          /\ \A u \in Tasks \ {cur} : stack'[u] = stack[u]
      BY <2>4, StackStep
    <2>6. Now' = c
      <3>1. Now' = [pc |-> c.pc, on |-> c.on, regs |-> c.regs, fx |-> c.fx, s |-> c.s]
        BY <1>2, <1>3, <2>4, <2>5 DEF Now
      <3> QED BY <3>1 DEF Context
    <2> QED BY <1>3, <2>5, <2>6 DEF TaskKept
  <1>5. CASE e = ErrorCode /\ Lost
    <2>1. t[Len(t)] = <<"error", "">>
      BY <1>2, <1>5, FramedTop
    <2> PICK w : w = t[Len(t)]
      OBVIOUS
    <2>2. w[1] # "pc"
      <3>1. w = <<"error", "">>
        BY <2>1
      <3>2. w[1] = "error"
        BY ONLY <3>1
      <3> QED BY ONLY <3>2
    <2>3. pc' = <<"wild", "">> /\ stack' = stack
      BY <2>2 DEF Iretq, Rsp, Top, Wild
    <2> QED BY <1>3, <1>5, <2>3 DEF TaskKept, Typed, At, Lost
  <1> QED BY <1>2, <1>4, <1>5

---------------------------------------------------------------------------
(* Interrupts and exceptions find a context, and put a handler's on it.    *)
LEMMA InterruptEnters ==
  ASSUME Typed, NEW CONSTANT c, c = Now, Context(c), NEW irq, Interrupt(irq)
  PROVE  Handles(c, Now)' /\ Context(Now)' /\ TaskKept /\ pc' = <<"do_irq", irq>>
  <1>1. /\ OnStack(SaveMm(SaveGpr(Append(InterruptFrame(stack[cur]), regs["rax"]), regs), fx))
        /\ regs' = [AfterSaveMm(regs) EXCEPT !["rax"] = <<"irq", irq>>, !["rdi"] = <<"irq", irq>>]
        /\ pc' = <<"do_irq", irq>> /\ fx' = fx /\ cur' = cur /\ raised' = raised
        /\ ctxRsp' = ctxRsp /\ kthread1' = kthread1 /\ depth' = depth
    BY DEF Interrupt, Go, taskVars
  <1>2. c.pc = pc /\ c.on = ifOn /\ c.regs = regs /\ c.fx = fx /\ c.s = stack[cur]
    BY NowFields
  <1>3. Framed(c, <<>>) = InterruptFrame(stack[cur])
    <2>1. InterruptFrame(stack[cur]) = Frame(c.s, c.on, c.pc)
      BY <1>2, FrameNow
    <2>2. Words(Frame(c.s, c.on, c.pc))
      BY FrameFacts DEF Context
    <2> QED BY <2>1, <2>2, NoWord DEF Framed
  <1>4. SaveMm(SaveGpr(Append(InterruptFrame(stack[cur]), regs["rax"]), regs), fx) = WithMm(c, <<>>)
    BY <1>2, <1>3 DEF WithMm, WithGprs, WithRax
  <1>5. stack'[cur] = WithMm(c, <<>>) /\ TaskKept
    BY <1>1, <1>4, StackStep DEF TaskKept
  <1>6. Entering(c, Now, <<>>)'
    <2>1. pc'[1] = "do_irq"
      BY <1>1
    <2> QED BY <1>1, <1>5, <2>1, NextFields DEF Entering
  <1>7. Context(Now)'
    <2>1. regs = [g \in Gprs |-> regs[g]] /\ fx' \in XmmStates
      BY <1>1, <1>2 DEF Context
    <2>2. regs' = [g \in Gprs |-> regs'[g]]
      BY <1>1, <2>1, RegistersUpdated
    <2>3. Words(WithMm(c, <<>>))
      BY FramedWords
    <2> QED BY <1>1, <1>5, <2>1, <2>2, <2>3, NextContext
  <1> QED BY <1>1, <1>5, <1>6, <1>7 DEF Handles

LEMMA RaiseEnters ==
  ASSUME Typed, NEW CONSTANT c, c = Now, Context(c), NEW v, Raise(v)
  PROVE  Handles(c, Now)' /\ Context(Now)' /\ TaskKept /\ pc' = <<"trap", v>>
  <1> PICK e : e = IF v \in WithErrorCode THEN ErrorCode ELSE <<>>
    OBVIOUS
  <1>1. /\ OnStack(InterruptFrame(stack[cur]) \o e)
        /\ regs' = regs /\ raised' = raised \cup {v} /\ v \in faults_to_install
        /\ pc' = <<"trap", v>> /\ fx' = fx /\ cur' = cur
        /\ ctxRsp' = ctxRsp /\ kthread1' = kthread1 /\ depth' = depth
    BY DEF Raise, Go, taskVars, ErrorCode
  <1>2. c.pc = pc /\ c.on = ifOn /\ c.regs = regs /\ c.fx = fx /\ c.s = stack[cur]
    BY NowFields
  <1>3. Framed(c, e) = InterruptFrame(stack[cur]) \o e
    BY <1>2, FrameNow DEF Framed
  <1>4. stack'[cur] = Framed(c, e) /\ TaskKept
    BY <1>1, <1>3, StackStep DEF TaskKept
  <1>5. Raised(v, e)'
    BY <1>1 DEF Raised
  <1>6. Entering(c, Now, e)'
    <2>1. pc'[1] = "trap" /\ pc'[2] = v /\ regs' = c.regs /\ fx' = c.fx
      BY <1>1, <1>2
    <2> QED BY <1>1, <1>4, <1>5, <2>1, NextFields DEF Entering, Raised
  <1>7. e \in {<<>>, ErrorCode}
    OBVIOUS
  <1>8. Context(Now)'
    <2>1. regs' = [g \in Gprs |-> regs'[g]] /\ fx' \in XmmStates
      BY <1>1, <1>2 DEF Context
    <2>2. Words(Framed(c, e))
      BY <1>7, FramedWords
    <2> QED BY <1>1, <1>4, <2>1, <2>2, NextContext
  <1> QED BY <1>1, <1>4, <1>6, <1>7, <1>8 DEF Handles

---------------------------------------------------------------------------
(* A task's own code *)
LEMMA OwnPlaces ==
  ASSUME NEW t, OwnContext(t, Now)
  PROVE  pc \in {<<"loop", "own">>, <<"activate", "own">>, <<"push_rax", "activate">>,
                 <<"switch", "activate">>, <<"restore_mm", "sleep">>,
                 <<"restore_mm", "fork">>, <<"restore_gpr", "sleep">>,
                 <<"restored", "sleep">>, <<"resumed", "own">>, <<"restore_gpr", "fork">>,
                 <<"restored", "fork">>, <<"helper", "own">>}
  <1>1. CASE Looping(t, Now)
    BY <1>1, NowFields DEF Looping
  <1>2. CASE Calling(t, Now)
    BY <1>2, NowFields DEF Calling
  <1>3. CASE Resuming(t, Now)
    BY <1>3, NowFields DEF Resuming, WayBack
  <1>4. CASE Starting(t, Now)
    BY <1>4, NowFields DEF Starting
  <1> QED BY <1>1, <1>2, <1>3, <1>4 DEF OwnContext

(* So at each place the task's own context is of one kind. *)
LEMMA OwnKind ==
  ASSUME NEW t, OwnContext(t, Now)
  PROVE  /\ pc[1] \in {"loop", "activate"} => Looping(t, Now)
         /\ pc[1] \in {"push_rax", "switch"} => Calling(t, Now)
         /\ pc[1] \in {"restore_mm", "resumed"} \/ pc[2] = "sleep" => Resuming(t, Now)
         /\ pc \in {<<"restore_gpr", "fork">>, <<"restored", "fork">>, <<"helper", "own">>}
              => Starting(t, Now)
  <1>1. CASE Looping(t, Now)
    <2>1. pc \in {<<"loop", "own">>, <<"activate", "own">>}
      BY <1>1, NowFields DEF Looping
    <2> QED BY ONLY <1>1, <2>1
  <1>2. CASE Calling(t, Now)
    <2>1. pc \in {<<"push_rax", "activate">>, <<"switch", "activate">>}
      BY <1>2, NowFields DEF Calling
    <2> QED BY ONLY <1>2, <2>1
  <1>3. CASE Resuming(t, Now)
    <2>1. pc \in {<<"restore_mm", "sleep">>, <<"restore_mm", "fork">>,
                  <<"restore_gpr", "sleep">>, <<"restored", "sleep">>, <<"resumed", "own">>}
      BY <1>3, NowFields DEF Resuming, WayBack
    <2> QED BY ONLY <1>3, <2>1
  <1>4. CASE Starting(t, Now)
    <2>1. pc \in {<<"restore_gpr", "fork">>, <<"restored", "fork">>, <<"helper", "own">>}
      BY <1>4, NowFields DEF Starting
    <2> QED BY ONLY <1>4, <2>1
  <1> QED BY <1>1, <1>2, <1>3, <1>4 DEF OwnContext

(* The callee saved registers and those SAVE_GPR saves *)
LEMMA CalleeSavedGprs ==
  /\ CalleeSaved \subseteq Gprs \ {"rax", "rsi", "rdi", "rdx", "r8", "r9", "r10"}
  /\ {"rax", "rsi", "rdi", "rdx", "r8", "r9", "r10"} \subseteq Gprs
  <1>1. /\ SavedGprs[1] = "r8" /\ SavedGprs[2] = "r9" /\ SavedGprs[3] = "r10"
        /\ SavedGprs[5] = "r12" /\ SavedGprs[6] = "r13"
        /\ SavedGprs[7] = "r14" /\ SavedGprs[8] = "r15" /\ SavedGprs[9] = "rbx"
        /\ SavedGprs[11] = "rdx" /\ SavedGprs[12] = "rdi"
        /\ SavedGprs[13] = "rsi" /\ SavedGprs[14] = "rbp"
    BY DEF SavedGprs
  <1>2. {"r8", "r9", "r10", "r12", "r13", "r14", "r15", "rbx", "rdx", "rdi", "rsi", "rbp"}
          \subseteq Gprs
    BY ONLY <1>1, SavedGprsLen
  <1>3. "rax" \in Gprs
    BY DEF Gprs
  <1> QED BY ONLY <1>2, <1>3 DEF CalleeSaved

(* A task's stack in a call of arch_activate_task() *)
LEMMA CallWords ==
  ASSUME NEW t, NEW o, OwnStack(t, o), NEW x, NEW r
  PROVE  /\ Words(o) /\ Words(Called(o)) /\ Words(Append(Called(o), x))
         /\ Words(CallSaved(o, x, r))
         /\ Len(CallSaved(o, x, r)) = depth[t] + 16 /\ depth[t] \in Nat
  <1>1. Words(o) /\ Len(o) = depth[t]
    BY DEF OwnStack
  <1>2. Words(Called(o)) /\ Len(Called(o)) = depth[t] + 1 /\ depth[t] \in Nat
    BY <1>1, PushedWord DEF Called
  <1> PICK s : s = Append(Called(o), x)
    OBVIOUS
  <1>3. Words(s) /\ Len(s) = depth[t] + 2
    BY <1>2, PushedWord
  <1>4. Words(CallSaved(o, x, r)) /\ Len(CallSaved(o, x, r)) = depth[t] + 16
    <2>1. Words(SaveGpr(s, r)) /\ Len(SaveGpr(s, r)) = Len(s) + 14
      BY ONLY <1>3, GprsSaved
    <2> QED BY ONLY <1>2, <1>3, <2>1, s = Append(Called(o), x) DEF CallSaved
  <1> QED BY <1>1, <1>2, <1>3, <1>4

LEMMA ForkWords ==
  /\ Words(ForkFrame) /\ Len(ForkFrame) = 5
  /\ Words(ForkStack) /\ Len(ForkStack) = 19
  /\ arch_setup_task_context = Append(SaveMm(ForkStack, "zero"), Pc(<<"restore_mm", "fork">>))
  <1> PICK f : f = ForkFrame
    OBVIOUS
  <1> PICK n \in Nat : n = 5
    OBVIOUS
  <1>1. f = [k \in 1 .. n |-> f[k]]
    BY DEF ForkFrame
  <1>2. Words(f) /\ Len(f) = 5
    BY <1>1, WordsBuilt
  <1>3. Words(ForkStack) /\ Len(ForkStack) = 19
    <2>1. Words(SaveGpr(f, ThreadRegs)) /\ Len(SaveGpr(f, ThreadRegs)) = Len(f) + 14
      BY ONLY <1>2, GprsSaved
    <2> QED BY ONLY <1>2, <2>1, f = ForkFrame DEF ForkStack
  <1>4. Words(SaveMm(ForkStack, "zero"))
    BY <1>3, MmSaved DEF XmmStates
  <1>5. arch_setup_task_context = SaveMm(ForkStack, "zero") \o <<Pc(<<"restore_mm", "fork">>)>>
    BY DEF arch_setup_task_context, ForkStack, ForkFrame
  <1> QED BY <1>2, <1>3, <1>4, <1>5, OneWord

Alive == pc[1] \notin {"wild", "stopped"}

(* A handler, and a task's own code, are neither stopped nor lost. *)
LEMMA AliveNext ==
  ASSUME \/ \E c : Handles(c, Now)'
         \/ \E t : OwnContext(t, Now)'
  PROVE  Alive'
  <1>1. ASSUME NEW CONSTANT c, Handles(c, Now)' PROVE Alive'
    <2>1. Now'.pc = pc'
      BY DEF Now
    <2>2. Now'.pc[1] \in {"do_irq", "trap", "trap_mm", "fault", "restore_mm", "restore_gpr",
                          "restored", "iretq"}
      BY <1>1 DEF Handles, Entering, Leaving
    <2> QED BY <2>1, <2>2 DEF Alive
  <1>2. ASSUME NEW CONSTANT t, OwnContext(t, Now)' PROVE Alive'
    <2>1. Now'.pc = pc'
      BY DEF Now
    <2>2. CASE Looping(t, Now)'
      BY <2>1, <2>2 DEF Looping, Alive
    <2>3. CASE Calling(t, Now)'
      BY <2>1, <2>3 DEF Calling, Alive
    <2>4. CASE Resuming(t, Now)'
      BY <2>1, <2>4 DEF Resuming, Alive
    <2>5. CASE Starting(t, Now)'
      BY <2>1, <2>5 DEF Starting, Alive
    <2> QED BY <1>2, <2>2, <2>3, <2>4, <2>5 DEF OwnContext
  <1> QED BY <1>1, <1>2

(* Steps in a task's own code *)
OwnGoesOn == OwnContext(cur, Now)' /\ Context(Now)' /\ TaskKept

LEMMA PollKeeps ==
  ASSUME Typed, Context(Now), OwnContext(cur, Now), Poll
  PROVE  OwnGoesOn
  <1>1. Looping(cur, Now) /\ pc[1] = "loop"
    BY OwnKind DEF Poll, At
  <1>2. pc = <<"loop", "own">> /\ OwnStack(cur, stack[cur]) /\ regs = Own(cur) /\ fx = cur
        /\ ifOn = TRUE
    <2>1. pc \in {<<"loop", "own">>, <<"activate", "own">>}
      BY <1>1, NowFields DEF Looping
    <2>2. pc = <<"loop", "own">>
      BY ONLY <1>1, <2>1
    <2>3. OwnStack(cur, stack[cur]) /\ regs = Own(cur) /\ fx = cur /\ ifOn = TRUE
      BY <1>1, NowFields DEF Looping
    <2> QED BY ONLY <2>2, <2>3
  <1>3. /\ pc' \in {<<"loop", "own">>, <<"activate", "own">>} /\ cur' = cur /\ regs' = regs
        /\ fx' = fx /\ ifOn' = ifOn /\ stack' = stack /\ depth' = depth
        /\ ctxRsp' = ctxRsp /\ kthread1' = kthread1 /\ raised' = raised
    BY <1>2 DEF Poll, Go
  <1>4. Looping(cur, Now)'
    BY <1>2, <1>3, NextFields DEF Looping, OwnStack, Own
  <1>5. Context(Now)'
    BY <1>3, NowFields, NextContext DEF Context
  <1> QED BY <1>3, <1>4, <1>5 DEF OwnContext, OwnGoesOn, TaskKept, Typed

LEMMA ActivateKeeps ==
  ASSUME Typed, Context(Now), OwnContext(cur, Now), arch_activate_task
  PROVE  OwnGoesOn \/ (TaskKept /\ At("wild")' /\ ~kthread1')
  <1>1. Looping(cur, Now)
    BY OwnKind DEF arch_activate_task, At
  <1>2. OwnStack(cur, stack[cur]) /\ regs = Own(cur) /\ fx = cur /\ ifOn = TRUE
    BY <1>1, NowFields DEF Looping
  <1>3. /\ cur' = cur /\ fx' = fx /\ ifOn' = ifOn /\ depth' = depth
        /\ ctxRsp' = ctxRsp /\ kthread1' = kthread1 /\ raised' = raised
    BY DEF arch_activate_task, taskVars
  <1>4. CASE Exists(Other(cur))
    <2>1. /\ regs' = [regs EXCEPT !["rsi"] = Num(ctxRsp[Other(cur)]),
                                  !["rdi"] = <<"cr3", "">>, !["rdx"] = <<"ctx", cur>>]
          /\ OnStack(Called(stack[cur])) /\ pc' = <<"push_rax", "activate">>
      BY <1>4 DEF arch_activate_task, Called, Go
    <2>2. stack'[cur] = Called(stack[cur]) /\ TaskKept
      BY <1>3, <2>1, StackStep DEF TaskKept
    <2>3. Kept(cur, regs')
      BY <1>2, <2>1, CalleeSavedGprs DEF Kept, Own
    <2>4. regs'["rsi"] = Num(ctxRsp[Other(cur)]) /\ regs' = [g \in Gprs |-> regs'[g]]
      <3>1. regs = [g \in Gprs |-> regs[g]]
        BY NowFields DEF Context
      <3> PICK n : n = Num(ctxRsp[Other(cur)])
        OBVIOUS
      <3>2. regs' = [regs EXCEPT !["rsi"] = n, !["rdi"] = <<"cr3", "">>, !["rdx"] = <<"ctx", cur>>]
        BY <2>1
      <3>3. regs'["rsi"] = n /\ regs' = [g \in Gprs |-> regs'[g]]
        BY ONLY <3>1, <3>2, CalleeSavedGprs
      <3> QED BY <3>3
    <2>5. Calling(cur, Now)'
      <3>1. OwnStack(cur, stack[cur])' <=> OwnStack(cur, stack'[cur])
        BY <1>3 DEF OwnStack
      <3> PICK o : o = stack[cur]
        OBVIOUS
      <3>2. OwnStack(cur, o)'
        BY <1>2, <1>3 DEF OwnStack
      <3>3. Exists(Other(cur))'
        BY <1>3, <1>4 DEF Exists, Other
      <3>4. stack'[cur] = Called(o) /\ Kept(cur, regs)' /\ Num(ctxRsp[Other(cur)])' = regs'["rsi"]
        BY <1>3, <2>2, <2>3, <2>4 DEF Kept, Own, Other
      <3> QED BY <1>2, <1>3, <2>1, <3>2, <3>3, <3>4, NextFields DEF Calling, Called
    <2>6. Context(Now)'
      <3>1. Words(stack'[cur])
        BY <1>2, <2>2, CallWords
      <3>2. fx' \in XmmStates
        BY <1>3, NowFields DEF Context
      <3> QED BY <1>3, <2>4, <3>1, <3>2, NextContext
    <2> QED BY <2>2, <2>5, <2>6 DEF OwnContext, OwnGoesOn
  <1>5. CASE ~Exists(Other(cur))
    <2>1. pc' = <<"wild", "">> /\ stack' = stack
      BY <1>5 DEF arch_activate_task, Wild
    <2>2. ~kthread1
      BY <1>5 DEF Exists
    <2> QED BY <1>3, <2>1, <2>2 DEF TaskKept, Typed, At
  <1> QED BY <1>4, <1>5

LEMMA PushGprsKeeps ==
  ASSUME Typed, Context(Now), OwnContext(cur, Now), PushGprs
  PROVE  OwnGoesOn
  <1>1. Calling(cur, Now) /\ pc[1] = "push_rax"
    BY OwnKind DEF PushGprs, At
  <1>2. /\ Kept(cur, regs) /\ fx = cur /\ ifOn = TRUE
        /\ regs["rsi"] = Num(ctxRsp[Other(cur)]) /\ Exists(Other(cur))
    BY <1>1, NowFields DEF Calling
  <1>3. PICK o : OwnStack(cur, o) /\ stack[cur] = Called(o)
    <2>1. PICK o : /\ OwnStack(cur, o)
                   /\ \/ Now.s = Called(o)
                      \/ Now.pc = <<"switch", "activate">>
      BY <1>1 DEF Calling
    <2>2. pc # <<"switch", "activate">>
      BY ONLY <1>1
    <2> QED BY ONLY <2>1, <2>2, NowFields
  <1>4. /\ OnStack(SaveGpr(Append(stack[cur], regs["rax"]), regs))
        /\ pc' = <<"switch", "activate">> /\ cur' = cur /\ regs' = regs
        /\ fx' = fx /\ ifOn' = ifOn /\ depth' = depth
        /\ ctxRsp' = ctxRsp /\ kthread1' = kthread1 /\ raised' = raised
    BY DEF PushGprs, Go, taskVars
  <1> PICK x : x = regs["rax"]
    OBVIOUS
  <1>5. stack'[cur] = CallSaved(o, x, regs) /\ TaskKept
    BY <1>3, <1>4, StackStep DEF TaskKept, CallSaved
  <1>6. Calling(cur, Now)'
    <2>1. OwnStack(cur, o)' /\ Exists(Other(cur))' /\ Kept(cur, regs)'
          /\ (regs["rsi"] = Num(ctxRsp[Other(cur)]))'
      BY <1>2, <1>3, <1>4 DEF OwnStack, Exists, Other, Kept, Own
    <2>2. stack'[cur] = CallSaved(o, x, regs')
      BY <1>4, <1>5
    <2> QED BY <1>2, <1>4, <2>1, <2>2, NextFields DEF Calling, CallSaved, Called
  <1>7. Context(Now)'
    <2>1. Words(stack'[cur])
      BY <1>3, <1>5, CallWords
    <2> QED BY <1>4, <2>1, NowFields, NextContext DEF Context
  <1> QED BY <1>5, <1>6, <1>7 DEF OwnContext, OwnGoesOn

LEMMA AfterSwitchKeeps ==
  ASSUME Typed, Context(Now), OwnContext(cur, Now), AfterSwitch
  PROVE  OwnGoesOn
  <1>1. Resuming(cur, Now) /\ pc[1] = "resumed"
    BY OwnKind DEF AfterSwitch, At
  <1>2. fx = cur /\ Kept(cur, regs) /\ OwnStack(cur, stack[cur]) /\ ifOn = TRUE
    BY <1>1, NowFields DEF Resuming
  <1>3. /\ regs' = [r \in Gprs |-> IF r \in CalleeSaved THEN regs[r] ELSE Own(cur)[r]]
        /\ pc' = <<"loop", "own">> /\ cur' = cur /\ stack' = stack
        /\ fx' = fx /\ ifOn' = ifOn /\ depth' = depth
        /\ ctxRsp' = ctxRsp /\ kthread1' = kthread1 /\ raised' = raised
    BY DEF AfterSwitch, Go
  <1>4. regs' = Own(cur)
    BY <1>2, <1>3 DEF Kept, Own
  <1>5. Looping(cur, Now)'
    <2>1. OwnStack(cur, stack[cur])' /\ (regs = Own(cur))'
      BY <1>2, <1>3, <1>4 DEF OwnStack, Own
    <2> QED BY <1>2, <1>3, <2>1, NextFields DEF Looping
  <1>6. Context(Now)'
    <2>1. regs' = [g \in Gprs |-> regs'[g]]
      BY <1>3
    <2> QED BY <1>3, <2>1, NowFields, NextContext DEF Context
  <1> QED BY <1>3, <1>5, <1>6 DEF OwnContext, OwnGoesOn, TaskKept, Typed

LEMMA HelperKeeps ==
  ASSUME Typed, Context(Now), OwnContext(cur, Now), kernel_thread_helper
  PROVE  OwnGoesOn
  <1>1. pc = <<"helper", "own">>
    BY OwnPlaces DEF kernel_thread_helper, At
  <1>2. stack[cur] = <<>> /\ ifOn = TRUE
    <2>1. Starting(cur, Now)
      BY <1>1, OwnKind
    <2>2. pc # <<"restore_gpr", "fork">> /\ pc # <<"restored", "fork">>
      BY ONLY <1>1
    <2> QED BY ONLY <2>1, <2>2, NowFields DEF Starting
  <1>3. /\ OnStack(stack[cur] \o Padding(depth[cur]))
        /\ regs' = Own(cur) /\ fx' = cur
        /\ pc' = <<"loop", "own">> /\ cur' = cur /\ ifOn' = ifOn /\ depth' = depth
        /\ ctxRsp' = ctxRsp /\ kthread1' = kthread1 /\ raised' = raised
    BY DEF kernel_thread_helper, Go
  <1> PICK n \in Nat : n = depth[cur]
    BY TasksAssumption DEF Typed
  <1> PICK p : p = Padding(n)
    OBVIOUS
  <1>4. Words(p) /\ Len(p) = n
    <2>1. p = [k \in 1 .. n |-> p[k]]
      BY DEF Padding
    <2> QED BY <2>1, WordsBuilt
  <1>5. <<>> \o p = p
    <2> PICK S : p \in Seq(S)
      BY <1>4, CommonWords
    <2> QED BY ConcatEmptySeq
  <1>6. stack'[cur] = p /\ TaskKept
    BY <1>2, <1>3, <1>5, StackStep DEF TaskKept
  <1>7. Looping(cur, Now)'
    <2>1. OwnStack(cur, stack[cur])' /\ (regs = Own(cur))'
      BY <1>3, <1>4, <1>6 DEF OwnStack, Own
    <2> QED BY <1>2, <1>3, <2>1, NextFields DEF Looping
  <1>8. Context(Now)'
    <2>1. regs' = [g \in Gprs |-> regs'[g]]
      BY <1>3 DEF Own
    <2>2. fx' \in XmmStates
      BY <1>3 DEF Typed, XmmStates
    <2> QED BY <1>3, <1>4, <1>6, <2>1, <2>2, NextContext
  <1> QED BY <1>6, <1>7, <1>8 DEF OwnContext, OwnGoesOn

---------------------------------------------------------------------------
(* RESTORE_ALL takes a task back, or a new thread to its first code.       *)
LEMMA OwnMmKeeps ==
  ASSUME Typed, Context(Now), OwnContext(cur, Now), RESTORE_MM
  PROVE  OwnGoesOn
  <1>1. pc[1] = "restore_mm" /\ Resuming(cur, Now)
    BY OwnKind DEF RESTORE_MM, At
  <1>2. PICK path : pc = <<"restore_mm", path>> /\ WayBack(cur, stack[cur], path)
    <2>1. Now.pc[1] = "restore_mm"
      BY <1>1, NowFields
    <2> QED BY ONLY <1>1, <2>1, NowFields DEF Resuming
  <1>3. regs = [g \in Gprs |-> regs[g]] /\ cur \in XmmStates /\ "zero" \in XmmStates
    BY NowFields DEF Context, XmmStates, Typed
  <1>4. CASE path = "sleep"
    <2>1. PICK o, x, r : /\ OwnStack(cur, o) /\ Kept(cur, r)
                         /\ stack[cur] = SaveMm(CallSaved(o, x, r), cur)
      BY <1>2, <1>4 DEF WayBack
    <2> PICK s : s = CallSaved(o, x, r)
      OBVIOUS
    <2>2. Words(s)
      BY <2>1, CallWords
    <2>3. stack[cur] = SaveMm(s, cur)
      BY <2>1
    <2>4. /\ fx' = cur /\ stack'[cur] = s /\ regs' = [g \in Gprs |-> regs'[g]]
          /\ pc' = <<"restore_gpr", pc[2]>> /\ cur' = cur /\ TaskKept
      BY <1>3, <2>2, <2>3, MmUndone
    <2>5. Resuming(cur, Now)'
      <3>1. OwnStack(cur, o)' /\ Kept(cur, r)' /\ CallSaved(o, x, r)' = s
        BY <2>1, <2>4 DEF OwnStack, Kept, Own, TaskKept
      <3>2. pc' = <<"restore_gpr", "sleep">>
        BY <1>2, <1>4, <2>4
      <3>3. Now'.pc = <<"restore_gpr", "sleep">> /\ Now'.fx = cur' /\ Now'.s = CallSaved(o, x, r)'
        BY <2>4, <3>1, <3>2, NextFields
      <3> QED BY <3>1, <3>3 DEF Resuming
    <2> QED BY <1>3, <2>2, <2>4, <2>5, NextContext DEF OwnContext, OwnGoesOn
  <1>5. CASE path = "fork"
    <2> PICK s : s = ForkStack
      OBVIOUS
    <2>1. stack[cur] = SaveMm(s, "zero") /\ Words(s)
      BY <1>2, <1>5, ForkWords DEF WayBack
    <2>2. /\ fx' = "zero" /\ stack'[cur] = s /\ regs' = [g \in Gprs |-> regs'[g]]
          /\ pc' = <<"restore_gpr", pc[2]>> /\ cur' = cur /\ TaskKept
      BY <1>3, <2>1, MmUndone
    <2>3. Starting(cur, Now)'
      <3>1. pc' = <<"restore_gpr", "fork">>
        BY <1>2, <1>5, <2>2
      <3> QED BY <2>2, <3>1, NextFields DEF Starting
    <2> QED BY <1>3, <2>1, <2>2, <2>3, NextContext DEF OwnContext, OwnGoesOn
  <1> QED BY <1>2, <1>4, <1>5 DEF WayBack

LEMMA OwnGprsKeeps ==
  ASSUME Typed, Context(Now), OwnContext(cur, Now), RESTORE_GPR
  PROVE  OwnGoesOn
  <1>1. pc \in {<<"restore_gpr", "sleep">>, <<"restore_gpr", "fork">>}
    <2>1. pc[1] = "restore_gpr"
      BY DEF RESTORE_GPR, At
    <2> PICK p : p = pc
      OBVIOUS
    <2> QED BY ONLY <2>1, OwnContext(cur, Now), OwnPlaces
  <1>2. fx \in XmmStates
    BY NowFields DEF Context
  <1>3. CASE pc = <<"restore_gpr", "sleep">>
    <2>1. PICK o, x, r : /\ OwnStack(cur, o) /\ Kept(cur, r) /\ fx = cur
                         /\ stack[cur] = CallSaved(o, x, r)
      <3>1. Resuming(cur, Now)
        BY <1>3, OwnKind
      <3>2. Now.pc[1] = "restore_gpr"
        BY <1>3, NowFields
      <3> QED BY ONLY <3>1, <3>2, NowFields DEF Resuming
    <2> PICK s : s = Append(Called(o), x)
      OBVIOUS
    <2>2. Words(s)
      BY <2>1, CallWords
    <2>3. stack[cur] = SaveGpr(s, r)
      BY <2>1 DEF CallSaved
    <2>4. /\ stack'[cur] = s /\ regs' = [g \in Gprs |-> regs'[g]]
          /\ \A g \in Gprs \ {"rax"} : regs'[g] = r[g]
          /\ pc' = <<"restored", pc[2]>> /\ cur' = cur /\ fx' = fx /\ TaskKept
      BY <2>2, <2>3, GprsUndone
    <2>5. Resuming(cur, Now)'
      <3>1. OwnStack(cur, o)' /\ Append(Called(o), x)' = s
        BY <2>1, <2>4 DEF OwnStack, TaskKept
      <3>2. Kept(cur, regs)'
        BY <2>1, <2>4, CalleeSavedGprs DEF Kept, Own
      <3>3. pc' = <<"restored", "sleep">> /\ fx' = cur'
        BY <1>3, <2>1, <2>4
      <3>4. /\ Now'.pc = <<"restored", "sleep">> /\ Now'.fx = cur' /\ Now'.s = Append(Called(o), x)'
            /\ Now'.regs = regs'
        BY <2>4, <3>1, <3>3, NextFields
      <3> QED BY <3>1, <3>2, <3>4 DEF Resuming
    <2> QED BY <1>2, <2>2, <2>4, <2>5, NextContext DEF OwnContext, OwnGoesOn
  <1>4. CASE pc = <<"restore_gpr", "fork">>
    <2> PICK f : f = ForkFrame
      OBVIOUS
    <2> PICK r : r = ThreadRegs
      OBVIOUS
    <2>1. stack[cur] = SaveGpr(f, r) /\ Words(f)
      <3>1. Starting(cur, Now)
        BY <1>4, OwnKind
      <3>2. Now.pc[1] = "restore_gpr"
        BY <1>4, NowFields
      <3>3. stack[cur] = ForkStack
        BY ONLY <3>1, <3>2, NowFields DEF Starting
      <3> QED BY <3>3, ForkWords DEF ForkStack
    <2>2. /\ stack'[cur] = f /\ regs' = [g \in Gprs |-> regs'[g]]
          /\ \A g \in Gprs \ {"rax"} : regs'[g] = r[g]
          /\ pc' = <<"restored", pc[2]>> /\ cur' = cur /\ fx' = fx /\ TaskKept
      BY <2>1, GprsUndone
    <2>3. Arguments(regs)'
      <3>1. r["rdi"] = <<"clone_fn", "">> /\ r["rsi"] = <<"data", "">>
        BY CalleeSavedGprs DEF ThreadRegs
      <3> QED BY <2>2, <3>1, CalleeSavedGprs DEF Arguments
    <2>4. Starting(cur, Now)'
      <3>1. pc' = <<"restored", "fork">>
        BY <1>4, <2>2
      <3> QED BY <2>2, <2>3, <3>1, NextFields DEF Starting
    <2> QED BY <1>2, <2>1, <2>2, <2>4, NextContext DEF OwnContext, OwnGoesOn
  <1> QED BY <1>1, <1>3, <1>4

LEMMA ReturnKeeps ==
  ASSUME Typed, Context(Now), OwnContext(cur, Now), ReturnFromSleep
  PROVE  OwnGoesOn
  <1>1. pc = <<"restored", "sleep">>
    <2>1. pc[1] = "restored" /\ pc[2] = "sleep"
      BY DEF ReturnFromSleep, At
    <2> QED BY ONLY <2>1, OwnContext(cur, Now), OwnPlaces
  <1>2. PICK o, x : /\ OwnStack(cur, o) /\ Kept(cur, regs) /\ fx = cur
                    /\ stack[cur] = Append(Called(o), x)
    <2>1. Resuming(cur, Now)
      BY <1>1, OwnKind
    <2>2. Now.pc[1] = "restored"
      BY <1>1, NowFields
    <2> PICK n : n = Now
      OBVIOUS
    <2>3. /\ n.fx = cur /\ Kept(cur, n.regs)
          /\ \E o, x : OwnStack(cur, o) /\ n.s = Append(Called(o), x)
      <3>1. n.pc[1] = "restored" /\ Resuming(cur, n)
        BY ONLY <2>1, <2>2, n = Now
      <3>2. /\ \A path : n.pc # <<"restore_mm", path>>
            /\ n.pc # <<"restore_gpr", "sleep">> /\ n.pc # <<"resumed", "own">>
        BY ONLY <3>1
      <3> QED BY ONLY <3>1, <3>2, Zenon DEF Resuming
    <2> QED BY ONLY <2>3, n = Now, NowFields
  <1> PICK w : w = Pc(<<"resumed", "own">>)
    OBVIOUS
  <1> PICK q : q = Append(o, w)
    OBVIOUS
  <1> PICK t : t = stack[cur]
    OBVIOUS
  <1>3. /\ Words(o) /\ Len(o) \in Nat /\ Words(q) /\ Len(q) = Len(o) + 1
        /\ q[Len(o) + 1] = w /\ SubSeq(q, 1, Len(o)) = o
    <2>1. Words(o)
      BY <1>2 DEF OwnStack
    <2> QED BY ONLY <2>1, q = Append(o, w), PushedWord
  <1>4. /\ Len(t) = Len(q) + 1 /\ t[Len(q)] = w /\ t[Len(q) + 1] = x
        /\ SubSeq(t, 1, Len(o)) = o
    <2>1. t = Append(q, x)
      BY <1>2 DEF Called
    <2>2. /\ Len(t) = Len(q) + 1 /\ t[Len(q) + 1] = x
          /\ \A k \in 1 .. Len(q) : t[k] = q[k]
      BY ONLY <1>3, <2>1, PushedWord
    <2>3. t[Len(q)] = w
      BY ONLY <1>3, <2>2
    <2>4. Words(t)
      BY ONLY <1>3, <2>1, PushedWord
    <2>5. SubSeq(t, 1, Len(o)) = SubSeq(q, 1, Len(o))
      <3>1. \A k \in 1 .. Len(o) : t[k] = q[k]
        BY ONLY <1>3, <2>2
      <3> QED BY ONLY <1>3, <3>1, <2>4
    <2> QED BY ONLY <1>3, <2>2, <2>3, <2>5
  <1>5. Len(t) - 1 = Len(q) /\ Len(t) - 2 = Len(o) /\ Len(t) >= 2
    BY ONLY <1>3, <1>4
  <1>6. w[1] = "pc" /\ w[2] = <<"resumed", "own">>
    BY DEF Pc
  <1>7. /\ regs' = [regs EXCEPT !["rax"] = t[Len(t)]] /\ ifOn' = TRUE
        /\ pc' = <<"resumed", "own">> /\ OnStack(SubSeq(t, 1, Len(t) - 2))
        /\ fx' = fx /\ cur' = cur /\ raised' = raised
        /\ ctxRsp' = ctxRsp /\ kthread1' = kthread1 /\ depth' = depth
    BY <1>4, <1>5, <1>6 DEF ReturnFromSleep, Has, Rsp, Top, Below, Go, taskVars
  <1>8. stack'[cur] = o /\ TaskKept
    <2>1. OnStack(o)
      BY <1>4, <1>5, <1>7
    <2> QED BY <1>7, <2>1, StackStep DEF TaskKept
  <1>9. regs' = [g \in Gprs |-> regs'[g]] /\ Kept(cur, regs')
    <2>1. regs = [g \in Gprs |-> regs[g]]
      BY NowFields DEF Context
    <2> PICK y : y = t[Len(t)]
      OBVIOUS
    <2>2. regs' = [regs EXCEPT !["rax"] = y]
      BY <1>7
    <2>3. regs' = [g \in Gprs |-> regs'[g]] /\ \A g \in Gprs \ {"rax"} : regs'[g] = regs[g]
      BY ONLY <2>1, <2>2
    <2> QED BY <1>2, <2>3, CalleeSavedGprs DEF Kept
  <1>10. Resuming(cur, Now)'
    <2>1. OwnStack(cur, stack[cur])' /\ Kept(cur, regs)'
      BY <1>2, <1>7, <1>8, <1>9 DEF OwnStack, Kept, Own
    <2>2. Now'.pc = <<"resumed", "own">> /\ Now'.fx = cur' /\ Now'.s = stack'[cur']
          /\ Now'.regs = regs' /\ Now'.on = TRUE
      BY <1>2, <1>7, NextFields
    <2> QED BY <2>1, <2>2 DEF Resuming
  <1>11. fx' \in XmmStates
    BY <1>7, NowFields DEF Context
  <1> QED BY <1>3, <1>7, <1>8, <1>9, <1>10, <1>11, NextContext DEF OwnContext, OwnGoesOn

(* The iretq of child_fork_path finds the frame of kernel_thread(). *)
LEMMA IretqStarts ==
  ASSUME Typed, Context(Now), OwnContext(cur, Now), Iretq
  PROVE  OwnGoesOn
  <1>1. pc = <<"restored", "fork">>
    <2>1. pc[1] = "iretq" \/ pc = <<"restored", "fork">>
      BY DEF Iretq, At
    <2>2. pc[1] # "iretq"
      BY OwnPlaces
    <2> QED BY <2>1, <2>2
  <1>2. stack[cur] = ForkFrame /\ Arguments(regs)
    <2>1. Starting(cur, Now)
      BY <1>1, OwnKind
    <2>2. Now.pc[1] = "restored"
      BY <1>1, NowFields
    <2> QED BY ONLY <2>1, <2>2, NowFields DEF Starting
  <1> PICK f : f = ForkFrame
    OBVIOUS
  <1>3. /\ Words(f) /\ Len(f) = 5 /\ f[5] = Pc(<<"helper", "own">>)
        /\ f[3] = <<"if", TRUE>> /\ f[2] = Num(0)
    <2>1. f[5] = Pc(<<"helper", "own">>) /\ f[3] = <<"if", TRUE>> /\ f[2] = Num(0)
      BY DEF ForkFrame, SetupRflags
    <2> QED BY <2>1, ForkWords
  <1>4. SubSeq(f, 1, 0) = <<>>
    <2> PICK S : f \in Seq(S)
      BY <1>3, CommonWords
    <2> QED OBVIOUS
  <1>5. /\ Pc(<<"helper", "own">>)[1] = "pc" /\ Pc(<<"helper", "own">>)[2] = <<"helper", "own">>
        /\ <<"if", TRUE>>[1] = "if" /\ <<"if", TRUE>>[2] = TRUE /\ Num(0)[2] = 0
    BY DEF Pc, Num
  <1>6. /\ ifOn' = TRUE /\ OnStack(<<>>) /\ pc' = <<"helper", "own">>
        /\ regs' = regs /\ fx' = fx /\ cur' = cur /\ raised' = raised
        /\ ctxRsp' = ctxRsp /\ kthread1' = kthread1 /\ depth' = depth
    <2> PICK t : t = stack[cur]
      OBVIOUS
    <2>1. /\ Len(t) = 5 /\ t[Len(t)][1] = "pc" /\ t[Len(t)][2] = <<"helper", "own">>
          /\ t[Len(t) - 2][1] = "if" /\ t[Len(t) - 2][2] = TRUE
          /\ SubSeq(t, 1, t[Len(t) - 3][2]) = <<>>
      <3>1. t = f
        BY <1>2
      <3>2. Len(f) = 5 /\ Len(f) - 2 = 3 /\ Len(f) - 3 = 2
        BY ONLY <1>3
      <3>3. f[3][1] = "if" /\ f[3][2] = TRUE
        BY ONLY <1>3, <1>5
      <3>4. f[5][1] = "pc" /\ f[5][2] = <<"helper", "own">> /\ f[2][2] = 0
        BY ONLY <1>3, <1>5
      <3> QED BY ONLY <1>4, <3>1, <3>2, <3>3, <3>4
    <2>2. Has(5)
      BY <2>1 DEF Has, Rsp
    <2> QED BY <2>1, <2>2 DEF Iretq, Rsp, Top, Go, taskVars
  <1>7. stack'[cur] = <<>> /\ TaskKept
    BY <1>6, StackStep DEF TaskKept
  <1>8. Starting(cur, Now)'
    <2>1. Arguments(regs)'
      BY <1>2, <1>6 DEF Arguments
    <2> QED BY <1>6, <1>7, <2>1, NextFields DEF Starting
  <1>9. Context(Now)'
    <2>1. Words(stack'[cur])
      BY <1>3, <1>7, NoWord
    <2> QED BY <1>6, <2>1, NowFields, NextContext DEF Context
  <1> QED BY <1>7, <1>8, <1>9 DEF OwnContext, OwnGoesOn

LEMMA OwnNoPopRax ==
  ASSUME OwnContext(cur, Now)
  PROVE  ~PopRax
  <1>1. pc[2] # "irq"
    BY OwnPlaces
  <1> QED BY <1>1 DEF PopRax

---------------------------------------------------------------------------
(* A way back is a stack, with the XMM image that RESTORE_ALL starts with. *)
LEMMA WayBackWords ==
  ASSUME Typed, NEW u \in Tasks, NEW s, NEW path, WayBack(u, s, path)
  PROVE  /\ Words(s) /\ Len(s) \in Nat /\ FxTop(s) /\ path \in {"sleep", "fork"}
         /\ Len(s) - 1 - s[Len(s)][2] = IF path = "fork" THEN 19 ELSE depth[u] + 16
  <1>1. CASE path = "sleep"
    <2>1. PICK o, x, r : OwnStack(u, o) /\ s = SaveMm(CallSaved(o, x, r), u)
      BY <1>1 DEF WayBack
    <2> PICK b : b = CallSaved(o, x, r)
      OBVIOUS
    <2>2. Words(b) /\ Len(b) = depth[u] + 16 /\ depth[u] \in Nat
      BY <2>1, CallWords
    <2>3. s = SaveMm(b, u) /\ u \in XmmStates
      BY <2>1 DEF XmmStates
    <2>4. Words(s) /\ Len(s) \in Nat /\ FxTop(s) /\ s[Len(s)][2] = Len(s) - 1 - Len(b)
      BY ONLY <2>2, <2>3, MmSaved
    <2> QED BY <1>1, <2>2, <2>4
  <1>2. CASE path = "fork"
    <2> PICK b : b = ForkStack
      OBVIOUS
    <2>1. Words(b) /\ Len(b) = 19
      BY ForkWords
    <2>2. s = SaveMm(b, "zero") /\ "zero" \in XmmStates
      BY <1>2 DEF WayBack, XmmStates
    <2>3. Words(s) /\ Len(s) \in Nat /\ FxTop(s) /\ s[Len(s)][2] = Len(s) - 1 - Len(b)
      BY ONLY <2>1, <2>2, MmSaved
    <2> QED BY <1>2, <2>1, <2>3
  <1> QED BY <1>1, <1>2 DEF WayBack

(* A sleeping task's stack without its last word *)
LEMMA AsleepStack ==
  ASSUME NEW s, Words(s), NEW w, NEW t, t = Append(s, w)
  PROVE  /\ Len(t) \in Nat /\ Len(t) = Len(s) + 1 /\ Last(t) = w /\ Front(t) = s
         /\ SubSeq(t, 1, Len(t)) = t
  <1>1. Words(t) /\ Len(s) \in Nat /\ Len(t) = Len(s) + 1 /\ t[Len(s) + 1] = w
        /\ SubSeq(t, 1, Len(s)) = s
    BY PushedWord
  <1>2. Len(t) - 1 = Len(s)
    BY ONLY <1>1
  <1>3. Last(t) = w /\ Front(t) = s
    BY <1>1, <1>2 DEF Last, Front
  <1>4. SubSeq(t, 1, Len(t)) = t
    <2> PICK S : t \in Seq(S)
      BY <1>1, CommonWords
    <2> QED OBVIOUS
  <1> QED BY <1>1, <1>3, <1>4

(* Switch leaves the task that called as resumable as it found the other,  *)
(* which is on its way back.                                               *)
LEMMA SwitchKeeps ==
  ASSUME Typed, Context(Now), OwnContext(cur, Now), Switch,
         Exists(Other(cur)) => Asleep(Other(cur))
  PROVE  /\ Typed' /\ Context(Now)' /\ OwnContext(cur, Now)' /\ raised' = raised
         /\ (\A u \in Tasks \ {cur} : Asleep(u))'
  <1>1. Calling(cur, Now) /\ pc[1] = "switch"
    BY OwnKind DEF Switch, At
  <1>2. /\ Kept(cur, regs) /\ fx = cur /\ regs["rsi"] = Num(ctxRsp[Other(cur)])
        /\ Exists(Other(cur))
    BY <1>1, NowFields DEF Calling
  <1>3. PICK o, x : OwnStack(cur, o) /\ stack[cur] = CallSaved(o, x, regs)
    <2>1. PICK o : /\ OwnStack(cur, o)
                   /\ \/ Now.pc = <<"push_rax", "activate">>
                      \/ \E x : Now.s = CallSaved(o, x, Now.regs)
      BY <1>1 DEF Calling
    <2>2. pc # <<"push_rax", "activate">>
      BY ONLY <1>1
    <2> QED BY ONLY <2>1, <2>2, NowFields
  <1> PICK v : v = Other(cur)
    OBVIOUS
  <1>4. v \in Tasks \ {cur} /\ Tasks = {cur, v}
    BY DEF Typed, Other, Tasks
  <1>5. PICK s, path : /\ WayBack(v, s, path)
                       /\ stack[v] = Append(s, Pc(<<"restore_mm", path>>))
                       /\ ctxRsp[v] = Len(stack[v])
    BY <1>2 DEF Asleep
  <1>6. Words(s)
    BY <1>4, <1>5, WayBackWords
  <1> PICK t : t = stack[v]
    OBVIOUS
  <1>7. /\ Last(t) = Pc(<<"restore_mm", path>>) /\ Front(t) = s
        /\ SubSeq(t, 1, Len(t)) = t
    <2> PICK w : w = Pc(<<"restore_mm", path>>)
      OBVIOUS
    <2>1. t = Append(s, w)
      BY <1>5
    <2> QED BY ONLY <1>6, <2>1, w = Pc(<<"restore_mm", path>>), AsleepStack
  <1>8. LoadedRsp = Len(t)
    BY <1>2, <1>5 DEF LoadedRsp, Num
  <1> PICK b : b = SaveMm(CallSaved(o, x, regs), cur)
    OBVIOUS
  <1> PICK from : from = Append(b, Pc(<<"restore_mm", "sleep">>))
    OBVIOUS
  <1>9. /\ ctxRsp' = [ctxRsp EXCEPT ![cur] = Len(from)]
        /\ stack' = [stack EXCEPT ![cur] = from, ![v] = s]
        /\ pc' = <<"restore_mm", path>> /\ cur' = v
        /\ regs' = [AfterSaveMm(regs) EXCEPT !["rax"] = <<"cr3", "">>]
        /\ fx' = fx /\ kthread1' = kthread1 /\ depth' = depth /\ raised' = raised
    <2>1. SubSeq(stack[Other(cur)], 1, LoadedRsp) = t
      BY <1>7, <1>8
    <2>2. Append(SaveMm(stack[cur], fx), Pc(<<"restore_mm", "sleep">>)) = from
      BY <1>2, <1>3
    <2>3. Last(t)[1] = "pc" /\ Last(t)[2] = <<"restore_mm", path>>
      BY <1>7 DEF Pc
    <2> QED BY <1>7, <2>1, <2>2, <2>3 DEF Switch, Go
  <1>10. /\ stack'[v] = s /\ stack'[cur] = from /\ ctxRsp'[cur] = Len(from)
         /\ Typed'
    <2>1. cur \in Tasks /\ cur # v
      BY <1>4 DEF Typed
    <2>2. stack = [u \in Tasks |-> stack[u]] /\ ctxRsp = [u \in Tasks |-> ctxRsp[u]]
      BY DEF Typed
    <2> PICK p : p = stack
      OBVIOUS
    <2> PICK q : q = ctxRsp
      OBVIOUS
    <2> PICK c : c = cur
      OBVIOUS
    <2>3. /\ stack'[v] = s /\ stack'[c] = from
          /\ stack' = [u \in Tasks |-> stack'[u]]
      <3>1. stack' = [p EXCEPT ![c] = from, ![v] = s]
        BY <1>9
      <3> QED BY ONLY <1>4, <2>1, <2>2, <3>1, p = stack, c = cur
    <2>4. ctxRsp'[c] = Len(from) /\ ctxRsp' = [u \in Tasks |-> ctxRsp'[u]]
      BY ONLY <2>1, <2>2, <1>9, q = ctxRsp, c = cur
    <2>5. cur' \in Tasks /\ depth' \in [Tasks -> Depths]
      BY <1>4, <1>9 DEF Typed
    <2> QED BY <2>3, <2>4, <2>5 DEF Typed
  <1>11. WayBack(v, s, path)' /\ WayBack(cur, b, "sleep")
    BY <1>2, <1>3, <1>5, <1>9 DEF WayBack, OwnStack, Kept, Own
  <1>12. Now'.pc = <<"restore_mm", path>> /\ Now'.s = s /\ Now'.regs = regs' /\ Now'.fx = fx
    BY <1>9, <1>10 DEF Now
  <1>13. OwnContext(cur, Now)'
    <2>1. Resuming(cur, Now)'
      BY <1>9, <1>11, <1>12 DEF Resuming
    <2> QED BY <2>1 DEF OwnContext
  <1>14. Context(Now)'
    <2>1. regs' = [g \in Gprs |-> regs'[g]]
      <3>1. regs = [g \in Gprs |-> regs[g]]
        BY NowFields DEF Context
      <3> QED BY <1>9, <3>1 DEF AfterSaveMm
    <2>2. fx' \in XmmStates
      BY <1>9, NowFields DEF Context
    <2> QED BY <1>6, <1>12, <2>1, <2>2 DEF Context, Now
  <1>15. (\A u \in Tasks \ {cur} : Asleep(u))'
    <2> PICK c : c = cur
      OBVIOUS
    <2>1. Asleep(c)'
      <3>1. WayBack(c, b, "sleep")'
        BY <1>9, <1>11 DEF WayBack, OwnStack, Kept, Own
      <3>2. stack'[c] = Append(b, Pc(<<"restore_mm", "sleep">>)) /\ ctxRsp'[c] = Len(stack'[c])
        BY <1>10
      <3> QED BY <3>1, <3>2 DEF Asleep
    <2>2. \A u \in Tasks \ {v} : u = c
      BY <1>4
    <2> QED BY <1>9, <2>1, <2>2
  <1> QED BY <1>9, <1>10, <1>13, <1>14, <1>15

---------------------------------------------------------------------------
(* What a step of the running task keeps *)
LEMMA HandlesStay ==
  ASSUME NEW CONSTANT c, NEW CONSTANT d, Handles(c, d), TaskKept
  PROVE  Handles(c, d)'
  <1>1. raised \subseteq raised'
    BY DEF TaskKept
  <1>2. PICK e \in {<<>>, ErrorCode} : Entering(c, d, e) \/ Leaving(c, d, e)
    BY DEF Handles
  <1>3. Entering(c, d, e) => Entering(c, d, e)'
    <2>1. \A v : Raised(v, e) => Raised(v, e)'
      BY <1>1 DEF Raised
    <2> QED BY <2>1 DEF Entering
  <1>4. Leaving(c, d, e) => Leaving(c, d, e)'
    <2>1. Lost => Lost'
      BY <1>1 DEF Lost
    <2> QED BY <2>1 DEF Leaving
  <1> QED BY <1>2, <1>3, <1>4 DEF Handles

LEMMA OwnStays ==
  ASSUME NEW CONSTANT c, OwnContext(cur, c), TaskKept
  PROVE  OwnContext(cur, c)'
  <1> PICK t : t = cur
    OBVIOUS
  <1>1. cur' = t /\ ctxRsp' = ctxRsp /\ kthread1' = kthread1 /\ depth' = depth
    BY DEF TaskKept
  <1>2. \A s : OwnStack(t, s) => OwnStack(t, s)'
    BY <1>1 DEF OwnStack
  <1>3. \A r : Kept(t, r) => Kept(t, r)'
    BY <1>1 DEF Kept, Own
  <1>4. Looping(t, c) => Looping(t, c)'
    BY <1>2 DEF Looping, Own
  <1>5. Calling(t, c) => Calling(t, c)'
    BY <1>1, <1>2, <1>3 DEF Calling, Exists, Called, CallSaved
  <1>6. \A s, path : WayBack(t, s, path) => WayBack(t, s, path)'
    BY <1>2, <1>3 DEF WayBack, CallSaved, Called
  <1>7. Resuming(t, c) => Resuming(t, c)'
    BY <1>2, <1>3, <1>6 DEF Resuming, CallSaved, Called
  <1>8. Starting(t, c) => Starting(t, c)'
    BY DEF Starting, Arguments
  <1>9. OwnContext(t, c)'
    BY <1>4, <1>5, <1>7, <1>8 DEF OwnContext
  <1> QED BY <1>1, <1>9

LEMMA SleeperStays ==
  ASSUME NEW CONSTANT u \in Tasks \ {cur}, Asleep(u), TaskKept
  PROVE  Asleep(u)'
  <1>1. stack'[u] = stack[u] /\ ctxRsp' = ctxRsp /\ depth' = depth
    BY DEF TaskKept
  <1>2. PICK s, path : /\ WayBack(u, s, path)
                       /\ stack[u] = Append(s, Pc(<<"restore_mm", path>>))
                       /\ ctxRsp[u] = Len(stack[u])
    BY DEF Asleep
  <1>3. \A o : OwnStack(u, o) => OwnStack(u, o)'
    BY <1>1 DEF OwnStack
  <1>4. \A r : Kept(u, r) => Kept(u, r)'
    BY DEF Kept, Own
  <1>5. WayBack(u, s, path)'
    BY <1>2, <1>3, <1>4 DEF WayBack, CallSaved, Called
  <1> QED BY <1>1, <1>2, <1>5 DEF Asleep

LEMMA OthersStay ==
  ASSUME Typed, \A u \in Tasks \ {cur} : Exists(u) => Asleep(u), TaskKept
  PROVE  Typed' /\ (\A u \in Tasks \ {cur} : Exists(u) => Asleep(u))'
  <1>1. /\ cur' = cur /\ ctxRsp' = ctxRsp /\ kthread1' = kthread1 /\ depth' = depth
        /\ stack' = [t \in Tasks |-> stack'[t]]
    BY DEF TaskKept
  <1>2. Typed'
    BY <1>1 DEF Typed
  <1>3. ASSUME NEW CONSTANT u \in Tasks \ {cur}, Exists(u)'
        PROVE  Asleep(u)'
    <2>1. Asleep(u)
      BY <1>1, <1>3 DEF Exists
    <2> QED BY <2>1, SleeperStays
  <1>4. \A u \in Tasks \ {cur} : Exists(u)' => Asleep(u)'
    BY <1>3
  <1> QED BY <1>1, <1>2, <1>4

---------------------------------------------------------------------------
(* Chains *)
LEMMA ChainAlone ==
  ASSUME OwnContext(cur, Now)', Context(Now)'
  PROVE  \E n, ch : Chain(n, ch)'
  <1> PICK c : c = Now'
    OBVIOUS
  <1> PICK ch : ch = [i \in 1 .. 1 |-> c]
    OBVIOUS
  <1>1. ch[1] = Now' /\ \A i \in 1 .. 1 : ch[i] = Now'
    OBVIOUS
  <1>2. (OwnContext(cur, ch[1]))' /\ \A i \in 1 .. 1 : Context(ch[i])'
    BY <1>1
  <1>3. 1 - 1 = 0 /\ 1 .. 0 = {} /\ 1 \in Nat \ {0}
    OBVIOUS
  <1>4. Chain(1, ch)'
    BY <1>1, <1>2, <1>3 DEF Chain
  <1> QED BY <1>4

LEMMA ChainPushed ==
  ASSUME NEW CONSTANT n, NEW CONSTANT ch, Chain(n, ch), TaskKept,
         Handles(ch[n], Now)', Context(Now)'
  PROVE  \E m, k : Chain(m, k)'
  <1> PICK c : c = Now'
    OBVIOUS
  <1> PICK m : m = n + 1
    OBVIOUS
  <1> PICK k : k = [i \in 1 .. m |-> IF i = m THEN c ELSE ch[i]]
    OBVIOUS
  <1>1. n \in Nat \ {0}
    BY DEF Chain
  <1>2. /\ m \in Nat \ {0} /\ k[m] = c /\ \A i \in 1 .. n : k[i] = ch[i]
        /\ m - 1 = n /\ 1 \in 1 .. n /\ n \in 1 .. n
        /\ \A i \in 1 .. m : i \in 1 .. n \/ i = m
        /\ \A i \in 1 .. m - 1 : (i \in 1 .. n - 1 /\ i + 1 \in 1 .. n)
                                 \/ (i = n /\ i + 1 = m)
    BY ONLY <1>1, m = n + 1, k = [i \in 1 .. m |-> IF i = m THEN c ELSE ch[i]]
  <1>3. OwnContext(cur, k[1])'
    <2>1. OwnContext(cur, ch[1])
      BY DEF Chain
    <2>2. OwnContext(cur, ch[1])'
      BY <2>1, OwnStays
    <2> QED BY <1>2, <2>2
  <1>4. \A i \in 1 .. m : Context(k[i])'
    <2>1. \A i \in 1 .. n : Context(ch[i])'
      BY DEF Chain, Context
    <2> QED BY <1>2, <2>1
  <1>5. ASSUME NEW i \in 1 .. m - 1 PROVE Handles(k[i], k[i + 1])'
    <2>1. CASE i \in 1 .. n - 1
      <3>1. Handles(ch[i], ch[i + 1])
        BY <2>1 DEF Chain
      <3>2. Handles(ch[i], ch[i + 1])'
        BY <3>1, HandlesStay
      <3>3. k[i] = ch[i] /\ k[i + 1] = ch[i + 1]
        BY ONLY <1>1, <1>2, <2>1
      <3> QED BY <3>2, <3>3
    <2>2. CASE i = n
      <3>1. k[i] = ch[n] /\ k[i + 1] = Now'
        BY <1>2, <2>2
      <3> QED BY <3>1
    <2> QED BY <1>2, <2>1, <2>2
  <1>6. Chain(m, k)'
    BY <1>2, <1>3, <1>4, <1>5 DEF Chain
  <1> QED BY <1>6

LEMMA ChainTop ==
  ASSUME NEW CONSTANT n, NEW CONSTANT ch, Chain(n, ch), n # 1, TaskKept,
         Handles(ch[n - 1], Now)', Context(Now)'
  PROVE  \E k : Chain(n, k)'
  <1> PICK c : c = Now'
    OBVIOUS
  <1> PICK k : k = [i \in 1 .. n |-> IF i = n THEN c ELSE ch[i]]
    OBVIOUS
  <1>1. n \in Nat \ {0} /\ n # 1
    BY DEF Chain
  <1>2. /\ k[n] = c /\ \A i \in 1 .. n - 1 : k[i] = ch[i]
        /\ 1 \in 1 .. n - 1 /\ \A i \in 1 .. n - 1 : i \in 1 .. n
        /\ \A i \in 1 .. n : i \in 1 .. n - 1 \/ i = n
        /\ \A i \in 1 .. n - 1 : (i + 1 \in 1 .. n - 1) \/ (i = n - 1 /\ i + 1 = n)
    BY ONLY <1>1, k = [i \in 1 .. n |-> IF i = n THEN c ELSE ch[i]]
  <1>3. OwnContext(cur, k[1])'
    <2>1. OwnContext(cur, ch[1])
      BY DEF Chain
    <2>2. OwnContext(cur, ch[1])'
      BY <2>1, OwnStays
    <2> QED BY <1>2, <2>2
  <1>4. \A i \in 1 .. n : Context(k[i])'
    <2>1. \A i \in 1 .. n : Context(ch[i])'
      BY DEF Chain, Context
    <2> QED BY <1>2, <2>1
  <1>5. ASSUME NEW i \in 1 .. n - 1 PROVE Handles(k[i], k[i + 1])'
    <2>1. CASE i + 1 \in 1 .. n - 1
      <3>1. Handles(ch[i], ch[i + 1])
        BY DEF Chain
      <3>2. Handles(ch[i], ch[i + 1])'
        BY <3>1, HandlesStay
      <3>3. k[i] = ch[i] /\ k[i + 1] = ch[i + 1]
        BY ONLY <1>2, <2>1, i \in 1 .. n - 1
      <3> QED BY <3>2, <3>3
    <2>2. CASE i = n - 1 /\ i + 1 = n
      <3>1. k[i] = ch[n - 1] /\ k[i + 1] = Now'
        BY <1>2, <2>2
      <3> QED BY <3>1
    <2> QED BY <1>2, <2>1, <2>2
  <1>6. Chain(n, k)'
    BY <1>1, <1>2, <1>3, <1>4, <1>5 DEF Chain
  <1> QED BY <1>6

LEMMA ChainPopped ==
  ASSUME NEW CONSTANT n, NEW CONSTANT ch, Chain(n, ch), n # 1, TaskKept,
         Now' = ch[n - 1]
  PROVE  \E m : Chain(m, ch)'
  <1> PICK m : m = n - 1
    OBVIOUS
  <1>1. n \in Nat \ {0} /\ n # 1
    BY DEF Chain
  <1>2. /\ m \in Nat \ {0} /\ \A i \in 1 .. m : i \in 1 .. n
        /\ \A i \in 1 .. m - 1 : i \in 1 .. n - 1
    BY ONLY <1>1, m = n - 1
  <1>3. OwnContext(cur, ch[1])'
    <2>1. OwnContext(cur, ch[1])
      BY DEF Chain
    <2> QED BY <2>1, OwnStays
  <1>4. \A i \in 1 .. m : Context(ch[i])'
    BY <1>2 DEF Chain, Context
  <1>5. ASSUME NEW i \in 1 .. m - 1 PROVE Handles(ch[i], ch[i + 1])'
    <2>1. Handles(ch[i], ch[i + 1])
      BY <1>2 DEF Chain
    <2> QED BY <2>1, HandlesStay
  <1>6. Chain(m, ch)'
    BY <1>2, <1>3, <1>4, <1>5 DEF Chain
  <1> QED BY <1>6

LEMMA ChainAlive ==
  ASSUME NEW CONSTANT n, NEW CONSTANT ch, Chain(n, ch)'
  PROVE  Alive'
  <1>1. n \in Nat \ {0} /\ ch[n] = Now'
    BY DEF Chain
  <1>2. CASE n = 1
    <2> PICK t : t = cur'
      OBVIOUS
    <2>1. OwnContext(t, Now)'
      BY <1>1, <1>2 DEF Chain
    <2> QED BY <2>1, AliveNext
  <1>3. CASE n # 1
    <2> PICK i : i = n - 1
      OBVIOUS
    <2>1. i \in 1 .. n - 1 /\ i + 1 = n
      BY ONLY <1>1, <1>3, i = n - 1
    <2> PICK c : c = ch[i]
      OBVIOUS
    <2>2. Handles(c, Now)'
      BY <1>1, <2>1 DEF Chain
    <2> QED BY <2>2, AliveNext
  <1> QED BY <1>2, <1>3

---------------------------------------------------------------------------
(* A handler's step goes on with it, returns to what it interrupted, stops *)
(* the machine or loses control.                                           *)
Stopped == At("stopped") /\ raised \cap Stoppers # {} /\ ifOn = FALSE
HandlerGoesOn(c) ==
  /\ TaskKept
  /\ \/ Handles(c, Now)' /\ Context(Now)'
     \/ Now' = c
     \/ At("wild")' /\ Lost'
     \/ Stopped'

LEMMA HandlerSteps ==
  ASSUME Typed, NEW CONSTANT c, Context(c), Context(Now), Handles(c, Now), Execute
  PROVE  HandlerGoesOn(c)
  <1>1. /\ pc[1] \in {"do_irq", "trap", "trap_mm", "fault", "restore_mm", "restore_gpr",
                      "restored", "iretq"}
        /\ pc[1] \in {"restore_mm", "restore_gpr", "restored", "iretq"} => pc[2] = "irq"
    BY HandlerPlaces
  <1>2. ~OwnCode
    BY <1>1 DEF OwnCode, Poll, arch_activate_task, PushGprs, Switch, AfterSwitch,
                kernel_thread_helper, At
  <1>3. ~ReturnFromSleep
    <2>1. pc[1] = "restored" => pc[2] # "sleep"
      BY <1>1
    <2> QED BY <2>1 DEF ReturnFromSleep, At
  <1>4. CASE RESTORE_MM
    BY <1>4, HandlerMmKeeps DEF HandlerGoesOn
  <1>5. CASE RESTORE_GPR
    BY <1>5, HandlerGprsKeeps DEF HandlerGoesOn
  <1>6. CASE PopRax
    BY <1>6, PopRaxKeeps DEF HandlerGoesOn
  <1>7. CASE Iretq
    BY <1>7, IretqReturns DEF HandlerGoesOn
  <1>8. CASE do_irq
    BY <1>8, DoIrqKeeps DEF HandlerGoesOn
  <1>9. CASE TrapGprs
    BY <1>9, TrapGprsKeeps DEF HandlerGoesOn
  <1>10. CASE CallHandler
    BY <1>10, CallHandlerKeeps DEF HandlerGoesOn
  <1>11. CASE FaultHandler
    BY <1>11, FaultHandlerKeeps DEF HandlerGoesOn, Stopped
  <1> QED BY <1>2, <1>3, <1>4, <1>5, <1>6, <1>7, <1>8, <1>9, <1>10, <1>11
          DEF Execute, Restore, Handler

(* A step of a task's own code goes on with it, switches, or follows the   *)
(* NULL pointer to a thread that was never created.                        *)
LEMMA OwnSteps ==
  ASSUME Typed, Context(Now), OwnContext(cur, Now), Execute
  PROVE  OwnGoesOn \/ Switch \/ (TaskKept /\ At("wild")' /\ ~kthread1')
  <1>1. pc[1] \notin {"do_irq", "trap", "trap_mm", "fault"}
    BY OwnPlaces
  <1>2. ~Handler
    BY <1>1 DEF Handler, do_irq, TrapGprs, CallHandler, FaultHandler, At
  <1>3. CASE Poll
    BY <1>3, PollKeeps
  <1>4. CASE arch_activate_task
    BY <1>4, ActivateKeeps
  <1>5. CASE PushGprs
    BY <1>5, PushGprsKeeps
  <1>6. CASE AfterSwitch
    BY <1>6, AfterSwitchKeeps
  <1>7. CASE kernel_thread_helper
    BY <1>7, HelperKeeps
  <1>8. CASE RESTORE_MM
    BY <1>8, OwnMmKeeps
  <1>9. CASE RESTORE_GPR
    BY <1>9, OwnGprsKeeps
  <1>10. CASE ReturnFromSleep
    BY <1>10, ReturnKeeps
  <1>11. CASE Iretq
    BY <1>11, IretqStarts
  <1> QED BY <1>2, <1>3, <1>4, <1>5, <1>6, <1>7, <1>8, <1>9, <1>10, <1>11, OwnNoPopRax
          DEF Execute, OwnCode, Restore

---------------------------------------------------------------------------
(* The inductive invariant *)
LEMMA InitContext == Init => ContextInv
  <1> SUFFICES ASSUME Init PROVE ContextInv
    OBVIOUS
  <1>1. /\ cur = "idle" /\ pc = <<"loop", "own">> /\ ifOn = TRUE
        /\ regs = Own("idle") /\ fx = "idle" /\ depth \in [Tasks -> Depths]
        /\ stack = [t \in Tasks |-> IF t = "idle" THEN Padding(depth[t])
                                    ELSE IF kthread1 THEN arch_setup_task_context
                                    ELSE <<>>]
        /\ ctxRsp = [t \in Tasks |-> IF t = "idle" THEN 0 ELSE Len(stack[t])]
    BY DEF Init
  <1>2. Typed
    BY <1>1 DEF Typed, Tasks
  <1>3. ~At("wild") /\ ~At("stopped")
    BY <1>1 DEF At
  <1>4. /\ stack["idle"] = Padding(depth["idle"]) /\ depth["idle"] \in Nat
        /\ kthread1 => /\ stack["thread"] = arch_setup_task_context
                       /\ ctxRsp["thread"] = Len(stack["thread"])
    BY <1>1, TasksAssumption DEF Tasks
  <1>5. OwnStack("idle", stack["idle"])
    <2> PICK n \in Nat : n = depth["idle"]
      BY <1>4
    <2> PICK p : p = Padding(n)
      OBVIOUS
    <2>1. p = [k \in 1 .. n |-> p[k]]
      BY DEF Padding
    <2>2. Words(p) /\ Len(p) = n
      BY ONLY <2>1, n \in Nat, WordsBuilt
    <2> QED BY <1>4, <2>2 DEF OwnStack
  <1>6. \A u \in Tasks \ {cur} : Exists(u) => Asleep(u)
    <2>1. ASSUME kthread1 PROVE Asleep("thread")
      <3> PICK s : s = SaveMm(ForkStack, "zero")
        OBVIOUS
      <3>1. WayBack("thread", s, "fork")
        BY DEF WayBack
      <3>2. stack["thread"] = Append(s, Pc(<<"restore_mm", "fork">>))
        BY <1>4, <2>1, ForkWords
      <3> QED BY <1>4, <2>1, <3>1, <3>2 DEF Asleep
    <2> QED BY <1>1, <2>1 DEF Tasks, Exists
  <1> PICK c : c = Now
    OBVIOUS
  <1> PICK ch : ch = [i \in 1 .. 1 |-> c]
    OBVIOUS
  <1>7. Context(c) /\ OwnContext(cur, c)
    <2>1. /\ c.pc = pc /\ c.on = ifOn /\ c.regs = regs /\ c.fx = fx /\ c.s = stack[cur]
      BY NowFields
    <2>2. Looping(cur, c)
      BY <1>1, <1>5, <2>1 DEF Looping
    <2>3. regs = [g \in Gprs |-> regs[g]] /\ fx \in XmmStates /\ Words(stack[cur])
      BY <1>1, <1>5 DEF Own, XmmStates, OwnStack, Tasks
    <2> QED BY <2>1, <2>2, <2>3 DEF Context, OwnContext, Now
  <1>8. Chain(1, ch)
    <2>1. ch[1] = c /\ 1 - 1 = 0 /\ 1 .. 0 = {} /\ 1 \in Nat \ {0} /\ 1 .. 1 = {1}
      OBVIOUS
    <2> QED BY <1>7, <2>1 DEF Chain
  <1> QED BY <1>2, <1>3, <1>6, <1>8 DEF ContextInv

LEMMA ContextStep == ContextInv /\ Next => ContextInv'
  <1> SUFFICES ASSUME ContextInv, Next PROVE ContextInv'
    OBVIOUS
  <1>1. Typed /\ \A u \in Tasks \ {cur} : Exists(u) => Asleep(u)
    BY DEF ContextInv
  <1>2. ~At("wild") /\ ~At("stopped")
    <2>1. CASE Execute
      <3>1. OwnCode => pc[1] \in {"loop", "activate", "push_rax", "switch", "resumed", "helper"}
        BY DEF OwnCode, Poll, arch_activate_task, PushGprs, Switch, AfterSwitch,
               kernel_thread_helper, At
      <3>2. RESTORE_MM \/ RESTORE_GPR \/ ReturnFromSleep \/ PopRax
              => pc[1] \in {"restore_mm", "restore_gpr", "restored"}
        BY DEF RESTORE_MM, RESTORE_GPR, ReturnFromSleep, PopRax, At
      <3>3. Iretq => pc[1] \in {"iretq", "restored"}
        <4>1. Iretq => pc[1] = "iretq" \/ pc = <<"restored", "fork">>
          BY DEF Iretq, At
        <4> QED BY ONLY <4>1
      <3>4. Handler => pc[1] \in {"do_irq", "trap", "trap_mm", "fault"}
        BY DEF Handler, do_irq, TrapGprs, CallHandler, FaultHandler, At
      <3> QED BY ONLY <2>1, <3>1, <3>2, <3>3, <3>4 DEF Execute, Restore, At
    <2>2. CASE \E irq \in Irqs : Interrupt(irq)
      BY <2>2 DEF ContextInv, Interrupt
    <2>3. CASE \E v \in Vectors : Raise(v)
      BY <2>3 DEF Raise, At
    <2> QED BY <2>1, <2>2, <2>3 DEF Next
  <1>3. PICK n, ch : Chain(n, ch)
    BY <1>2 DEF ContextInv
  <1>4. /\ n \in Nat \ {0} /\ ch[n] = Now /\ OwnContext(cur, ch[1])
        /\ \A i \in 1 .. n : Context(ch[i])
        /\ \A i \in 1 .. n - 1 : Handles(ch[i], ch[i + 1])
    BY <1>3 DEF Chain
  <1>5. Context(Now)
    <2>1. n \in 1 .. n
      BY ONLY <1>4
    <2> QED BY <1>4, <2>1
  (* The three ways for the next state to be right *)
  <1>6. ASSUME TaskKept, \E m, k : Chain(m, k)' PROVE ContextInv'
    <2>1. Alive'
      BY <1>6, ChainAlive
    <2>2. Typed' /\ (\A u \in Tasks \ {cur} : Exists(u) => Asleep(u))'
      BY <1>1, <1>6, OthersStay
    <2>3. (\E m, k : Chain(m, k))'
      BY <1>6
    <2> QED BY <2>1, <2>2, <2>3 DEF ContextInv, Alive, At
  <1>7. ASSUME TaskKept, At("wild")', ~kthread1' \/ Lost' PROVE ContextInv'
    <2>1. Typed' /\ (\A u \in Tasks \ {cur} : Exists(u) => Asleep(u))'
      BY <1>1, <1>7, OthersStay
    <2>2. ~At("stopped")'
      BY <1>7 DEF At
    <2> QED BY <1>7, <2>1, <2>2 DEF ContextInv
  <1>8. ASSUME TaskKept, Stopped' PROVE ContextInv'
    <2>1. Typed' /\ (\A u \in Tasks \ {cur} : Exists(u) => Asleep(u))'
      BY <1>1, <1>8, OthersStay
    <2>2. ~At("wild")' /\ At("stopped")' /\ (raised \cap Stoppers # {} /\ ifOn = FALSE)'
      BY <1>8 DEF Stopped, At
    <2> QED BY <2>1, <2>2 DEF ContextInv
  <1>9. ASSUME NEW irq \in Irqs, Interrupt(irq) PROVE ContextInv'
    <2> PICK c : c = ch[n]
      OBVIOUS
    <2>1. c = Now /\ Context(c)
      BY <1>4, <1>5
    <2>2. Handles(c, Now)' /\ Context(Now)' /\ TaskKept
      BY <1>1, <1>9, <2>1, InterruptEnters
    <2> QED BY <1>3, <1>6, <2>2, ChainPushed
  <1>10. ASSUME NEW v \in Vectors, Raise(v) PROVE ContextInv'
    <2> PICK c : c = ch[n]
      OBVIOUS
    <2>1. c = Now /\ Context(c)
      BY <1>4, <1>5
    <2>2. Handles(c, Now)' /\ Context(Now)' /\ TaskKept
      BY <1>1, <1>10, <2>1, RaiseEnters
    <2> QED BY <1>3, <1>6, <2>2, ChainPushed
  <1>11. ASSUME Execute, n # 1 PROVE ContextInv'
    <2> PICK c : c = ch[n - 1]
      OBVIOUS
    <2>1. n - 1 \in 1 .. n - 1 /\ n - 1 \in 1 .. n /\ (n - 1) + 1 = n
      BY ONLY <1>4, <1>11
    <2>2. Handles(c, Now) /\ Context(c)
      BY <1>4, <2>1
    <2>3. HandlerGoesOn(c)
      BY <1>1, <1>5, <1>11, <2>2, HandlerSteps
    <2>4. CASE Handles(c, Now)' /\ Context(Now)'
      <3>1. \E k : Chain(n, k)'
        BY <1>3, <1>11, <2>3, <2>4, ChainTop DEF HandlerGoesOn
      <3> QED BY <1>6, <2>3, <3>1 DEF HandlerGoesOn
    <2>5. CASE Now' = c
      <3>1. \E m : Chain(m, ch)'
        BY <1>3, <1>11, <2>3, <2>5, ChainPopped DEF HandlerGoesOn
      <3> QED BY <1>6, <2>3, <3>1 DEF HandlerGoesOn
    <2> QED BY <1>7, <1>8, <2>3, <2>4, <2>5 DEF HandlerGoesOn
  <1>12. ASSUME Execute, n = 1 PROVE ContextInv'
    <2>1. OwnContext(cur, Now)
      BY <1>4, <1>12
    <2>2. CASE OwnGoesOn
      BY <1>6, <2>2, ChainAlone DEF OwnGoesOn
    <2>3. CASE Switch
      <3>1. /\ Typed' /\ Context(Now)' /\ OwnContext(cur, Now)' /\ raised' = raised
            /\ (\A u \in Tasks \ {cur} : Asleep(u))'
        <4>1. Other(cur) \in Tasks \ {cur}
          BY <1>1 DEF Typed, Tasks, Other
        <4> QED BY <1>1, <1>5, <2>1, <2>3, <4>1, SwitchKeeps
      <3>2. PICK m, k : Chain(m, k)'
        BY <3>1, ChainAlone
      <3>3. Alive'
        BY <3>2, ChainAlive
      <3>4. (\E j, l : Chain(j, l))'
        BY <3>2
      <3> QED BY <3>1, <3>3, <3>4 DEF ContextInv, Alive, At
    <2>4. CASE TaskKept /\ At("wild")' /\ ~kthread1'
      BY <1>7, <2>4
    <2> QED BY <1>1, <1>5, <1>12, <2>1, <2>2, <2>3, <2>4, OwnSteps
  <1> QED BY <1>9, <1>10, <1>11, <1>12 DEF Next

LEMMA ContextStutter == ContextInv /\ UNCHANGED vars => ContextInv'
  <1> SUFFICES ASSUME ContextInv, UNCHANGED vars PROVE ContextInv'
    OBVIOUS
  <1>1. /\ cur' = cur /\ pc' = pc /\ ifOn' = ifOn /\ regs' = regs /\ fx' = fx
        /\ stack' = stack /\ ctxRsp' = ctxRsp /\ kthread1' = kthread1 /\ depth' = depth
        /\ raised' = raised
    BY DEF vars, cpuVars, taskVars
  <1>2. TaskKept
    BY <1>1 DEF TaskKept, ContextInv, Typed
  <1>3. Typed' /\ (\A u \in Tasks \ {cur} : Exists(u) => Asleep(u))'
    BY <1>2, OthersStay DEF ContextInv
  <1>4. /\ At("wild")' => ~kthread1' \/ Lost'
        /\ At("stopped")' => raised' \cap Stoppers # {} /\ ifOn' = FALSE
    BY <1>1 DEF ContextInv, At, Lost
  <1>5. ASSUME NEW CONSTANT n, NEW CONSTANT ch, Chain(n, ch) PROVE Chain(n, ch)'
    <2>1. OwnContext(cur, ch[1])'
      BY <1>2, <1>5, OwnStays DEF Chain
    <2>2. \A i \in 1 .. n - 1 : Handles(ch[i], ch[i + 1])'
      <3>1. ASSUME NEW i \in 1 .. n - 1 PROVE Handles(ch[i], ch[i + 1])'
        <4>1. Handles(ch[i], ch[i + 1])
          BY <1>5 DEF Chain
        <4> QED BY <1>2, <4>1, HandlesStay
      <3> QED BY <3>1
    <2>3. Now' = Now
      BY <1>1 DEF Now
    <2>4. \A i \in 1 .. n : Context(ch[i])'
      BY <1>5 DEF Chain, Context
    <2> QED BY <1>5, <2>1, <2>2, <2>3, <2>4 DEF Chain
  <1>6. At("wild")' \/ At("stopped")' \/ \E n, ch : Chain(n, ch)'
    BY <1>1, <1>5 DEF ContextInv, At
  <1> QED BY <1>3, <1>4, <1>6 DEF ContextInv

LEMMA ContextInvariant == Spec => []ContextInv
  <1>1. ContextInv /\ [Next]_vars => ContextInv'
    BY ContextStep, ContextStutter
  <1> QED BY InitContext, <1>1, PTL DEF Spec

---------------------------------------------------------------------------
(* What the chain says at the places of the properties *)
LEMMA ContextImplies == ContextInv => ContextKept
  <1> SUFFICES ASSUME ContextInv PROVE ContextKept
    OBVIOUS
  <1>1. ASSUME pc[1] \in {"loop", "helper"} PROVE OwnContext(cur, Now)
    <2>1. ~At("wild") /\ ~At("stopped")
      BY <1>1 DEF At
    <2>2. PICK n, ch : Chain(n, ch)
      BY <2>1 DEF ContextInv
    <2>3. n \in Nat \ {0} /\ ch[n] = Now /\ OwnContext(cur, ch[1])
          /\ \A i \in 1 .. n - 1 : Handles(ch[i], ch[i + 1])
      BY <2>2 DEF Chain
    <2>4. n = 1
      <3> SUFFICES ASSUME n # 1 PROVE FALSE
        OBVIOUS
      <3>1. n - 1 \in 1 .. n - 1 /\ (n - 1) + 1 = n
        BY ONLY <2>3, n # 1
      <3> PICK c : c = ch[n - 1]
        OBVIOUS
      <3>2. Handles(c, Now)
        BY <2>3, <3>1
      <3> QED BY <1>1, <3>2, HandlerPlaces
    <2> QED BY <2>3, <2>4
  <1>2. ASSUME At("loop")
        PROVE  regs = Own(cur) /\ fx = cur /\ ifOn /\ Rsp = depth[cur]
    <2>1. Looping(cur, Now)
      BY <1>1, <1>2, OwnKind DEF At
    <2> QED BY <2>1, NowFields DEF Looping, OwnStack, Rsp
  <1>3. ASSUME At("helper")
        PROVE  /\ regs["rdi"] = <<"clone_fn", "">> /\ regs["rsi"] = <<"data", "">>
               /\ ifOn /\ Rsp = 0
    <2>1. pc[1] = "helper" /\ OwnContext(cur, Now)
      BY <1>1, <1>3 DEF At
    <2>2. pc = <<"helper", "own">>
      BY <2>1, OwnPlaces
    <2>3. Starting(cur, Now)
      BY <2>1, <2>2, OwnKind
    <2>4. stack[cur] = <<>> /\ Arguments(regs) /\ ifOn = TRUE
      <3>1. pc # <<"restore_gpr", "fork">> /\ pc # <<"restored", "fork">>
        BY ONLY <2>2
      <3> QED BY ONLY <2>3, <3>1, NowFields DEF Starting
    <2> QED BY <2>4 DEF Arguments, Rsp
  <1>4. /\ At("wild") => ~kthread1 \/ raised \cap (WithErrorCode \ Stoppers) # {}
        /\ At("stopped") => raised \cap Stoppers # {}
    BY DEF ContextInv, Lost
  <1> QED BY <1>2, <1>3, <1>4 DEF ContextKept

LEMMA SleepersImplied == ContextInv => SleepersResumable
  <1> SUFFICES ASSUME ContextInv, NEW t \in Tasks \ {cur}, Exists(t)
               PROVE  /\ ctxRsp[t] = Len(stack[t])
                      /\ Last(stack[t])[1] = "pc" /\ Last(stack[t])[2][1] = "restore_mm"
                      /\ FxTop(Front(stack[t]))
                      /\ Len(stack[t]) - 2 - Last(Front(stack[t]))[2]
                           = Saved(t, Last(stack[t])[2][2])
    BY DEF SleepersResumable
  <1>1. PICK s, path : /\ WayBack(t, s, path)
                       /\ stack[t] = Append(s, Pc(<<"restore_mm", path>>))
                       /\ ctxRsp[t] = Len(stack[t])
    BY DEF ContextInv, Asleep
  <1> PICK w : w = Pc(<<"restore_mm", path>>)
    OBVIOUS
  <1> PICK u : u = stack[t]
    OBVIOUS
  <1>2. w[1] = "pc" /\ w[2] = <<"restore_mm", path>>
    BY DEF Pc
  <1>3. w[2][1] = "restore_mm" /\ w[2][2] = path
    BY ONLY <1>2
  <1>4. /\ Words(s) /\ Len(s) \in Nat /\ FxTop(s) /\ path \in {"sleep", "fork"}
        /\ Len(s) - 1 - s[Len(s)][2] = IF path = "fork" THEN 19 ELSE depth[t] + 16
    BY <1>1, WayBackWords DEF ContextInv
  <1>5. Len(u) = Len(s) + 1 /\ Last(u) = w /\ Front(u) = s
    <2>1. u = Append(s, w)
      BY <1>1
    <2> QED BY ONLY <1>4, <2>1, AsleepStack
  <1>6. Saved(t, path) = IF path = "fork" THEN 19 ELSE depth[t] + 16
    <2>1. depth[t] \in Nat
      BY TasksAssumption DEF ContextInv, Typed
    <2> QED BY <2>1, SavedGprsLen DEF Saved
  <1>7. Len(u) - 2 - Last(Front(u))[2] = Saved(t, path)
    <2> PICK d : d = s[Len(s)][2]
      OBVIOUS
    <2>1. Last(Front(u))[2] = d
      BY <1>5 DEF Last
    <2> PICK l \in Nat : l = Len(s)
      BY <1>4
    <2>2. Len(u) = l + 1 /\ l - 1 - d = Saved(t, path)
      BY <1>4, <1>5, <1>6
    <2> QED BY <2>1, <2>2
  <1>8. /\ Last(u)[1] = "pc" /\ Last(u)[2][1] = "restore_mm" /\ FxTop(Front(u))
        /\ Last(u)[2][2] = path
    BY ONLY <1>2, <1>3, <1>4, <1>5
  <1>9. Len(u) - 2 - Last(Front(u))[2] = Saved(t, Last(u)[2][2])
    BY ONLY <1>7, <1>8
  <1> QED BY ONLY <1>1, <1>8, <1>9, u = stack[t]

(* Whatever interrupts or raises an exception between two instructions of  *)
(* idle_loop(), clone_fn() or arch_activate_task(), the task finds its     *)
(* registers, its XMM state, its stack and RFLAGS.IF as they were: SAVE_ALL*)
(* and RESTORE_ALL (context.h), the stubs of asm.S and                     *)
(* arch_hw_activate_task() undo each other at any depth of nesting.        *)
THEOREM ContextsKept == Spec => []ContextKept
  BY ContextInvariant, ContextImplies, PTL

(* The stack that arch_hw_activate_task() or arch_setup_task_context()     *)
(* left of a task that does not run stays one RESTORE_ALL can take back,   *)
(* at the rsp saved in arch_context.                                       *)
THEOREM SleepersStay == Spec => []SleepersResumable
  BY ContextInvariant, SleepersImplied, PTL
=============================================================================
