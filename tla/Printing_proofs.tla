--------------------------- MODULE Printing_proofs ---------------------------
(***************************************************************************)
(* vsnprintf() and its callers, for every format, argument, width of the   *)
(* integers and size of the buffers: what is written ends at the limit,    *)
(* what is returned is what was written, and the format is not left.       *)
(* And the console, for every screen, every text memory and all messages   *)
(* of tasks and handlers, in any number: the index register of the CRTC is *)
(* as vga_update_cursor()'s user left it, and the screen shows the plain   *)
(* text that was printed.                                                  *)
(***************************************************************************)
EXTENDS KPrintf, Console, FiniteSetTheorems, WellFoundedInduction, TLAPS

(* A sequence, of whatever elements. *)
Word(s) == s \in Seq({s[i] : i \in DOMAIN s})

(* What is a sequence over some set is one over its own elements.          *)
LEMMA WordOf ==
  ASSUME NEW S, NEW s \in Seq(S)
  PROVE  Word(s) /\ Len(s) \in Nat
  <1>1. Len(s) \in Nat /\ s = [i \in 1 .. Len(s) |-> s[i]] /\ DOMAIN s = 1 .. Len(s)
    OBVIOUS
  <1> DEFINE E == {s[i] : i \in DOMAIN s}
  <1>2. \A i \in 1 .. Len(s) : s[i] \in E
    BY <1>1
  <1> HIDE DEF E
  <1>3. s \in Seq(E)
    BY <1>1, <1>2
  <1> QED BY <1>1, <1>3 DEF E, Word

(* Two sequences have a common set of elements. *)
LEMMA CommonElements ==
  ASSUME NEW s, NEW t, Word(s), Word(t)
  PROVE  \E S : s \in Seq(S) /\ t \in Seq(S)
  <1> DEFINE E == {s[i] : i \in DOMAIN s}
             F == {t[i] : i \in DOMAIN t}
  <1>1. s \in Seq(E) /\ t \in Seq(F)
    BY DEF Word
  <1> HIDE DEF E, F
  <1>2. \A S, T : \A x \in Seq(S) : S \subseteq T => x \in Seq(T)
    <2> SUFFICES ASSUME NEW S, NEW T, NEW x \in Seq(S), S \subseteq T PROVE x \in Seq(T)
      OBVIOUS
    <2>1. x = [i \in 1 .. Len(x) |-> x[i]] /\ Len(x) \in Nat
      OBVIOUS
    <2>2. \A i \in 1 .. Len(x) : x[i] \in T
      OBVIOUS
    <2> QED BY <2>1, <2>2
  <1>3. s \in Seq(E \cup F) /\ t \in Seq(E \cup F)
    BY <1>1, <1>2
  <1> QED BY <1>3

(* The sequences that conversions are put together from. *)
LEMMA EmptyWord == Word(<<>>) /\ Len(<<>>) = 0
  <1>1. <<>> \in Seq({})
    OBVIOUS
  <1> QED BY <1>1, WordOf

(* A run, like padding or leading zeros, is as long as was asked for.      *)
LEMMA RunIsWord ==
  ASSUME NEW c, NEW n \in Nat
  PROVE  Word(Run(c, n)) /\ Len(Run(c, n)) = n
  <1>1. Run(c, n) \in Seq({c}) /\ Len(Run(c, n)) = n
    BY DEF Run
  <1> QED BY <1>1, WordOf

(* One character, like a sign or the argument of "%c". *)
LEMMA OneIsWord ==
  ASSUME NEW c
  PROVE  Word(<<c>>) /\ Len(<<c>>) = 1
  <1>1. <<c>> \in Seq({c})
    OBVIOUS
  <1> QED BY <1>1, WordOf

(* Sequences are joined and cut. *)
LEMMA JoinedWord ==
  ASSUME NEW s, NEW t, Word(s), Word(t)
  PROVE  Word(s \o t) /\ Len(s \o t) = Len(s) + Len(t) /\ Len(s) \in Nat /\ Len(t) \in Nat
  <1> PICK S : s \in Seq(S) /\ t \in Seq(S)
    BY CommonElements
  <1>1. s \o t \in Seq(S) /\ Len(s \o t) = Len(s) + Len(t)
    OBVIOUS
  <1> QED BY <1>1, WordOf

(* The part of a text that fits into the rest of the buffer. *)
LEMMA CutWord ==
  ASSUME NEW s, Word(s), NEW a \in Nat \ {0}, NEW b \in Nat, b <= Len(s)
  PROVE  /\ Word(SubSeq(s, a, b))
         /\ Len(SubSeq(s, a, b)) = IF a <= b THEN b - a + 1 ELSE 0
  <1> PICK S : s \in Seq(S)
    BY DEF Word
  <1>1. /\ SubSeq(s, a, b) \in Seq(S)
        /\ Len(SubSeq(s, a, b)) = IF a <= b THEN b - a + 1 ELSE 0
    OBVIOUS
  <1> QED BY <1>1, WordOf

(* Behind what is written more is written, and not behind the limit.       *)
Grown(o, p, d) == Word(p) /\ Len(p) \in Nat /\ Len(o) <= Len(p) /\ Len(p) <= d

LEMMA WritersGrow ==
  ASSUME NEW o, NEW s, NEW d \in Nat, Word(o), Word(s), Len(o) <= d
  PROVE  /\ Grown(o, PutBytes(o, s, d), d) /\ Grown(o, PutWhole(o, s, d), d)
         /\ Grown(o, PutDigits(o, s, d), d)
         /\ Len(s) > 0 /\ Len(o) < d => Len(o) < Len(PutDigits(o, s, d))
  <1>1. Len(o) \in Nat /\ Len(s) \in Nat
    BY JoinedWord
  <1> DEFINE k == Smaller(Len(s), d - Len(o))
  <1>2. k \in Nat /\ k <= Len(s) /\ k <= d - Len(o) /\ (Len(s) > 0 /\ Len(o) < d => k > 0)
    BY <1>1 DEF Smaller
  <1> HIDE DEF k
  <1>3. Grown(o, PutBytes(o, s, d), d)
    <2>1. Word(SubSeq(s, 1, k)) /\ Len(SubSeq(s, 1, k)) = k
      BY <1>1, <1>2, CutWord
    <2>2. Word(o \o SubSeq(s, 1, k)) /\ Len(o \o SubSeq(s, 1, k)) = Len(o) + k
      BY <2>1, JoinedWord
    <2> QED BY <1>1, <1>2, <2>2 DEF Grown, PutBytes, k
  <1>4. Grown(o, PutWhole(o, s, d), d)
    BY <1>1, JoinedWord DEF Grown, PutWhole
  <1>5. /\ Grown(o, PutDigits(o, s, d), d)
        /\ Len(PutDigits(o, s, d)) = Len(o) + k
    <2> DEFINE t == SubSeq(s, Len(s) - k + 1, Len(s))
    <2>1. Len(s) - k + 1 \in Nat \ {0}
      BY <1>1, <1>2
    <2>2. Word(t) /\ Len(t) = k
      BY <1>1, <1>2, <2>1, CutWord
    <2> HIDE DEF t
    <2>3. Word(o \o t) /\ Len(o \o t) = Len(o) + k
      BY <2>2, JoinedWord
    <2>4. PutDigits(o, s, d) = o \o t
      BY DEF PutDigits, t, k
    <2> QED BY <1>1, <1>2, <2>3, <2>4 DEF Grown
  <1> QED BY <1>1, <1>2, <1>3, <1>4, <1>5

-----------------------------------------------------------------------------
(* The conversions *)

(* Padding and leading zeros are never negative. *)
LEMMA MonusTyped ==
  \A a \in Int : /\ \A b \in Int : Monus(a, b) \in Nat
                 /\ \A b \in Nat : Monus(a, b) \in Nat
                 /\ Monus(a, 1) \in Nat
  BY DEF Monus

(* A number has a digit, whatever its base. *)
LEMMA SpelledWord ==
  ASSUME NEW n, NEW base, NEW nums
  PROVE  Word(Spelled(n, base, nums)) /\ Len(Spelled(n, base, nums)) \in Nat \ {0}
  <1> DEFINE K   == {k \in 1 .. LongBits : base^k <= n}
             len == 1 + Cardinality(K)
             num == [i \in 1 .. len |-> nums[((n \div base^(len - i)) % base) + 1]]
  <1>1. Cardinality(K) \in Nat
    <2>1. IsFiniteSet(1 .. LongBits)
      BY SizesAssumption, FS_Interval
    <2>2. K \subseteq 1 .. LongBits
      OBVIOUS
    <2> HIDE DEF K
    <2> QED BY <2>1, <2>2, FS_Subset, FS_CardinalityType
  <1>2. len \in Nat \ {0}
    BY <1>1
  <1>3. Spelled(n, base, nums) = num
    BY DEF Spelled
  <1> HIDE DEF K, len
  <1> PICK c : c = [i \in 1 .. len |-> nums[((n \div base^(len - i)) % base) + 1]]
    OBVIOUS
  <1>4. c = num /\ DOMAIN c = 1 .. len
    OBVIOUS
  <1> HIDE DEF num
  <1>5. c \in Seq({c[i] : i \in DOMAIN c}) /\ Len(c) = len
    <2> DEFINE E == {c[i] : i \in DOMAIN c}
    <2>1. \A i \in 1 .. len : c[i] \in E
      BY <1>4
    <2>2. c = [i \in 1 .. len |-> c[i]]
      BY <1>4 DEF num
    <2> HIDE DEF E
    <2>3. c \in Seq(E) /\ Len(c) = len
      BY <1>2, <2>1, <2>2
    <2> QED BY <2>3 DEF E
  <1> QED BY <1>2, <1>3, <1>4, <1>5 DEF Word

(* __digit() keeps to the limit, and where there is room for a byte it     *)
(* writes one.                                                             *)
LEMMA DigitGrows ==
  ASSUME NEW o, NEW n, NEW f, NEW d \in Nat, Word(o), Len(o) <= d,
         f.width \in Int, f.presiction \in Int
  PROVE  /\ Grown(o, Digit(o, n, f, d), d)
         /\ Len(o) < d => Len(o) < Len(Digit(o, n, f, d))
  <1> DEFINE has(x) == x \in f.flags
             num  == Spelled(n, Base(f.flags), IF has("DHEX_UP") THEN NumsUp ELSE Nums)
             zeros == Monus(f.presiction, Len(num))
             pad   == Padding(f, Len(num))
             left  == IF has("FLJ") THEN 0 ELSE pad
             right == pad - left
             prefix == CASE has("DHEX") /\ has("FPREF")    -> <<"0", "x">>
                         [] has("DHEX_UP") /\ has("FPREF") -> <<"0", "X">>
                         [] has("DDEC") /\ has("FSIG")     -> <<"+">>
                         [] has("DOCT") /\ has("FPREF")    -> <<"0">>
                         [] OTHER                          -> <<>>
             space == IF has("FSPACE") THEN <<" ">> ELSE <<>>
             fill  == Run(IF has("FZERO") THEN "0" ELSE " ", left)
             o1 == PutBytes(o, space, d)
             o2 == PutWhole(o1, fill, d)
             o3 == PutBytes(o2, prefix, d)
             o4 == PutWhole(o3, Run("0", zeros), d)
             o5 == PutDigits(o4, num, d)
             o6 == PutWhole(o5, Run(" ", right), d)
  <1>1. Digit(o, n, f, d) = o6
    BY DEF Digit
  <1>2. Word(num) /\ Len(num) \in Nat \ {0}
    BY SpelledWord
  <1> HIDE DEF num
  <1>3. zeros \in Nat /\ left \in Nat /\ right \in Nat
    <2>1. pad \in Nat
      <3>1. Excess(f.width, Len(num)) \in Int /\ Excess(f.presiction, Len(num)) \in Int
        BY <1>2 DEF Excess
      <3> QED BY <3>1, MonusTyped DEF Padding
    <2>2. zeros \in Nat
      BY <1>2, MonusTyped
    <2> HIDE DEF pad, zeros
    <2>3. left \in {0, pad}
      OBVIOUS
    <2>4. left \in Nat
      BY <2>1, <2>3
    <2>5. pad - left \in Nat
      <3> HIDE DEF left
      <3> QED BY <2>1, <2>3
    <2> QED BY <2>2, <2>4, <2>5
  <1>4. Word(space) /\ Word(fill) /\ Word(Run("0", zeros)) /\ Word(Run(" ", right))
    <2> HIDE DEF zeros, left, right
    <2> QED BY <1>3, EmptyWord, OneIsWord, RunIsWord
  <1>5. Word(prefix)
    <2>1. Word(<<"0", "x">>) /\ Word(<<"0", "X">>)
      <3>1. <<"0", "x">> = <<"0">> \o <<"x">> /\ <<"0", "X">> = <<"0">> \o <<"X">>
        OBVIOUS
      <3>2. Word(<<"0">> \o <<"x">>) /\ Word(<<"0">> \o <<"X">>)
        BY OneIsWord, JoinedWord
      <3> QED BY <3>1, <3>2
    <2>2. Word(<<"+">>) /\ Word(<<"0">>) /\ Word(<<>>)
      BY OneIsWord, EmptyWord
    <2>3. prefix \in {<<"0", "x">>, <<"0", "X">>, <<"+">>, <<"0">>, <<>>}
      OBVIOUS
    <2> HIDE DEF prefix
    <2> QED BY <2>1, <2>2, <2>3
  <1> HIDE DEF zeros, left, right, prefix, space, fill
  <1>6. Grown(o, o1, d)
    BY <1>4, WritersGrow
  <1> HIDE DEF o1
  <1>7. Grown(o1, o2, d)
    BY <1>4, <1>6, WritersGrow DEF Grown
  <1> HIDE DEF o2
  <1>8. Grown(o2, o3, d)
    BY <1>5, <1>7, WritersGrow DEF Grown
  <1> HIDE DEF o3
  <1>9. Grown(o3, o4, d)
    BY <1>4, <1>8, WritersGrow DEF Grown
  <1> HIDE DEF o4
  <1>10. Grown(o4, o5, d) /\ (Len(o4) < d => Len(o4) < Len(o5))
    BY <1>2, <1>9, WritersGrow DEF Grown
  <1> HIDE DEF o5
  <1>11. Grown(o5, o6, d)
    BY <1>4, <1>10, WritersGrow DEF Grown
  <1> HIDE DEF o6
  <1>12. Len(o) \in Nat
    BY JoinedWord
  <1> QED BY <1>1, <1>6, <1>7, <1>8, <1>9, <1>10, <1>11, <1>12 DEF Grown

(* The "%s" part keeps to the limit. *)
LEMMA CopyStringGrows ==
  ASSUME NEW o, NEW s, NEW f, NEW d \in Nat, Word(o), Word(s), Len(o) <= d,
         f.width \in Int, f.presiction \in Int
  PROVE  Grown(o, CopyString(o, s, f, d), d)
  <1> DEFINE len  == IF Len(s) < f.presiction THEN f.presiction ELSE Len(s)
             more == [i \in 1 .. len - Len(s) |-> IF i = 1 THEN NUL ELSE "?"]
             read == s \o more
             pad  == Run(" ", Monus(f.width, len))
  <1>1. Len(s) \in Nat /\ len \in Nat /\ len - Len(s) \in Nat
    <2>1. Len(s) \in Nat
      BY JoinedWord
    <2> QED BY <2>1
  <1>2. Word(more)
    <2> PICK m \in Nat : m = len - Len(s)
      BY <1>1
    <2>1. [i \in 1 .. m |-> IF i = 1 THEN NUL ELSE "?"] \in Seq({NUL, "?"})
      OBVIOUS
    <2>2. Word([i \in 1 .. m |-> IF i = 1 THEN NUL ELSE "?"])
      BY <2>1, WordOf
    <2> QED BY <2>2
  <1> HIDE DEF more
  <1>3. Word(read)
    BY <1>2, JoinedWord
  <1>4. Word(pad)
    BY <1>1, MonusTyped, RunIsWord
  <1>5. CopyString(o, s, f, d) = IF "FLJ" \in f.flags
                                THEN PutWhole(PutWhole(o, read, d), pad, d)
                                ELSE PutWhole(PutWhole(o, pad, d), read, d)
    BY DEF CopyString, more
  <1> HIDE DEF read, pad, len
  <1>6. /\ Grown(o, PutWhole(o, read, d), d) /\ Grown(o, PutWhole(o, pad, d), d)
    BY <1>3, <1>4, WritersGrow
  <1>7. /\ Grown(PutWhole(o, read, d), PutWhole(PutWhole(o, read, d), pad, d), d)
        /\ Grown(PutWhole(o, pad, d), PutWhole(PutWhole(o, pad, d), read, d), d)
    BY <1>3, <1>4, <1>6, WritersGrow DEF Grown
  <1> QED BY <1>1, <1>5, <1>6, <1>7, JoinedWord DEF Grown

-----------------------------------------------------------------------------
(* The state machine *)

Attrs == [width : Int, presiction : Int, cinf : Nat \cup {-1},
          flags : SUBSET (FMask \cup LMask \cup {"DOT"})]

Typed ==
  /\ caller \in {"none", "kprintf", "returned", "panic", "panicked", "halted",
                 "wild"}
  /\ fmt \in Seq(STRING) /\ pos \in 1 .. Len(fmt) + 1 /\ pers \in BOOLEAN
  /\ fa \in Attrs /\ ret \in Nat \cup {Running} /\ isEnabled \in BOOLEAN
  /\ dsize \in Nat /\ Word(dest) /\ \A s \in texts : Word(s)

(* A rejected conversion is found again by stepping back over the          *)
(* characters counted since its '%': there are as many.                    *)
CanStepBack == fa.cinf < pos /\ (pers => fa.cinf + 1 < pos)

IInv == Typed /\ CanStepBack /\ WithinLimit

(* A call begins with a format, an empty buffer and no attributes.         *)
LEMMA StartKeeps ==
  ASSUME NEW who \in {"none", "kprintf", "panic", "panicked"}, NEW its,
         Format(its) \in Seq(STRING), NEW limit \in Nat, NEW strings,
         \A s \in strings : Word(s), Start(who, its, limit, strings),
         isEnabled' \in BOOLEAN
  PROVE  IInv'
  <1>1. /\ caller' = who /\ fmt' = Format(its) /\ pos' = 1 /\ pers' = FALSE
        /\ fa' = NoAttrs /\ ret' = Running /\ dsize' = limit /\ dest' = <<>>
        /\ texts' = strings
    BY DEF Start
  <1>2. NoAttrs \in Attrs /\ NoAttrs.cinf = 0
    BY DEF NoAttrs, Attrs
  <1>3. Word(dest')
    BY <1>1, EmptyWord
  <1>4. Word(dest)'
    BY <1>3 DEF Word
  <1>5. (\A s \in texts : Word(s))'
    BY <1>1 DEF Word
  <1>6. Len(Format(its)) \in Nat
    OBVIOUS
  <1>7. Typed'
    <2>1. caller' \in {"none", "kprintf", "returned", "panic", "panicked", "halted",
                    "wild"}
      BY <1>1
    <2>2. fmt' \in Seq(STRING)
      BY <1>1
    <2>3. (pos \in 1 .. Len(fmt) + 1)'
      <3> PICK m \in Nat : m = Len(fmt')
        BY <1>1, <1>6
      <3> QED BY <1>1
    <2>4. pers' \in BOOLEAN /\ fa' \in Attrs /\ ret' \in Nat \cup {Running} /\ dsize' \in Nat
      BY <1>1, <1>2
    <2> QED BY <1>4, <1>5, <2>1, <2>2, <2>3, <2>4 DEF Typed
  <1>8. CanStepBack' /\ WithinLimit'
    BY <1>1, <1>2, EmptyWord DEF CanStepBack, WithinLimit
  <1> QED BY <1>7, <1>8 DEF IInv

(* The texts that the constants give are sequences. *)
LEMMA GivenTexts ==
  /\ \A s \in Texts \cup Junk : Word(s)
  /\ Format(<<>>) \in Seq(STRING)
  <1>1. \A s \in Texts \cup Junk : Word(s)
    BY SizesAssumption, WordOf
  <1>2. [i \in DOMAIN <<>> |-> Written(<<>>[i])] = <<>>
    OBVIOUS
  <1>3. Format(<<>>) = FlattenSeq(<<>>)
    BY <1>2 DEF Format
  <1>4. FlattenSeq(<<>>) = <<>>
    <2>1. Len(<<>>) = 0
      OBVIOUS
    <2> QED BY <2>1 DEF FlattenSeq
  <1>5. Format(<<>>) \in Seq(STRING)
    <2>1. <<>> \in Seq(STRING)
      OBVIOUS
    <2> QED BY <1>3, <1>4, <2>1
  <1> QED BY <1>1, <1>5

(* The machine begins between two calls. *)
LEMMA InitIInv == Init => IInv
  <1> SUFFICES ASSUME Init PROVE IInv
    OBVIOUS
  <1>1. NoAttrs \in Attrs /\ NoAttrs.cinf = 0
    BY DEF NoAttrs, Attrs
  <1>2. VsprintfSize \in Nat
    BY SizesAssumption
  <1>3. <<>> \in Seq(STRING) /\ Len(<<>>) = 0
    OBVIOUS
  <1>4. Typed
    <2>1. pos \in 1 .. Len(fmt) + 1
      BY <1>3 DEF Init
    <2>2. \A s \in texts : Word(s)
      BY GivenTexts DEF Init
    <2>3. Word(dest)
      BY EmptyWord DEF Init
    <2>4. fmt \in Seq(STRING)
      BY <1>3 DEF Init
    <2>5. /\ caller \in {"none", "kprintf", "returned", "panic", "panicked", "halted",
                    "wild"}
          /\ pers \in BOOLEAN /\ fa \in Attrs /\ ret \in Nat \cup {Running}
          /\ isEnabled \in BOOLEAN /\ dsize \in Nat
      BY <1>1, <1>2 DEF Init
    <2> QED BY <2>1, <2>2, <2>3, <2>4, <2>5 DEF Typed
  <1>5. CanStepBack /\ WithinLimit
    BY <1>1, <1>2, <1>3 DEF Init, CanStepBack, WithinLimit
  <1> QED BY <1>4, <1>5 DEF IInv

(* What the loop looks at while it runs. *)
LEMMA InFormatFacts ==
  ASSUME IInv, InFormat
  PROVE  /\ pos \in Nat /\ pos > 0 /\ pos <= Len(fmt) /\ Len(fmt) \in Nat /\ ret = Running
         /\ Counted \in Attrs /\ Counted.cinf = fa.cinf + 1 /\ fa.cinf \in Int /\ fa.cinf >= -1
         /\ Counted.width = fa.width /\ Counted.presiction = fa.presiction
         /\ Counted.flags = fa.flags /\ fa \in Attrs
  BY DEF IInv, Typed, InFormat, Parsing, Counted, Attrs

(* A character of a conversion is taken in, with one or two steps ahead.   *)
LEMMA GoOnKeeps ==
  ASSUME IInv, InConversion, NEW attrs \in Attrs, attrs.cinf <= fa.cinf + 1,
         NEW n \in {1, 2}, pos + n <= Len(fmt) + 1,
         fa' = attrs, pers' = TRUE, pos' = pos + n,
         UNCHANGED <<fmt, dest, ret, callVars>>
  PROVE  IInv'
  <1>1. /\ pos \in Nat /\ pos > 0 /\ Len(fmt) \in Nat /\ fa.cinf \in Int /\ fa.cinf >= -1 /\ attrs.cinf \in Int
    BY InFormatFacts DEF InConversion, Attrs
  <1>2. UNCHANGED <<caller, texts, dsize, isEnabled>>
    BY DEF callVars
  <1>3. Word(dest)' /\ (\A s \in texts : Word(s))'
    BY <1>2 DEF IInv, Typed, Word
  <1>4. Typed'
    BY <1>1, <1>2, <1>3 DEF IInv, Typed
  <1>5. CanStepBack' /\ WithinLimit'
    BY <1>1, <1>2 DEF IInv, CanStepBack, WithinLimit, InConversion
  <1> QED BY <1>4, <1>5 DEF IInv

(* A digit has a value. *)
LEMMA DigitsTyped == \A c \in DOMAIN DigitValue : DigitValue[c] \in Nat
  <1> DEFINE digits == <<"0","1","2","3","4","5","6","7","8","9">>
             D == {"0","1","2","3","4","5","6","7","8","9"}
  <1>1. \A c \in D : \E n \in 0 .. 9 : c = digits[n + 1]
    <2>1. /\ digits[0 + 1] = "0" /\ digits[1 + 1] = "1" /\ digits[2 + 1] = "2"
          /\ digits[3 + 1] = "3" /\ digits[4 + 1] = "4" /\ digits[5 + 1] = "5"
          /\ digits[6 + 1] = "6" /\ digits[7 + 1] = "7" /\ digits[8 + 1] = "8"
          /\ digits[9 + 1] = "9"
      OBVIOUS
    <2> HIDE DEF digits
    <2>2. \A n \in 0 .. 9 : n \in Nat
      OBVIOUS
    <2>3. {0, 1, 2, 3, 4, 5, 6, 7, 8, 9} \subseteq 0 .. 9
      OBVIOUS
    <2> QED BY <2>1, <2>3
  <1>2. DOMAIN DigitValue = D /\ \A c \in D :
          DigitValue[c] = CHOOSE n \in 0 .. 9 : c = digits[n + 1]
    BY DEF DigitValue
  <1> HIDE DEF digits, D
  <1>3. \A c \in D : (CHOOSE n \in 0 .. 9 : c = digits[n + 1]) \in 0 .. 9
    BY <1>1
  <1>4. 0 .. 9 \subseteq Nat
    OBVIOUS
  <1>5. ASSUME NEW c \in D PROVE DigitValue[c] \in 0 .. 9
    <2> PICK d : d = CHOOSE n \in 0 .. 9 : c = digits[n + 1]
      OBVIOUS
    <2>1. DigitValue[c] = d
      BY <1>2
    <2>2. d \in 0 .. 9
      BY <1>3
    <2> QED BY ONLY <2>1, <2>2
  <1> QED BY <1>2, <1>4, <1>5

(* The characters of a conversion that write nothing. *)
LEMMA AttributesKeep ==
  ASSUME IInv, PresictionDigit \/ WidthDigit \/ Flag \/ Dot \/ Length \/ Star
  PROVE  IInv'
  <1>0. InConversion /\ InFormat
    BY DEF PresictionDigit, WidthDigit, Flag, Dot, Length, Star, InConversion
  <1>1. /\ pos \in Nat /\ pos > 0 /\ pos <= Len(fmt) /\ Len(fmt) \in Nat
        /\ Counted \in Attrs /\ Counted.cinf = fa.cinf + 1 /\ fa.cinf \in Int /\ fa.cinf >= -1
        /\ Counted.width = fa.width /\ Counted.presiction = fa.presiction
        /\ Counted.flags = fa.flags /\ fa \in Attrs
    BY <1>0, InFormatFacts
  <1>2. ASSUME NEW attrs \in Attrs, attrs.cinf <= fa.cinf + 1, NEW n \in {1, 2},
               pos + n <= Len(fmt) + 1, GoOn(attrs, n)
        PROVE  IInv'
    BY <1>0, <1>2, GoOnKeeps DEF GoOn
  <1>3. pos + 1 <= Len(fmt) + 1
    BY <1>1
  <1>4. /\ \A x \in Int : /\ [Counted EXCEPT !.presiction = x] \in Attrs
                          /\ [Counted EXCEPT !.presiction = x].cinf = fa.cinf + 1
                          /\ [Counted EXCEPT !.width = x] \in Attrs
                          /\ [Counted EXCEPT !.width = x].cinf = fa.cinf + 1
        /\ \A F \in SUBSET (FMask \cup LMask \cup {"DOT"}) :
             /\ [Counted EXCEPT !.flags = F] \in Attrs
             /\ [Counted EXCEPT !.flags = F].cinf = fa.cinf + 1
        /\ fa.width \in Int /\ fa.presiction \in Int
        /\ fa.flags \in SUBSET (FMask \cup LMask \cup {"DOT"})
    <2> PICK c \in Attrs : c = Counted
      BY <1>1
    <2>1. \A x \in Int : /\ [c EXCEPT !.presiction = x] \in Attrs
                         /\ [c EXCEPT !.presiction = x].cinf = c.cinf
                         /\ [c EXCEPT !.width = x] \in Attrs
                         /\ [c EXCEPT !.width = x].cinf = c.cinf
      BY DEF Attrs
    <2>2. \A F \in SUBSET (FMask \cup LMask \cup {"DOT"}) :
            /\ [c EXCEPT !.flags = F] \in Attrs
            /\ [c EXCEPT !.flags = F].cinf = c.cinf
      BY DEF Attrs
    <2>3. /\ fa.width \in Int /\ fa.presiction \in Int
          /\ fa.flags \in SUBSET (FMask \cup LMask \cup {"DOT"})
      BY <1>1 DEF Attrs
    <2> QED BY <1>1, <2>1, <2>2, <2>3
  <1>5. CASE PresictionDigit
    <2> PICK x : x = fa.presiction * 10 + DigitValue[Char]
      OBVIOUS
    <2>1. x \in Int
      BY <1>4, <1>5, DigitsTyped DEF PresictionDigit, IsDigit
    <2>2. GoOn([Counted EXCEPT !.presiction = x], 1)
      BY <1>1, <1>5 DEF PresictionDigit
    <2> PICK attrs : attrs = [Counted EXCEPT !.presiction = x]
      OBVIOUS
    <2>3. attrs \in Attrs /\ attrs.cinf = fa.cinf + 1
      BY <1>4, <2>1
    <2>4. attrs.cinf <= fa.cinf + 1
      BY <1>1, <2>3
    <2>5. GoOn(attrs, 1)
      BY <2>2
    <2> QED BY <1>2, <1>3, <2>3, <2>4, <2>5
  <1>6. CASE WidthDigit
    <2> PICK x : x = fa.width * 10 + DigitValue[Char]
      OBVIOUS
    <2>1. x \in Int
      BY <1>4, <1>6, DigitsTyped DEF WidthDigit, IsDigit
    <2>2. GoOn([Counted EXCEPT !.width = x], 1)
      BY <1>1, <1>6 DEF WidthDigit
    <2> PICK attrs : attrs = [Counted EXCEPT !.width = x]
      OBVIOUS
    <2>3. attrs \in Attrs /\ attrs.cinf = fa.cinf + 1
      BY <1>4, <2>1
    <2>4. attrs.cinf <= fa.cinf + 1
      BY <1>1, <2>3
    <2>5. GoOn(attrs, 1)
      BY <2>2
    <2> QED BY <1>2, <1>3, <2>3, <2>4, <2>5
  <1>7. CASE Flag
    <2> PICK F : F = FlagsWith
      OBVIOUS
    <2>1. Char \in {"0", "#", "+", "-", " "}
      BY <1>7 DEF Flag, FlagAllowed
    <2>2. F \in SUBSET (FMask \cup LMask \cup {"DOT"})
      BY <1>4, <2>1 DEF FlagsWith, FMask
    <2>3. GoOn([Counted EXCEPT !.flags = F], 1)
      BY <1>7 DEF Flag
    <2> PICK attrs : attrs = [Counted EXCEPT !.flags = F]
      OBVIOUS
    <2>6. attrs \in Attrs /\ attrs.cinf = fa.cinf + 1
      BY <1>4, <2>2
    <2>7. attrs.cinf <= fa.cinf + 1
      BY <1>1, <2>6
    <2>8. GoOn(attrs, 1)
      BY <2>3
    <2> QED BY <1>2, <1>3, <2>6, <2>7, <2>8
  <1>8. CASE Dot
    <2> PICK F : F = (fa.flags \ {"FZERO"}) \cup {"DOT"}
      OBVIOUS
    <2>1. F \in SUBSET (FMask \cup LMask \cup {"DOT"})
      BY <1>4
    <2>2. GoOn([Counted EXCEPT !.flags = F], 1)
      BY <1>1, <1>8 DEF Dot
    <2> PICK attrs : attrs = [Counted EXCEPT !.flags = F]
      OBVIOUS
    <2>6. attrs \in Attrs /\ attrs.cinf = fa.cinf + 1
      BY <1>4, <2>1
    <2>7. attrs.cinf <= fa.cinf + 1
      BY <1>1, <2>6
    <2>8. GoOn(attrs, 1)
      BY <2>2
    <2> QED BY <1>2, <1>3, <2>6, <2>7, <2>8
  <1>9. CASE Length
    <2> DEFINE flag == CASE Char = "h" -> IF LetterTwice THEN "LCHAR" ELSE "LSHORT"
                         [] Char = "l" -> IF LetterTwice THEN "LDLONG" ELSE "LLONG"
                         [] Char = "z" -> "LSIZET"
    <2> PICK F, n : F = fa.flags \cup {flag} /\ n = IF LetterTwice THEN 2 ELSE 1
      OBVIOUS
    <2>1. Char \in {"h", "l", "z"} /\ GoOn([Counted EXCEPT !.flags = F], n)
      BY <1>1, <1>9 DEF Length
    <2>2. flag \in LMask
      BY <2>1 DEF LMask
    <2>3. F \in SUBSET (FMask \cup LMask \cup {"DOT"})
      BY <1>4, <2>2
    <2>4. LetterTwice => pos < Len(fmt)
      BY <2>1 DEF LetterTwice, Following, NUL
    <2>5. n \in {1, 2} /\ pos + n <= Len(fmt) + 1
      BY <1>1, <2>4
    <2> PICK attrs : attrs = [Counted EXCEPT !.flags = F]
      OBVIOUS
    <2>6. attrs \in Attrs /\ attrs.cinf = fa.cinf + 1
      BY <1>4, <2>3
    <2>7. attrs.cinf <= fa.cinf + 1
      BY <1>1, <2>6
    <2>8. GoOn(attrs, n)
      BY <2>1
    <2> QED BY <1>2, <2>5, <2>6, <2>7, <2>8
  <1>10. CASE Star
    <2> PICK v \in StarWidths :
           fa' = IF HasDot THEN [fa EXCEPT !.presiction = v, !.cinf = Sign(v)]
                 ELSE [Counted EXCEPT !.width = v, !.presiction = Sign(v)]
      BY <1>10 DEF Star
    <2> PICK g \in {-1, 0} : g = Sign(v)
      BY DEF Sign
    <2>0. g \in Nat \cup {-1} /\ g <= fa.cinf + 1
      BY <1>1
    <2>1. v \in Int
      BY SizesAssumption
    <2> PICK b \in Attrs, c \in Attrs : b = fa /\ c = Counted
      BY <1>1
    <2>2. /\ [b EXCEPT !.presiction = v, !.cinf = g] \in Attrs
          /\ [b EXCEPT !.presiction = v, !.cinf = g].cinf = g
          /\ [c EXCEPT !.width = v, !.presiction = g] \in Attrs
          /\ [c EXCEPT !.width = v, !.presiction = g].cinf = c.cinf
      <3>1. ASSUME NEW z \in Nat \cup {-1}, NEW h \in Int
            PROVE  /\ [b EXCEPT !.presiction = v, !.cinf = z] \in Attrs
                   /\ [b EXCEPT !.presiction = v, !.cinf = z].cinf = z
                   /\ [c EXCEPT !.width = v, !.presiction = h] \in Attrs
                   /\ [c EXCEPT !.width = v, !.presiction = h].cinf = c.cinf
        BY <2>1 DEF Attrs
      <3>2. g \in Int
        OBVIOUS
      <3> QED BY <2>0, <3>1, <3>2
    <2>3. fa' \in Attrs /\ fa'.cinf <= fa.cinf + 1
      BY <1>1, <2>0, <2>2
    <2> PICK attrs \in Attrs : attrs = fa'
      BY <2>3
    <2>4. /\ pers' = TRUE /\ pos' = pos + 1 /\ UNCHANGED <<fmt, dest, ret, callVars>>
      BY <1>10 DEF Star
    <2> QED BY <1>0, <1>3, <2>3, <2>4, GoOnKeeps
  <1> QED BY <1>5, <1>6, <1>7, <1>8, <1>9, <1>10

(* A '%' is seen. *)
LEMMA PercentKeeps ==
  ASSUME IInv, Percent
  PROVE  IInv'
  <1>1. /\ pos \in Nat /\ pos > 0 /\ pos <= Len(fmt) /\ Len(fmt) \in Nat /\ fa.cinf \in Int /\ fa.cinf >= -1
    BY InFormatFacts DEF Percent
  <1>2. UNCHANGED <<caller, texts, dsize, isEnabled, fmt, fa, dest, ret>>
    BY DEF Percent, callVars
  <1>3. pers' = TRUE /\ pos' = pos + 1
    BY DEF Percent
  <1>4. Word(dest)' /\ (\A s \in texts : Word(s))'
    BY <1>2 DEF IInv, Typed, Word
  <1>5. Typed'
    BY <1>1, <1>2, <1>3, <1>4 DEF IInv, Typed
  <1>6. CanStepBack' /\ WithinLimit'
    BY <1>1, <1>2, <1>3 DEF IInv, CanStepBack, WithinLimit
  <1> QED BY <1>5, <1>6 DEF IInv

(* The loop is left: at the end of the format, or at a digit behind a      *)
(* length modifier.                                                        *)
LEMMA LeavingKeeps ==
  ASSUME IInv, EndOfFormat \/ DigitAfterLength
  PROVE  IInv'
  <1>1. /\ UNCHANGED <<caller, texts, dsize, isEnabled, fmt, pos, dest>>
        /\ ret' = Len(dest)
    BY DEF EndOfFormat, DigitAfterLength, callVars
  <1>2. Word(dest)' /\ (\A s \in texts : Word(s))'
    BY <1>1 DEF IInv, Typed, Word
  <1>3. Len(dest) \in Nat
    BY JoinedWord DEF IInv, Typed
  <1>4. /\ pers' \in BOOLEAN /\ fa' \in Attrs /\ CanStepBack'
    <2>1. CASE EndOfFormat
      <3>1. UNCHANGED <<pos, pers, fa>>
        BY <2>1 DEF EndOfFormat
      <3> QED BY <3>1 DEF IInv, Typed, CanStepBack
    <2>2. CASE DigitAfterLength
      <3>1. pers' = FALSE /\ fa' = Counted /\ pos' = pos /\ pers
        BY <2>2 DEF DigitAfterLength, InConversion
      <3>2. Counted \in Attrs /\ Counted.cinf = fa.cinf + 1
        BY <2>2, InFormatFacts DEF DigitAfterLength, InConversion
      <3> QED BY <3>1, <3>2 DEF IInv, CanStepBack
    <2> QED BY <2>1, <2>2
  <1>5. Typed'
    BY <1>1, <1>2, <1>3, <1>4 DEF IInv, Typed
  <1>6. WithinLimit'
    BY <1>1 DEF IInv, WithinLimit
  <1> QED BY <1>4, <1>5, <1>6 DEF IInv

(* A conversion that writes within the limit, and gives up only with the   *)
(* buffer full, keeps the invariant.                                       *)
LEMMA ConvertedKeeps ==
  ASSUME IInv, InConversion, NEW arg, NEW out, NEW r, Grown(dest, out, dsize),
         r = Running \/ (r = dsize /\ Len(out) = dsize), Converted(arg, out, r)
  PROVE  IInv'
  <1>1. /\ pos \in Nat /\ pos > 0 /\ pos <= Len(fmt) /\ Len(fmt) \in Nat /\ fa.cinf \in Int /\ fa.cinf >= -1
        /\ Counted \in Attrs /\ Counted.cinf = fa.cinf + 1
    BY InFormatFacts DEF InConversion
  <1>2. UNCHANGED <<caller, texts, dsize, isEnabled, fmt>>
    BY DEF Converted, callVars
  <1>3. dest' = out /\ ret' = r /\ pers' = FALSE /\ pers
    BY DEF Converted, InConversion
  <1>4. Word(dest)' /\ (\A s \in texts : Word(s))'
    BY <1>2, <1>3 DEF IInv, Typed, Word, Grown
  <1>5. NoAttrs \in Attrs /\ NoAttrs.cinf = 0
    BY DEF NoAttrs, Attrs
  <1>6. \/ fa' = NoAttrs /\ pos' = pos + 1
        \/ fa' = Counted /\ pos' = pos
    BY DEF Converted
  <1>7. fa' \in Attrs /\ pos' \in 1 .. Len(fmt) + 1 /\ fa'.cinf < pos'
    BY <1>1, <1>3, <1>5, <1>6 DEF IInv, CanStepBack
  <1>8. dsize \in Nat /\ ret' \in Nat \cup {Running}
    BY <1>3 DEF IInv, Typed
  <1>9. Typed'
    BY <1>2, <1>3, <1>4, <1>7, <1>8 DEF IInv, Typed
  <1>10. CanStepBack'
    BY <1>3, <1>7 DEF CanStepBack
  <1>11. WithinLimit'
    <2>1. Len(out) <= dsize
      BY DEF Grown
    <2> QED BY <1>2, <1>3, <2>1 DEF WithinLimit
  <1> QED BY <1>9, <1>10, <1>11 DEF IInv

(* "%d" and its like give up only when not a byte was written, and then    *)
(* the buffer was full.                                                    *)
LEMMA ConvertNumberKeeps ==
  ASSUME IInv, ConvertNumber
  PROVE  IInv'
  <1> PICK v \in Slots :
         LET flags == fa.flags \cup ConversionFlags[Char]
             out   == Digit(dest, IdentNumSize(v, flags), [fa EXCEPT !.flags = flags], dsize)
         IN  Converted(v, out, IF out = dest THEN dsize ELSE Running)
    BY DEF ConvertNumber
  <1> PICK n, F : F = fa.flags \cup ConversionFlags[Char] /\ n = IdentNumSize(v, F)
    OBVIOUS
  <1> PICK f : f = [fa EXCEPT !.flags = F]
    OBVIOUS
  <1> PICK out : out = Digit(dest, n, f, dsize)
    OBVIOUS
  <1>1. Converted(v, out, IF out = dest THEN dsize ELSE Running)
    OBVIOUS
  <1>2. InConversion /\ InFormat
    BY DEF ConvertNumber, InConversion
  <1>3. f.width \in Int /\ f.presiction \in Int
    <2>1. fa \in Attrs
      BY DEF IInv, Typed
    <2> QED BY <2>1 DEF Attrs
  <1>4. dsize \in Nat /\ Word(dest) /\ Len(dest) <= dsize
    BY DEF IInv, Typed, WithinLimit
  <1>5. Grown(dest, out, dsize) /\ (Len(dest) < dsize => Len(dest) < Len(out))
    BY <1>3, <1>4, DigitGrows
  <1>6. out = dest => Len(out) = dsize
    <2>1. Len(dest) \in Nat
      BY <1>4, JoinedWord
    <2> QED BY <1>4, <1>5, <2>1
  <1> PICK r : r = IF out = dest THEN dsize ELSE Running
    OBVIOUS
  <1>7. r = Running \/ (r = dsize /\ Len(out) = dsize)
    BY <1>6
  <1>8. Converted(v, out, r)
    BY <1>1
  <1> QED BY <1>2, <1>5, <1>7, <1>8, ConvertedKeeps

(* "%s" *)
LEMMA ConvertStringKeeps ==
  ASSUME IInv, ConvertString
  PROVE  IInv'
  <1> PICK s \in texts : Converted(s, CopyString(dest, s, fa, dsize), Running)
    BY DEF ConvertString
  <1>1. fa.width \in Int /\ fa.presiction \in Int
    BY DEF IInv, Typed, Attrs
  <1>2. dsize \in Nat /\ Word(dest) /\ Len(dest) <= dsize /\ Word(s)
    BY DEF IInv, Typed, WithinLimit
  <1>3. Grown(dest, CopyString(dest, s, fa, dsize), dsize)
    BY <1>1, <1>2, CopyStringGrows
  <1>4. InConversion
    BY DEF ConvertString
  <1> QED BY <1>3, <1>4, ConvertedKeeps

(* "%c" *)
LEMMA ConvertCharKeeps ==
  ASSUME IInv, ConvertChar
  PROVE  IInv'
  <1> DEFINE pad == Run(" ", Monus(fa.width, 1))
             fl  == "FLJ" \in fa.flags
             o1  == IF fl THEN dest ELSE PutWhole(dest, pad, dsize)
             o2  == Append(o1, "c")
  <1>1. /\ InConversion
        /\ IF Len(o1) = dsize THEN Converted("c", o1, dsize)
           ELSE Converted("c", IF fl THEN PutWhole(o2, pad, dsize) ELSE o2, Running)
    BY DEF ConvertChar
  <1>2. fa.width \in Int
    BY DEF IInv, Typed, Attrs
  <1>3. dsize \in Nat /\ Word(dest) /\ Len(dest) <= dsize /\ Len(dest) \in Nat
    BY JoinedWord DEF IInv, Typed, WithinLimit
  <1>4. Word(pad)
    <2> PICK k : k = Monus(fa.width, 1)
      OBVIOUS
    <2>1. k \in Nat
      BY <1>2, MonusTyped
    <2> QED BY <2>1, RunIsWord
  <1> HIDE DEF pad
  <1>5. Grown(dest, o1, dsize)
    <2>1. Grown(dest, PutWhole(dest, pad, dsize), dsize)
      BY <1>3, <1>4, WritersGrow
    <2> QED BY <1>3, <2>1 DEF Grown
  <1> HIDE DEF o1, fl
  <1>6. Word(o1) /\ Len(o1) \in Nat /\ Len(dest) <= Len(o1) /\ Len(o1) <= dsize
    BY <1>5 DEF Grown
  <1>7. Word(o2) /\ Len(o2) = Len(o1) + 1
    <2> PICK S : o1 \in Seq(S)
      BY <1>6 DEF Word
    <2>1. o2 = o1 \o <<"c">>
      OBVIOUS
    <2> QED BY <1>6, <2>1, OneIsWord, JoinedWord
  <1> HIDE DEF o2
  <1>8. CASE Len(o1) = dsize
    BY <1>1, <1>5, <1>8, ConvertedKeeps
  <1>9. CASE Len(o1) # dsize
    <2>1. Grown(dest, o2, dsize)
      BY <1>3, <1>6, <1>7, <1>9 DEF Grown
    <2>2. Grown(o2, PutWhole(o2, pad, dsize), dsize)
      BY <1>3, <1>4, <1>7, <2>1, WritersGrow DEF Grown
    <2>3. Grown(dest, PutWhole(o2, pad, dsize), dsize)
      BY <1>3, <2>1, <2>2 DEF Grown
    <2> PICK out : out = IF fl THEN PutWhole(o2, pad, dsize) ELSE o2
      OBVIOUS
    <2>4. Grown(dest, out, dsize) /\ Converted("c", out, Running)
      BY <1>1, <1>9, <2>1, <2>3
    <2> QED BY <1>1, <2>4, ConvertedKeeps
  <1> QED BY <1>8, <1>9

(* A character is copied, or a rejected conversion from its '%' on. *)
LEMMA CopyCharacterKeeps ==
  ASSUME IInv, CopyCharacter
  PROVE  IInv'
  <1>1. /\ pos \in Nat /\ pos > 0 /\ pos <= Len(fmt) /\ Len(fmt) \in Nat /\ fa.cinf \in Int /\ fa.cinf >= -1
        /\ Counted.cinf = fa.cinf + 1
    BY InFormatFacts DEF CopyCharacter
  <1>2. UNCHANGED <<caller, texts, dsize, isEnabled, fmt>>
    BY DEF CopyCharacter, callVars
  <1>3. pers' = (pers /\ IsDigit(Char))
    BY DEF CopyCharacter
  <1>4. pers' \in BOOLEAN
    BY <1>3 DEF IInv, Typed
  <1>5. dsize \in Nat /\ Word(dest) /\ Len(dest) <= dsize
    BY DEF IInv, Typed, WithinLimit
  <1>6. (\A s \in texts : Word(s))'
    BY <1>2 DEF IInv, Typed, Word
  <1>7. ASSUME Full PROVE IInv'
    <2>1. ret' = dsize /\ UNCHANGED <<pos, fa, dest>>
      BY <1>7 DEF CopyCharacter
    <2>2. Len(dest) = dsize
      BY <1>7 DEF Full
    <2>3. Word(dest)'
      BY <1>5, <2>1 DEF Word
    <2>4. Typed'
      BY <1>2, <1>4, <1>5, <1>6, <2>1, <2>3 DEF IInv, Typed
    <2>5. CanStepBack'
      BY <1>3, <2>1 DEF IInv, CanStepBack
    <2>6. WithinLimit'
      BY <1>2, <1>5, <2>1, <2>2 DEF WithinLimit
    <2> QED BY <2>4, <2>5, <2>6 DEF IInv
  <1>8. ASSUME ~Full PROVE IInv'
    <2> PICK b : b = BackTo
      OBVIOUS
    <2>1. b \in Nat /\ b > 0 /\ b <= pos
      <3>1. b = pos \/ (pers /\ b = pos - Counted.cinf)
        BY DEF BackTo
      <3>2. b = pos \/ (fa.cinf + 1 < pos /\ b = pos - (fa.cinf + 1))
        BY <1>1, <3>1 DEF IInv, CanStepBack
      <3> QED BY <1>1, <3>2
    <2>2. /\ dest' = PutBytes(dest, <<fmt[b]>>, dsize)
          /\ pos' = b + 1 /\ fa' = NoAttrs /\ ret' = ret
      BY <1>8 DEF CopyCharacter
    <2> PICK c : c = fmt[b]
      OBVIOUS
    <2>3. Grown(dest, PutBytes(dest, <<c>>, dsize), dsize)
      BY <1>5, OneIsWord, WritersGrow
    <2>4. Word(dest)' /\ Len(dest') <= dsize
      BY <2>2, <2>3 DEF Grown, Word
    <2>5. NoAttrs \in Attrs /\ NoAttrs.cinf = 0
      BY DEF NoAttrs, Attrs
    <2>6. pos' \in 1 .. Len(fmt) + 1
      BY <1>1, <2>1, <2>2
    <2>7. Typed'
      BY <1>2, <1>4, <1>5, <1>6, <2>2, <2>4, <2>5, <2>6 DEF IInv, Typed
    <2>8. CanStepBack'
      BY <2>1, <2>2, <2>5 DEF CanStepBack
    <2>9. ret = Running
      BY DEF CopyCharacter, InFormat, Parsing
    <2>10. WithinLimit'
      BY <1>2, <2>2, <2>4, <2>9 DEF WithinLimit
    <2> QED BY <2>7, <2>8, <2>10 DEF IInv
  <1> QED BY <1>7, <1>8

-----------------------------------------------------------------------------
(* The callers *)

(* What stands before the first terminator of a sequence is a sequence. *)
LEMMA UpToNulWord ==
  ASSUME NEW s, Word(s)
  PROVE  Word(UpToNul(s))
  <1> DEFINE I == {i \in 1 .. Len(s) : s[i] = NUL}
  <1>1. Len(s) \in Nat
    BY JoinedWord
  <1>2. CASE I = {}
    <2>1. ~Contains(s, NUL)
      BY <1>2 DEF Contains
    <2> QED BY <2>1 DEF UpToNul
  <1>3. CASE I # {}
    <2>1. Contains(s, NUL)
      BY <1>3 DEF Contains
    <2>2. SelectInSeq(s, LAMBDA c : c = NUL) = CHOOSE x \in I : \A y \in I : x <= y
      BY <1>3 DEF SelectInSeq, Min
    <2>3. I \subseteq Nat
      BY <1>1
    <2> HIDE DEF I
    <2>4. \E x \in I : \A y \in I : ~(<<y, x>> \in OpToRel(<, Nat))
      BY <1>3, <2>3, NatLessThanWellFounded, WFMin
    <2>5. \E x \in I : \A y \in I : x <= y
      <3>1. \A x, y \in Nat : y < x => <<y, x>> \in OpToRel(<, Nat)
        BY DEF OpToRel
      <3>2. PICK x \in I : \A y \in I : ~(<<y, x>> \in OpToRel(<, Nat))
        BY <2>4
      <3>3. \A y \in I : ~(y < x)
        BY <2>3, <3>1, <3>2
      <3>4. \A y \in I : x <= y
        BY <2>3, <3>3
      <3> QED BY <3>4
    <2> PICK k : k = SelectInSeq(s, LAMBDA c : c = NUL)
      OBVIOUS
    <2>6. k \in I
      BY <2>2, <2>5
    <2>7. k \in 1 .. Len(s)
      BY <2>6 DEF I
    <2>8. UpToNul(s) = SubSeq(s, 1, k - 1)
      BY <2>1 DEF UpToNul
    <2>9. k - 1 \in Nat /\ k - 1 <= Len(s)
      BY <1>1, <2>7
    <2>10. Word(SubSeq(s, 1, k - 1))
      <3> PICK m \in Nat : m = k - 1
        BY <2>9
      <3>1. Word(SubSeq(s, 1, m))
        BY <2>9, CutWord
      <3> QED BY <3>1
    <2> QED BY <2>8, <2>10
  <1> QED BY <1>2, <1>3

(* kprintf() and panic() begin, vkprintf() displays and returns, and       *)
(* panic() hands on what its buffer holds up to the first terminator.      *)
LEMMA CallersKeep ==
  ASSUME IInv,
         \/ \E its \in Calls : Kprintf(its) \/ Panic(its)
         \/ DisplayString \/ PanicKprintf \/ Return \/ Smash
  PROVE  IInv'
  <1>0. /\ VsprintfSize \in Nat /\ PanicBufSize \in Nat
        /\ isEnabled \in BOOLEAN /\ (\A s \in Texts : Word(s))
    BY SizesAssumption, GivenTexts DEF IInv, Typed
  <1>1. CASE \E its \in Calls : Kprintf(its) \/ Panic(its)
    <2> PICK its \in Calls : Kprintf(its) \/ Panic(its)
      BY <1>1
    <2>1. Format(its) \in Seq(STRING)
      BY FormatsAssumption
    <2>2. isEnabled' \in BOOLEAN
      BY <1>0 DEF Kprintf, Panic
    <2>3. CASE Kprintf(its)
      <3>1. Start("kprintf", its, VsprintfSize, Texts)
        BY <2>3 DEF Kprintf
      <3> QED BY <1>0, <2>1, <2>2, <3>1, StartKeeps
    <2>4. CASE Panic(its)
      <3>1. Start("panic", its, PanicBufSize, Texts)
        BY <2>4 DEF Panic
      <3> QED BY <1>0, <2>1, <2>2, <3>1, StartKeeps
    <2> QED BY <2>3, <2>4
  <1>2. CASE Return
    <2>1. Start("none", <<>>, VsprintfSize, Texts) /\ isEnabled' \in BOOLEAN
      BY <1>0, <1>2 DEF Return
    <2> QED BY <1>0, <2>1, GivenTexts, StartKeeps
  <1>3. CASE PanicKprintf
    <2> DEFINE strings == {UpToNul(dest \o j) : j \in Junk}
    <2>1. Start("panicked", PanicItems, VsprintfSize, strings) /\ isEnabled' \in BOOLEAN
      BY <1>0, <1>3 DEF PanicKprintf
    <2>2. \A j \in Junk : Word(UpToNul(dest \o j))
      <3> TAKE j \in Junk
      <3>1. Word(dest \o j)
        BY GivenTexts, JoinedWord DEF IInv, Typed
      <3> QED BY <3>1, UpToNulWord
    <2>3. \A s \in strings : Word(s)
      BY <2>2
    <2>4. Format(PanicItems) \in Seq(STRING)
      BY FormatsAssumption
    <2> HIDE DEF strings
    <2> QED BY <1>0, <2>1, <2>3, <2>4, StartKeeps
  <1>4. CASE DisplayString \/ Smash
    <2>1. /\ UNCHANGED <<fmt, pos, pers, fa, dest, ret, texts, dsize, isEnabled>>
          /\ caller' \in {"returned", "halted", "wild"}
      BY <1>4 DEF DisplayString, Smash, parseVars
    <2>2. Word(dest)' /\ (\A s \in texts : Word(s))'
      BY <2>1 DEF IInv, Typed, Word
    <2>3. Typed'
      BY <2>1, <2>2 DEF IInv, Typed
    <2>4. CanStepBack' /\ WithinLimit'
      BY <2>1 DEF IInv, CanStepBack, WithinLimit
    <2> QED BY <2>3, <2>4 DEF IInv
  <1> QED BY <1>1, <1>2, <1>3, <1>4

(* IInv is inductive. *)
LEMMA NextIInv == IInv /\ [Next]_vars => IInv'
  <1> SUFFICES ASSUME IInv, [Next]_vars PROVE IInv'
    OBVIOUS
  <1>1. CASE UNCHANGED vars
    <2>1. UNCHANGED <<caller, fmt, pos, pers, fa, dest, ret, texts, dsize, isEnabled>>
      BY <1>1 DEF vars, parseVars, callVars
    <2>2. Word(dest)' /\ (\A s \in texts : Word(s))'
      BY <2>1 DEF IInv, Typed, Word
    <2>3. Typed'
      BY <2>1, <2>2 DEF IInv, Typed
    <2>4. CanStepBack' /\ WithinLimit'
      BY <2>1 DEF IInv, CanStepBack, WithinLimit
    <2> QED BY <2>3, <2>4 DEF IInv
  <1>2. CASE EndOfFormat \/ DigitAfterLength
    BY <1>2, LeavingKeeps
  <1>3. CASE Percent
    BY <1>3, PercentKeeps
  <1>4. CASE PresictionDigit \/ WidthDigit \/ Flag \/ Dot \/ Length \/ Star
    BY <1>4, AttributesKeep
  <1>5. CASE ConvertNumber \/ ConvertString \/ ConvertChar
    BY <1>5, ConvertNumberKeeps, ConvertStringKeeps, ConvertCharKeeps
  <1>6. CASE CopyCharacter
    BY <1>6, CopyCharacterKeeps
  <1>7. CASE \/ \E its \in Calls : Kprintf(its) \/ Panic(its)
             \/ DisplayString \/ PanicKprintf \/ Return \/ Smash
    BY <1>7, CallersKeep
  <1> QED BY <1>1, <1>2, <1>3, <1>4, <1>5, <1>6, <1>7 DEF Next, Step, Stopped

(* The inductive invariant holds in every state a call of vsnprintf() or   *)
(* of its callers goes through.                                            *)
LEMMA Invariant == Spec => []IInv
  BY InitIInv, NextIInv, PTL DEF Spec

(* The loop of vsnprintf() never looks behind the terminator of its        *)
(* format, however far a rejected conversion makes it step back and two    *)
(* letters of a length make it skip, and the attributes it reads stay of   *)
(* their types.                                                            *)
THEOREM FormatNotLeft == Spec => []TypeOK
  <1>1. IInv => TypeOK
    <2> SUFFICES ASSUME IInv PROVE TypeOK
      OBVIOUS
    <2>1. fa \in Attrs
      BY DEF IInv, Typed
    <2>2. /\ fa.flags \subseteq FMask \cup LMask \cup {"DOT"}
          /\ {fa.width, fa.presiction} \subseteq Int /\ fa.cinf \in Nat \cup {-1}
      BY <2>1 DEF Attrs
    <2> QED BY <2>2 DEF IInv, Typed, TypeOK
  <1> QED BY <1>1, Invariant, PTL

(* Whatever is printed into a buffer of whatever size, vsnprintf() writes  *)
(* no byte behind the limit it was given, and what it returns is the       *)
(* number of bytes it wrote.                                               *)
THEOREM NothingBehindLimit == Spec => []WithinLimit
  <1>1. IInv => WithinLimit
    BY DEF IInv
  <1> QED BY <1>1, Invariant, PTL

---------------------------------------------------------------------------
(* The cursor of the console *)
IdleIndices == {0, 45}

(* Where vga_update_cursor() has selected a register, and has not restored *)
(* the one that was selected before.                                       *)
HighSelected == {"high", "outHigh", "selectLow"}
LowSelected  == {"low", "outLow", "restore"}
IndexInv ==
  /\ "index" \in DOMAIN crt
  /\ saved \in IdleIndices
  /\ pc \in HighSelected => crt.index = CLHR
  /\ pc \in LowSelected  => crt.index = CLLR
  /\ pc \notin HighSelected \cup LowSelected => crt.index \in IdleIndices

(* vga_update_cursor() as a whole gives the index register back.           *)
LEMMA UpdateKeepsIndex ==
  ASSUME NEW r, "index" \in DOMAIN r, NEW where
  PROVE  /\ "index" \in DOMAIN UpdateCursor(r, where)
         /\ UpdateCursor(r, where).index = r.index
  BY DEF UpdateCursor, RestoreIndex

(* So do the functions that switch the cursor on and set its shape.        *)
LEMMA EnableKeepsIndex ==
  ASSUME NEW r, "index" \in DOMAIN r
  PROVE  LET s == CursorLow(CursorSwitched(r, TRUE))
         IN  "index" \in DOMAIN s /\ s.index = r.index
  <1>1. /\ "index" \in DOMAIN CursorSwitched(r, TRUE)
        /\ CursorSwitched(r, TRUE).index = r.index
    BY DEF CursorSwitched
  <1> QED BY <1>1 DEF CursorLow

LEMMA IndexInitially == ConsoleInit => IndexInv
  BY DEF ConsoleInit, IndexInv, IdleIndices, HighSelected, LowSelected

(* One port access or assignment of a task's vga_update_cursor().          *)
LEMMA UpdateStepKeeps ==
  ASSUME IndexInv, UpdateStep
  PROVE  IndexInv'
  <1> USE DEF IndexInv, HighSelected, LowSelected, IdleIndices
  <1>1. CASE Load("where", "save", CursorWord(dev))
    BY <1>1 DEF Load, At, NoCrt
  <1>2. CASE /\ At("save", "selectHigh") /\ saved' = crt.index
             /\ NotDone /\ UNCHANGED <<dev, crt, reg, diff, plain>>
    BY <1>2 DEF At
  <1>3. CASE Crt("selectHigh", "high", [crt EXCEPT !.index = CLHR])
    BY <1>3 DEF Crt, At
  <1>4. CASE Crt("high", "outHigh", [crt EXCEPT !.vregs[CLHR] = reg \div 256])
    BY <1>4 DEF Crt, At
  <1>5. CASE Crt("outHigh", "selectLow", OutPort)
    BY <1>5 DEF Crt, At, OutPort
  <1>6. CASE Crt("selectLow", "low", [crt EXCEPT !.index = CLLR])
    BY <1>6 DEF Crt, At
  <1>7. CASE Crt("low", "outLow", [crt EXCEPT !.vregs[CLLR] = reg % 256])
    BY <1>7 DEF Crt, At
  <1>8. CASE Crt("outLow", "restore", OutPort)
    BY <1>8 DEF Crt, At, OutPort
  <1>9. CASE Crt("restore", "idle", [crt EXCEPT !.index = saved])
    BY <1>9 DEF Crt, At
  <1> QED BY <1>1, <1>2, <1>3, <1>4, <1>5, <1>6, <1>7, <1>8, <1>9 DEF UpdateStep

(* The rest of a task's steps leave the registers of the CRTC alone.       *)
LEMMA TaskStepKeeps ==
  ASSUME IndexInv, TaskStep
  PROVE  IndexInv'
  <1> USE DEF IndexInv, HighSelected, LowSelected, IdleIndices, At, NoCrt
  <1>1. CASE PutControl
    BY <1>1 DEF PutControl
  <1>2. CASE PutPrintable
    BY <1>2 DEF PutPrintable
  <1>3. CASE LoadCursor
    BY <1>3 DEF LoadCursor, Load
  <1>4. CASE Write
    BY <1>4 DEF Write
  <1>5. CASE StoreCursor
    BY <1>5 DEF StoreCursor
  <1>6. CASE WrapTest
    BY <1>6 DEF WrapTest
  <1>7. CASE Diff
    BY <1>7 DEF Diff
  <1>8. CASE Copy
    BY <1>8 DEF Copy
  <1>9. CASE EndOfString
    BY <1>9 DEF EndOfString
  <1>10. CASE UpdateStep
    BY <1>10, UpdateStepKeeps
  <1> QED
    BY <1>1, <1>2, <1>3, <1>4, <1>5, <1>6, <1>7, <1>8, <1>9, <1>10 DEF TaskStep

LEMMA IndexKept ==
  ASSUME IndexInv, [ConsoleNext]_consoleVars
  PROVE  IndexInv'
  <1> USE DEF IndexInv
  <1>1. CASE Enable
    <2> DEFINE s == CursorLow(CursorSwitched(crt, TRUE))
    <2>1. "index" \in DOMAIN s /\ s.index = crt.index
      BY EnableKeepsIndex
    <2>2. /\ crt' = UpdateCursor(s, CursorWord(dev')) /\ pc' = pc /\ saved' = saved
      BY <1>1 DEF Enable, taskVars
    <2> HIDE DEF s
    <2> QED BY <2>1, <2>2, UpdateKeepsIndex
  <1>2. CASE Disable
    BY <1>2 DEF Disable, taskVars
  <1>3. CASE DisplayChar
    <2>1. /\ crt' = UpdateCursor(crt, CursorWord(dev')) /\ pc' = pc /\ saved' = saved
      BY <1>3 DEF DisplayChar, taskVars
    <2> QED BY <2>1, UpdateKeepsIndex
  <1>4. CASE TaskStep
    BY <1>4, TaskStepKeeps
  <1>5. ASSUME NEW s \in Messages, display_string(s) PROVE IndexInv'
    BY <1>5 DEF display_string, HighSelected, LowSelected
  <1>6. ASSUME NEW s \in IrqMessages, Interrupt(s) PROVE IndexInv'
    <2>1. /\ crt' = UpdateCursor(crt, CursorWord(dev')) /\ pc' = pc /\ saved' = saved
      BY <1>6 DEF Interrupt, taskVars
    <2> QED BY <2>1, UpdateKeepsIndex
  <1>7. CASE UNCHANGED consoleVars
    BY <1>7 DEF consoleVars, taskVars
  <1> QED BY <1>1, <1>2, <1>3, <1>4, <1>5, <1>6, <1>7 DEF ConsoleNext

(* vga_update_cursor() selects and restores the index register of the CRTC *)
(* around its two writes, and an interrupt handler's update of the cursor, *)
(* at any point of a task's, does not disturb what the task has selected.  *)
THEOREM IndexUndisturbed == ConsoleSpec => IndexAsSelected
  <1>1. ConsoleInit => IndexInv
    BY IndexInitially
  <1>2. IndexInv /\ [ConsoleNext]_consoleVars => IndexInv'
    BY IndexKept
  <1>3. IndexInv /\ IndexInv' =>
          [/\ pc = "outHigh" => crt.index = CLHR
           /\ pc = "outLow"  => crt.index = CLLR
           /\ pc = "restore" /\ pc' = "idle" => crt'.index \in {0, 45}]_consoleVars
    BY DEF IndexInv, HighSelected, LowSelected, IdleIndices
  <1> QED BY <1>1, <1>2, <1>3, PTL DEF ConsoleSpec, IndexAsSelected

---------------------------------------------------------------------------
(* The lines of the log *)
Lines(l) ==
  /\ Word(l) /\ Len(l) \in Nat \ {0}
  /\ \A n \in 1 .. Len(l) : Word(l[n]) /\ Len(l[n]) \in Nat /\ Len(l[n]) <= Cols

(* The elements of joined sequences.                                       *)
LEMMA JoinedAt ==
  ASSUME NEW s, NEW t, Word(s), Word(t)
  PROVE  /\ \A n \in 1 .. Len(s) : (s \o t)[n] = s[n]
         /\ \A n \in 1 .. Len(t) : (s \o t)[Len(s) + n] = t[n]
  <1> PICK S : s \in Seq(S) /\ t \in Seq(S)
    BY CommonElements
  <1> QED OBVIOUS

(* What Append() gives. *)
LEMMA Appended ==
  ASSUME NEW s, NEW c, Word(s)
  PROVE  /\ Word(Append(s, c)) /\ Len(s) \in Nat /\ Len(Append(s, c)) = Len(s) + 1
         /\ Append(s, c)[Len(s) + 1] = c
         /\ \A n \in 1 .. Len(s) : Append(s, c)[n] = s[n]
  <1> PICK S : s \in Seq(S)
    BY DEF Word
  <1> PICK T : T = S \cup {c}
    OBVIOUS
  <1>1. s \in Seq(T)
    <2>1. s = [i \in 1 .. Len(s) |-> s[i]] /\ Len(s) \in Nat
      OBVIOUS
    <2>2. \A i \in 1 .. Len(s) : s[i] \in T
      OBVIOUS
    <2> QED BY <2>1, <2>2
  <1>2. Append(s, c) \in Seq(T) /\ c \in T
    BY <1>1
  <1>3. Word(Append(s, c)) /\ Len(s) \in Nat
    BY <1>2, WordOf
  <1> QED BY <1>1, <1>2, <1>3

(* The last line with a character more.                                    *)
LEMMA LongerLine ==
  ASSUME NEW l, NEW c, Lines(l)
  PROVE  LET m == Front(l) \o <<Append(Last(l), c)>>
         IN  /\ Word(m) /\ Len(m) = Len(l)
             /\ m[Len(l)] = Append(l[Len(l)], c)
             /\ \A n \in 1 .. Len(l) - 1 : m[n] = l[n]
  <1> PICK k : k = Len(l)
    OBVIOUS
  <1>1. k \in Nat \ {0} /\ Word(l) /\ k - 1 \in Nat
    BY DEF Lines
  <1> PICK S : l \in Seq(S)
    BY <1>1 DEF Word
  <1> PICK f : f = SubSeq(l, 1, k - 1)
    OBVIOUS
  <1>2. Word(f) /\ Len(f) = k - 1
    <2>1. f \in Seq(S) /\ Len(f) = k - 1
      BY <1>1
    <2> QED BY <2>1, WordOf
  <1>3. \A n \in 1 .. k - 1 : f[n] = l[n]
    BY <1>1
  <1> PICK e : e = Append(l[k], c)
    OBVIOUS
  <1>4. Word(<<e>>) /\ Len(<<e>>) = 1 /\ <<e>>[1] = e
    BY OneIsWord
  <1> PICK m : m = f \o <<e>>
    OBVIOUS
  <1>5. Word(m) /\ Len(m) = k
    <2>1. Word(m) /\ Len(m) = Len(f) + Len(<<e>>)
      BY ONLY <1>2, <1>4, JoinedWord, m = f \o <<e>>
    <2> QED BY <1>1, <1>2, <1>4, <2>1
  <1>6. \A n \in 1 .. k - 1 : m[n] = f[n]
    BY ONLY <1>2, <1>4, JoinedAt, m = f \o <<e>>
  <1>7. m[k] = e
    <2>1. m[Len(f) + 1] = <<e>>[1]
      <3>1. 1 \in 1 .. Len(<<e>>)
        BY <1>4
      <3> QED BY ONLY <1>2, <1>4, <3>1, JoinedAt, m = f \o <<e>>
    <2>2. Len(f) + 1 = k /\ <<e>>[1] = e
      BY <1>1, <1>2
    <2> QED BY ONLY <2>1, <2>2
  <1>8. Front(l) \o <<Append(Last(l), c)>> = m
    BY DEF Front, Last
  <1> QED BY <1>3, <1>5, <1>6, <1>7, <1>8

(* A line ended in the log is the last line with an empty one behind it.   *)
LEMMA EndedLine ==
  ASSUME NEW f, NEW a, NEW b, Word(f)
  PROVE  f \o <<a, b>> = Append(f \o <<a>>, b)
  <1> PICK S : f \in Seq(S)
    BY DEF Word
  <1> PICK T : T = S \cup {a, b}
    OBVIOUS
  <1>1. f \in Seq(T) /\ a \in T /\ b \in T
    <2>1. f = [i \in 1 .. Len(f) |-> f[i]] /\ Len(f) \in Nat
      OBVIOUS
    <2>2. \A i \in 1 .. Len(f) : f[i] \in T
      OBVIOUS
    <2> QED BY <2>1, <2>2
  <1> QED BY <1>1

(* Of too many lines the first is forgotten.                               *)
LEMMA RecentLines ==
  ASSUME NEW l, Word(l), Len(l) \in Nat \ {0}, Rows \in Nat \ {0}
  PROVE  LET m == Recent(l)
         IN  /\ Word(m) /\ Len(m) \in Nat \ {0} /\ Len(m) <= Len(l)
             /\ \A n \in 1 .. Len(m) : m[n] = l[n + (Len(l) - Len(m))]
  <1>1. CASE Len(l) > Rows + 1
    <2> PICK S : l \in Seq(S)
      BY DEF Word
    <2> PICK m : m = Tail(l)
      OBVIOUS
    <2>1. m \in Seq(S) /\ Len(m) = Len(l) - 1 /\ \A n \in 1 .. Len(m) : m[n] = l[n + 1]
      BY <1>1
    <2>2. Word(m)
      BY <2>1, WordOf
    <2>3. Recent(l) = m
      BY <1>1 DEF Recent
    <2>4. Len(l) - Len(m) = 1 /\ Len(m) \in Nat \ {0} /\ Len(m) <= Len(l)
      <3> PICK p \in Nat \ {0} : p = Len(l)
        OBVIOUS
      <3> PICK q : q = Len(m)
        OBVIOUS
      <3>1. q = p - 1 /\ p > Rows + 1 /\ Rows \in Nat \ {0}
        BY <1>1, <2>1
      <3> QED BY ONLY <3>1, p \in Nat \ {0}, p = Len(l), q = Len(m)
    <2> QED BY <2>1, <2>2, <2>3, <2>4
  <1>2. CASE ~(Len(l) > Rows + 1)
    <2>1. Recent(l) = l
      BY <1>2 DEF Recent
    <2>2. \A n \in 1 .. Len(l) : n + (Len(l) - Len(l)) = n
      OBVIOUS
    <2> QED BY <2>1, <2>2
  <1> QED BY <1>1, <1>2

---------------------------------------------------------------------------
(* Text memory by rows *)
RowStart(n) == n * Cols

LEMMA RowsOfMemory ==
  /\ Cols \in Nat \ {0, 1} /\ Rows \in Nat \ {0, 1, 2}
  /\ \A n \in Nat : RowStart(n) \in Nat /\ RowStart(n + 1) = RowStart(n) + Cols
  /\ \A m, n \in Nat : m < n => RowStart(m) + Cols <= RowStart(n)
  /\ \A n \in Nat : Cols * n = RowStart(n)
  /\ TextRows \in Nat /\ TextRows >= 2 * Rows /\ Words = 0 .. RowStart(TextRows) - 1
  /\ Uint16 \in Nat /\ Uint16 > RowStart(TextRows)
  <1>1. /\ Cols \in Nat \ {0, 1} /\ Rows \in Nat \ {0, 1, 2}
        /\ TextRows \in Nat /\ TextRows >= 2 * Rows
        /\ Uint16 \in Nat /\ Uint16 > RowStart(TextRows)
    BY ConsoleAssumption DEF RowStart
  <1> PICK w \in Nat \ {0} : w = Cols
    BY <1>1
  <1>2. \A n \in Nat : n * w \in Nat /\ (n + 1) * w = n * w + w /\ w * n = n * w
    OBVIOUS
  <1>3. ASSUME NEW m \in Nat, NEW n \in Nat, m < n PROVE m * w + w <= n * w
    <2> PICK d \in Nat : n = (m + 1) + d
      <3>1. n - (m + 1) \in Nat /\ n = (m + 1) + (n - (m + 1))
        BY <1>3
      <3> QED BY <3>1
    <2>1. n * w = (m * w + w) + d * w
      BY n = (m + 1) + d
    <2>2. d * w \in Nat /\ m * w \in Nat
      BY <1>2
    <2> QED BY <2>1, <2>2
  <1>4. Words = 0 .. RowStart(TextRows) - 1
    BY DEF Words, RowStart
  <1> QED BY <1>1, <1>2, <1>3, <1>4 DEF RowStart

(* The screen's rows up to the cursor's are the last lines of the log.     *)
Holds(y, cell, l) ==
  \A j \in 0 .. y : j < Len(l) =>
    \A i \in 1 .. Len(l[Len(l) - j]) :
      cell[RowStart(y - j) + (i - 1)] = l[Len(l) - j][i]

(* A row further down, with the text memory as it is.                      *)
LEMMA NewLineHolds ==
  ASSUME NEW y \in Nat, NEW cell, NEW l, Lines(l), Holds(y, cell, l)
  PROVE  LET m == Append(l, <<>>)
         IN  /\ Lines(m) /\ Len(m) = Len(l) + 1 /\ Len(m[Len(m)]) = 0
             /\ Holds(y + 1, cell, m)
  <1> PICK m : m = Append(l, <<>>)
    OBVIOUS
  <1> PICK k \in Nat \ {0} : k = Len(l)
    BY DEF Lines
  <1>1. Word(m) /\ Len(m) = k + 1 /\ m[k + 1] = <<>> /\ \A n \in 1 .. k : m[n] = l[n]
    <2>1. Word(l)
      BY DEF Lines
    <2> QED BY <2>1, Appended
  <1>2. Len(m[k + 1]) = 0
    BY <1>1, EmptyWord
  <1>3. Lines(m)
    <2>1. ASSUME NEW n \in 1 .. k + 1
          PROVE  Word(m[n]) /\ Len(m[n]) \in Nat /\ Len(m[n]) <= Cols
      <3>1. CASE n = k + 1
        <4>1. m[n] = <<>>
          BY <1>1, <3>1
        <4>2. Word(<<>>) /\ Len(<<>>) = 0 /\ Cols \in Nat
          BY EmptyWord, RowsOfMemory
        <4> QED BY ONLY <4>1, <4>2
      <3>2. CASE n # k + 1
        BY <3>2, <1>1 DEF Lines
      <3> QED BY <3>1, <3>2
    <2> QED BY <1>1, <2>1 DEF Lines
  <1>4. ASSUME NEW j \in 0 .. y + 1, j < k + 1, NEW i \in 1 .. Len(m[(k + 1) - j])
        PROVE  cell[RowStart((y + 1) - j) + (i - 1)] = m[(k + 1) - j][i]
    <2>1. j # 0
      <3> SUFFICES ASSUME j = 0 PROVE FALSE
        OBVIOUS
      <3>1. i \in 1 .. 0
        BY <1>2
      <3> QED BY <3>1
    <2> PICK h : h = j - 1
      OBVIOUS
    <2>2. h \in 0 .. y /\ h < k /\ (y + 1) - j = y - h /\ (k + 1) - j = k - h /\ k - h \in 1 .. k
      BY <1>4, <2>1
    <2>3. m[k - h] = l[k - h]
      BY <1>1, <2>2
    <2>4. i \in 1 .. Len(l[k - h])
      BY <2>2, <2>3
    <2>5. cell[RowStart(y - h) + (i - 1)] = l[k - h][i]
      BY <2>2, <2>4 DEF Holds
    <2> QED BY <2>2, <2>3, <2>5
  <1>5. Holds(y + 1, cell, m)
    <2> SUFFICES ASSUME NEW j \in 0 .. y + 1, j < k + 1, NEW i \in 1 .. Len(m[(k + 1) - j])
                 PROVE  cell[RowStart((y + 1) - j) + (i - 1)] = m[(k + 1) - j][i]
      BY <1>1 DEF Holds
    <2> QED BY <1>4
  <1> QED BY <1>1, <1>2, <1>3, <1>5

(* A line less to remember. *)
LEMMA RecentHolds ==
  ASSUME NEW y \in Nat, NEW cell, NEW l, Lines(l), Holds(y, cell, l)
  PROVE  LET m == Recent(l)
         IN  Lines(m) /\ m[Len(m)] = l[Len(l)] /\ Holds(y, cell, m)
  <1> PICK m : m = Recent(l)
    OBVIOUS
  <1> PICK k \in Nat \ {0} : k = Len(l)
    BY DEF Lines
  <1>1. /\ Word(m) /\ Len(m) \in Nat \ {0} /\ Len(m) <= k
        /\ \A n \in 1 .. Len(m) : m[n] = l[n + (k - Len(m))]
    <2>1. Word(l) /\ Len(l) \in Nat \ {0} /\ Rows \in Nat \ {0}
      BY RowsOfMemory DEF Lines
    <2> QED BY <2>1, RecentLines
  <1> PICK p \in Nat \ {0} : p = Len(m)
    BY <1>1
  <1>2. \A j \in 0 .. p - 1 : m[p - j] = l[k - j]
    <2> SUFFICES ASSUME NEW j \in 0 .. p - 1 PROVE m[p - j] = l[k - j]
      OBVIOUS
    <2> PICK n : n = p - j
      OBVIOUS
    <2>1. n \in 1 .. p /\ n + (k - p) = k - j
      OBVIOUS
    <2> QED BY <1>1, <2>1
  <1>3. m[p] = l[k]
    <2>1. 0 \in 0 .. p - 1 /\ p - 0 = p /\ k - 0 = k
      OBVIOUS
    <2> QED BY <1>2, <2>1
  <1>4. Lines(m)
    <2> SUFFICES ASSUME NEW n \in 1 .. p
                 PROVE  Word(m[n]) /\ Len(m[n]) \in Nat /\ Len(m[n]) <= Cols
      BY <1>1 DEF Lines
    <2> PICK h : h = n + (k - p)
      OBVIOUS
    <2>1. m[n] = l[h]
      BY <1>1
    <2>2. h \in 1 .. k
      BY <1>1
    <2> QED BY <2>1, <2>2 DEF Lines
  <1>5. Holds(y, cell, m)
    <2> SUFFICES ASSUME NEW j \in 0 .. y, j < p, NEW i \in 1 .. Len(m[p - j])
                 PROVE  cell[RowStart(y - j) + (i - 1)] = m[p - j][i]
      BY DEF Holds
    <2>1. m[p - j] = l[k - j] /\ j < k
      BY <1>1, <1>2
    <2>2. i \in 1 .. Len(l[k - j])
      BY <2>1
    <2> QED BY <2>1, <2>2 DEF Holds
  <1> QED BY <1>3, <1>4, <1>5

(* vga_scroll() takes the rows two up, the one below the screen with them. *)
LEMMA ScrollHolds ==
  ASSUME NEW cell, NEW l, Lines(l), Holds(Rows, cell, l)
  PROVE  Holds(Rows - 2, CopyUp(cell), l)
  <1> PICK k \in Nat \ {0} : k = Len(l)
    BY DEF Lines
  <1>0. /\ Cols \in Nat \ {0, 1} /\ Rows \in Nat \ {0, 1, 2}
        /\ TextRows \in Nat /\ TextRows >= 2 * Rows
    BY RowsOfMemory
  <1> PICK r : r = Rows - 2
    OBVIOUS
  <1>1. r \in Nat /\ r # 0 /\ Rows = r + 2 /\ Rows - 1 = r + 1
    BY <1>0
  <1> SUFFICES ASSUME NEW j \in 0 .. r, j < k, NEW i \in 1 .. Len(l[k - j])
               PROVE  CopyUp(cell)[RowStart(r - j) + (i - 1)] = l[k - j][i]
    BY DEF Holds
  <1>2. i - 1 \in Nat /\ i - 1 < Cols
    <2>1. k - j \in 1 .. k
      OBVIOUS
    <2>2. Len(l[k - j]) \in Nat /\ Len(l[k - j]) <= Cols
      BY <2>1 DEF Lines
    <2> QED BY <1>0, <2>2
  <1> PICK h : h = r - j
    OBVIOUS
  <1>3. h \in Nat /\ h < r + 1 /\ h < TextRows /\ r + 1 < TextRows /\ (h + 1) + 1 = Rows - j
    BY <1>0, <1>1
  <1> PICK q : q = RowStart(h) + (i - 1)
    OBVIOUS
  <1>4. /\ RowStart(h) \in Nat /\ RowStart(h) + Cols <= RowStart(r + 1)
        /\ RowStart(h) + Cols <= RowStart(TextRows)
        /\ RowStart((h + 1) + 1) = (RowStart(h) + Cols) + Cols
        /\ RowStart(r + 1) \in Nat /\ RowStart(TextRows) \in Nat
        /\ Cols * (r + 1) = RowStart(r + 1)
    <2>1. r + 1 \in Nat /\ h + 1 \in Nat
      BY <1>1, <1>3
    <2> QED BY <1>0, <1>3, <2>1, RowsOfMemory
  <1>5. q \in Words /\ q < RowStart(r + 1) /\ q + 2 * Cols = RowStart((h + 1) + 1) + (i - 1)
    <2>1. Words = 0 .. RowStart(TextRows) - 1
      BY RowsOfMemory
    <2> PICK a \in Nat, b \in Nat, e \in Nat :
          a = RowStart(h) /\ b = RowStart(r + 1) /\ e = RowStart(TextRows)
      BY <1>4
    <2>2. /\ Words = 0 .. e - 1 /\ q = a + (i - 1) /\ a + Cols <= b /\ a + Cols <= e
          /\ RowStart((h + 1) + 1) = (a + Cols) + Cols
      BY <1>4, <2>1
    <2> QED BY ONLY <1>0, <1>2, <2>2, a \in Nat, b \in Nat, e \in Nat, b = RowStart(r + 1)
  <1>6. CopyUp(cell)[q] = cell[q + 2 * Cols]
    <2>1. Cols * (Rows - 1) = RowStart(r + 1)
      BY <1>1, <1>4
    <2> QED BY <1>5, <2>1 DEF CopyUp
  <1>7. cell[RowStart(Rows - j) + (i - 1)] = l[k - j][i]
    <2>1. j \in 0 .. Rows
      BY <1>1
    <2> QED BY <2>1 DEF Holds
  <1> QED BY <1>3, <1>5, <1>6, <1>7

---------------------------------------------------------------------------
(* The cursor stands behind the last character of the last line.           *)
ShownAt(x, y, cell, l) ==
  /\ x \in 0 .. Cols - 1 /\ y \in 0 .. Rows /\ (y = Rows => x = 0)
  /\ cell = [k \in Words |-> cell[k]]
  /\ Lines(l) /\ Len(l[Len(l)]) = x /\ Holds(y, cell, l)

(* The cursor's column is the length of the last line.                     *)
LEMMA LastLine ==
  ASSUME NEW x, NEW y, NEW cell, NEW l, ShownAt(x, y, cell, l)
  PROVE  Len(l) \in Nat \ {0} /\ Word(l[Len(l)]) /\ Len(l[Len(l)]) = x
  <1>1. Lines(l) /\ Len(l[Len(l)]) = x
    BY DEF ShownAt
  <1>2. Len(l) \in Nat \ {0}
    BY <1>1 DEF Lines
  <1>3. Len(l) \in 1 .. Len(l)
    BY <1>2
  <1>4. Word(l[Len(l)])
    BY <1>1, <1>3 DEF Lines
  <1> QED BY <1>1, <1>2, <1>4

(* Text memory with a character more, and where it takes the cursor.       *)
Put(x, y, cell, c) == [cell EXCEPT ![RowStart(y) + x] = c]
NextX(x)    == IF x + 1 = Cols THEN 0 ELSE x + 1
NextY(x, y) == IF x + 1 = Cols THEN y + 1 ELSE y

(* The cursor's word is a word of text memory. *)
LEMMA CursorInMemory ==
  ASSUME NEW x \in 0 .. Cols - 1, NEW y \in 0 .. Rows
  PROVE  RowStart(y) \in Nat /\ RowStart(y) + x \in Words
  <1>1. /\ Cols \in Nat \ {0, 1} /\ Rows \in Nat \ {0, 1, 2}
        /\ TextRows \in Nat /\ TextRows >= 2 * Rows
        /\ Words = 0 .. RowStart(TextRows) - 1
    BY RowsOfMemory
  <1>2. y \in Nat /\ y < TextRows
    BY <1>1
  <1>3. /\ RowStart(y) \in Nat /\ RowStart(TextRows) \in Nat
        /\ RowStart(y) + Cols <= RowStart(TextRows)
    BY <1>1, <1>2, RowsOfMemory
  <1> QED BY <1>1, <1>3

(* A character in the last line, before it is known if the line is full.   *)
LEMMA LongerHolds ==
  ASSUME NEW x, NEW y, NEW cell, NEW l, ShownAt(x, y, cell, l), NEW c
  PROVE  LET m == Front(l) \o <<Append(Last(l), c)>>
         IN  /\ Lines(m) /\ Len(m[Len(m)]) = x + 1
             /\ Holds(y, Put(x, y, cell, c), m)
  <1> PICK k \in Nat \ {0} : k = Len(l)
    BY DEF ShownAt, Lines
  <1> PICK m : m = Front(l) \o <<Append(Last(l), c)>>
    OBVIOUS
  <1>1. /\ Word(m) /\ Len(m) = k /\ m[k] = Append(l[k], c)
        /\ \A n \in 1 .. k - 1 : m[n] = l[n]
    <2>1. Lines(l)
      BY DEF ShownAt
    <2> QED BY <2>1, LongerLine
  <1>2. /\ x \in 0 .. Cols - 1 /\ y \in 0 .. Rows /\ Cols \in Nat \ {0, 1} /\ Rows \in Nat
        /\ Word(l[k]) /\ Len(l[k]) = x
    <2>1. Word(l[k]) /\ Len(l[k]) = x
      BY LastLine
    <2>2. /\ x \in 0 .. Cols - 1 /\ y \in 0 .. Rows
          /\ Cols \in Nat \ {0, 1} /\ Rows \in Nat \ {0, 1, 2}
      BY RowsOfMemory DEF ShownAt
    <2> QED BY <2>1, <2>2
  <1>3. /\ Word(m[k]) /\ Len(m[k]) = x + 1 /\ m[k][x + 1] = c
        /\ \A n \in 1 .. x : m[k][n] = l[k][n]
    <2> PICK t, u : t = l[k] /\ u = Append(t, c)
      OBVIOUS
    <2>1. Word(t) /\ Len(t) = x /\ u = Append(t, c)
      BY <1>2
    <2>2. /\ Word(u) /\ Len(u) = Len(t) + 1 /\ u[Len(t) + 1] = c
          /\ \A n \in 1 .. Len(t) : u[n] = t[n]
      BY ONLY <2>1, Appended
    <2>3. m[k] = u
      BY <1>1
    <2>4. Len(u) = x + 1 /\ u[x + 1] = c /\ \A n \in 1 .. x : u[n] = t[n]
      BY ONLY <2>1, <2>2
    <2> QED BY ONLY <2>2, <2>3, <2>4, t = l[k]
  <1>4. Lines(m)
    <2> SUFFICES ASSUME NEW n \in 1 .. k
                 PROVE  Word(m[n]) /\ Len(m[n]) \in Nat /\ Len(m[n]) <= Cols
      BY <1>1 DEF Lines
    <2>1. CASE n = k
      <3>1. x + 1 \in Nat /\ x + 1 <= Cols
        BY <1>2
      <3> QED BY <2>1, <1>3, <3>1
    <2>2. CASE n # k
      <3>1. m[n] = l[n]
        <4>1. n \in 1 .. k - 1
          BY <2>2
        <4> QED BY <1>1, <4>1
      <3> QED BY <3>1 DEF ShownAt, Lines
    <2> QED BY <2>1, <2>2
  <1> PICK p : p = RowStart(y) + x
    OBVIOUS
  <1>5. RowStart(y) \in Nat /\ p \in Words /\ p = RowStart(y) + x
    BY <1>2, CursorInMemory
  <1> PICK new : new = Put(x, y, cell, c)
    OBVIOUS
  <1>6. /\ new[p] = c
        /\ \A q \in Words : q # p => new[q] = cell[q]
    <2>1. cell = [q \in Words |-> cell[q]]
      BY DEF ShownAt
    <2> QED BY <1>5, <2>1 DEF Put
  <1>7. ASSUME NEW j \in 0 .. y, j < k, NEW i \in 1 .. Len(m[k - j])
        PROVE  new[RowStart(y - j) + (i - 1)] = m[k - j][i]
    <2> USE <1>7
    <2>1. CASE j = 0 /\ i = x + 1
      <3>1. y - j = y /\ k - j = k /\ i - 1 = x
        BY <1>2, <2>1
      <3> QED BY <1>3, <1>5, <1>6, <2>1, <3>1
    <2>2. CASE j = 0 /\ i # x + 1
      <3>1. y - j = y /\ k - j = k /\ i \in 1 .. x
        <4>1. y - j = y /\ k - j = k
          BY <1>2, <2>2
        <4>2. i \in 1 .. x + 1
          BY <1>3, <4>1
        <4> QED BY <1>2, <2>2, <4>1, <4>2
      <3>2. i - 1 \in 0 .. Cols - 1 /\ i - 1 # x
        BY <1>2, <3>1
      <3>3. RowStart(y) + (i - 1) \in Words
        BY <1>2, <3>2, CursorInMemory
      <3>4. RowStart(y) + (i - 1) # p
        BY <1>2, <1>5, <3>2
      <3>5. new[RowStart(y) + (i - 1)] = cell[RowStart(y) + (i - 1)]
        BY <1>6, <3>3, <3>4
      <3>6. cell[RowStart(y - j) + (i - 1)] = l[k - j][i]
        <4>1. i \in 1 .. Len(l[k - j])
          BY <1>2, <3>1
        <4>2. Holds(y, cell, l) /\ j < Len(l)
          BY DEF ShownAt
        <4> QED BY <4>1, <4>2 DEF Holds
      <3> QED BY <1>3, <3>1, <3>5, <3>6
    <2>3. CASE j # 0
      <3>1. k - j \in 1 .. k - 1 /\ y - j \in 0 .. Rows /\ y - j \in Nat /\ y \in Nat /\ y - j < y
        BY <1>2, <2>3
      <3>2. m[k - j] = l[k - j]
        BY <1>1, <3>1
      <3>3. Len(l[k - j]) \in Nat /\ Len(l[k - j]) <= Cols
        BY <3>1 DEF ShownAt, Lines
      <3>4. i - 1 \in 0 .. Cols - 1
        <4> PICK v \in Nat : v = Len(l[k - j])
          BY <3>3
        <4> PICK w : w = Cols
          OBVIOUS
        <4>1. i \in 1 .. v /\ v <= w /\ w \in Nat
          BY <1>2, <3>2, <3>3
        <4>2. i - 1 \in 0 .. w - 1
          BY ONLY <4>1, v \in Nat
        <4> QED BY <4>2
      <3>5. RowStart(y - j) \in Nat /\ RowStart(y - j) + (i - 1) \in Words
        BY <3>1, <3>4, CursorInMemory
      <3>6. RowStart(y - j) + Cols <= RowStart(y)
        BY <3>1, RowsOfMemory
      <3>7. RowStart(y - j) + (i - 1) # p
        <4> PICK a, b, h : a = RowStart(y - j) /\ b = RowStart(y) /\ h = i - 1
          OBVIOUS
        <4>1. a \in Nat /\ b \in Nat /\ a + Cols <= b /\ p = b + x
          BY <1>5, <3>5, <3>6
        <4>2. h \in 0 .. Cols - 1 /\ x \in 0 .. Cols - 1 /\ Cols \in Nat
          BY <1>2, <3>4
        <4>3. a + h # p
          BY ONLY <4>1, <4>2
        <4> QED BY ONLY <4>3, a = RowStart(y - j), h = i - 1
      <3>8. new[RowStart(y - j) + (i - 1)] = cell[RowStart(y - j) + (i - 1)]
        BY <1>6, <3>5, <3>7
      <3>9. cell[RowStart(y - j) + (i - 1)] = l[k - j][i]
        <4>1. i \in 1 .. Len(l[k - j])
          BY <3>2
        <4>2. Holds(y, cell, l) /\ j < Len(l)
          BY DEF ShownAt
        <4> QED BY <4>1, <4>2 DEF Holds
      <3> QED BY <3>2, <3>8, <3>9
    <2> QED BY <2>1, <2>2, <2>3
  <1>8. Len(m) = k
    BY <1>1
  <1>9. Holds(y, new, m)
    BY ONLY <1>7, <1>8 DEF Holds
  <1>10. Len(m[Len(m)]) = x + 1
    BY <1>3, <1>8
  <1> QED BY ONLY <1>4, <1>9, <1>10, new = Put(x, y, cell, c),
                  m = Front(l) \o <<Append(Last(l), c)>>

(* A printable character, before scrolling. *)
LEMMA CharacterHolds ==
  ASSUME NEW x, NEW y, NEW cell, NEW l, ShownAt(x, y, cell, l), NEW c, c \notin Controls
  PROVE  LET m == Logged(l, c)
         IN  /\ RowStart(y) + x \in Words
             /\ Put(x, y, cell, c) = [k \in Words |-> Put(x, y, cell, c)[k]]
             /\ NextX(x) \in 0 .. Cols - 1 /\ NextY(x, y) \in 0 .. Rows
             /\ Lines(m) /\ Len(m[Len(m)]) = NextX(x) /\ Holds(NextY(x, y), Put(x, y, cell, c), m)
  <1> PICK s : s = Put(x, y, cell, c)
    OBVIOUS
  <1> PICK n : n = Append(Last(l), c)
    OBVIOUS
  <1> PICK m : m = Front(l) \o <<n>>
    OBVIOUS
  <1>1. /\ x \in 0 .. Cols - 1 /\ y \in 0 .. Rows /\ (y = Rows => x = 0)
        /\ Cols \in Nat \ {0, 1} /\ Rows \in Nat /\ y \in Nat
    BY RowsOfMemory DEF ShownAt
  <1>2. RowStart(y) + x \in Words
    BY <1>1, CursorInMemory
  <1>3. s = [k \in Words |-> s[k]]
    <2>1. cell = [k \in Words |-> cell[k]]
      BY DEF ShownAt
    <2> QED BY <2>1 DEF Put
  <1>4. Lines(m) /\ Len(m[Len(m)]) = x + 1 /\ Holds(y, s, m)
    BY LongerHolds
  <1>5. NextX(x) \in 0 .. Cols - 1 /\ NextY(x, y) \in 0 .. Rows
    BY <1>1 DEF NextX, NextY
  <1>6. Len(n) = x + 1 /\ n = Append(l[Len(l)], c) /\ Word(l[Len(l)])
    <2>1. Len(l) \in Nat \ {0} /\ Word(l[Len(l)]) /\ Len(l[Len(l)]) = x
      BY LastLine
    <2>2. n = Append(l[Len(l)], c)
      BY DEF Last
    <2> QED BY <2>1, <2>2, Appended
  <1>7. Logged(l, c) = IF x + 1 < Cols THEN m ELSE Recent(Front(l) \o <<n, <<>>>>)
    <2>1. c # "NL"
      BY DEF Controls
    <2> QED BY <1>6, <2>1 DEF Logged
  <1>8. CASE x + 1 < Cols
    <2>1. NextX(x) = x + 1 /\ NextY(x, y) = y /\ Logged(l, c) = m
      BY <1>1, <1>7, <1>8 DEF NextX, NextY
    <2> QED BY <1>2, <1>3, <1>4, <1>5, <2>1
  <1>9. CASE ~(x + 1 < Cols)
    <2>1. NextX(x) = 0 /\ NextY(x, y) = y + 1
      BY <1>1, <1>9 DEF NextX, NextY
    <2> PICK e : e = Append(m, <<>>)
      OBVIOUS
    <2>2. Front(l) \o <<n, <<>>>> = e
      <3> PICK f : f = Front(l)
        OBVIOUS
      <3>1. Word(f)
        <4>1. Word(l) /\ Len(l) \in Nat \ {0}
          BY DEF ShownAt, Lines
        <4> PICK S : l \in Seq(S)
          BY <4>1 DEF Word
        <4>2. SubSeq(l, 1, Len(l) - 1) \in Seq(S)
          BY <4>1
        <4>3. Word(SubSeq(l, 1, Len(l) - 1))
          BY <4>2, WordOf
        <4> QED BY <4>3 DEF Front
      <3>2. f \o <<n, <<>>>> = Append(f \o <<n>>, <<>>)
        BY <3>1, EndedLine
      <3> QED BY <3>2
    <2>3. Lines(e) /\ Len(e[Len(e)]) = 0 /\ Holds(y + 1, s, e)
      BY <1>1, <1>4, NewLineHolds
    <2> PICK r : r = Recent(e)
      OBVIOUS
    <2>4. Lines(r) /\ r[Len(r)] = e[Len(e)] /\ Holds(y + 1, s, r)
      <3>1. y + 1 \in Nat
        BY <1>1
      <3> QED BY <2>3, <3>1, RecentHolds
    <2>5. Logged(l, c) = r
      BY <1>7, <1>9, <2>2
    <2> QED BY <1>2, <1>3, <1>5, <2>1, <2>3, <2>4, <2>5
  <1> QED BY <1>8, <1>9

(* ... and with it. *)
LEMMA CharacterShown ==
  ASSUME NEW x, NEW y, NEW cell, NEW l, ShownAt(x, y, cell, l), NEW c, c \notin Controls
  PROVE  /\ NextY(x, y) < Rows =>
              ShownAt(NextX(x), NextY(x, y), Put(x, y, cell, c), Logged(l, c))
         /\ NextY(x, y) >= Rows =>
              ShownAt(NextX(x), Rows - 2, CopyUp(Put(x, y, cell, c)), Logged(l, c))
  <1> PICK m : m = Logged(l, c)
    OBVIOUS
  <1> PICK s : s = Put(x, y, cell, c)
    OBVIOUS
  <1> PICK a, b : a = NextX(x) /\ b = NextY(x, y)
    OBVIOUS
  <1>1. /\ s = [k \in Words |-> s[k]] /\ a \in 0 .. Cols - 1 /\ b \in 0 .. Rows
        /\ Lines(m) /\ Len(m[Len(m)]) = a /\ Holds(b, s, m)
    BY CharacterHolds
  <1>2. Rows \in Nat \ {0, 1, 2}
    BY RowsOfMemory
  <1>3. ASSUME b < Rows PROVE ShownAt(a, b, s, m)
    <2>1. b # Rows
      BY <1>1, <1>2, <1>3
    <2> QED BY <1>1, <2>1 DEF ShownAt
  <1>4. ASSUME b >= Rows PROVE ShownAt(a, Rows - 2, CopyUp(s), m)
    <2>1. b = Rows
      BY <1>1, <1>2, <1>4
    <2>2. Holds(Rows - 2, CopyUp(s), m)
      BY <1>1, <2>1, ScrollHolds
    <2>3. Rows - 2 \in 0 .. Rows /\ Rows - 2 # Rows
      BY <1>2
    <2>4. CopyUp(s) = [k \in Words |-> CopyUp(s)[k]]
      BY DEF CopyUp
    <2> QED BY <1>1, <2>2, <2>3, <2>4 DEF ShownAt
  <1> QED BY <1>3, <1>4

(* A '\n' above the first row under the screen.                            *)
LEMMA NewLineShown ==
  ASSUME NEW x, NEW y, NEW cell, NEW l, ShownAt(x, y, cell, l), y < Rows
  PROVE  ShownAt(0, y + 1, cell, Logged(l, "NL"))
  <1>1. Cols \in Nat \ {0, 1} /\ Rows \in Nat /\ y \in Nat /\ y + 1 \in 0 .. Rows /\ 0 \in 0 .. Cols - 1
    <2>1. /\ x \in 0 .. Cols - 1 /\ y \in 0 .. Rows
          /\ Cols \in Nat \ {0, 1} /\ Rows \in Nat \ {0, 1, 2}
      BY RowsOfMemory DEF ShownAt
    <2> QED BY <2>1
  <1> PICK e : e = Append(l, <<>>)
    OBVIOUS
  <1>2. Lines(e) /\ Len(e[Len(e)]) = 0 /\ Holds(y + 1, cell, e)
    BY <1>1, NewLineHolds DEF ShownAt
  <1> PICK r : r = Recent(e)
    OBVIOUS
  <1>3. Lines(r) /\ r[Len(r)] = e[Len(e)] /\ Holds(y + 1, cell, r)
    <2>1. y + 1 \in Nat
      BY <1>1
    <2> QED BY <1>2, <2>1, RecentHolds
  <1>4. Logged(l, "NL") = r
    BY DEF Logged
  <1> QED BY <1>1, <1>2, <1>3, <1>4 DEF ShownAt

---------------------------------------------------------------------------
(* The device, with no store out of text memory so far.                    *)
Unharmed == FALSE
Screen(x, y, cell) == [x |-> x, y |-> y, cell |-> cell, wild |-> Unharmed]
Shown(d, l) == \E x, y, cell : d = Screen(x, y, cell) /\ ShownAt(x, y, cell, l)

(* Numbers that uint16_t holds, which the cursor's are.                    *)
LEMMA FitsUint16 == \A n \in Nat : n < Uint16 => n % Uint16 = n
  <1> PICK w \in Nat : w = Uint16
    BY RowsOfMemory
  <1>1. \A n \in Nat : n < w => n % w = n
    OBVIOUS
  <1> QED BY <1>1

LEMMA CursorFits ==
  ASSUME NEW x \in 0 .. Cols, NEW y \in 0 .. Rows + 1
  PROVE  x % Uint16 = x /\ y % Uint16 = y
  <1>1. /\ Cols \in Nat \ {0, 1} /\ Rows \in Nat \ {0, 1, 2}
        /\ TextRows \in Nat /\ TextRows >= 2 * Rows
        /\ Uint16 \in Nat /\ Uint16 > RowStart(TextRows)
    BY RowsOfMemory
  <1>2. TextRows * Cols >= Cols /\ TextRows * Cols >= TextRows
    <2> PICK t \in Nat \ {0}, c \in Nat \ {0} : t = TextRows /\ c = Cols
      BY <1>1
    <2> PICK a \in Nat, b \in Nat : t = a + 1 /\ c = b + 1
      <3>1. t - 1 \in Nat /\ c - 1 \in Nat /\ t = (t - 1) + 1 /\ c = (c - 1) + 1
        OBVIOUS
      <3> QED BY <3>1
    <2>1. t * c = ((a * b + a) + b) + 1 /\ a * b \in Nat
      OBVIOUS
    <2>2. t * c >= c /\ t * c >= t
      BY <2>1
    <2> QED BY <2>2
  <1>3. Uint16 > Cols /\ Uint16 > TextRows
    <2> PICK p : p = TextRows * Cols
      OBVIOUS
    <2>1. p >= Cols /\ p >= TextRows /\ Uint16 > p /\ p \in Nat
      BY <1>1, <1>2 DEF RowStart
    <2> QED BY <1>1, <2>1
  <1>4. x \in Nat /\ x < Uint16 /\ y \in Nat /\ y < Uint16
    BY <1>1, <1>3
  <1> QED BY <1>4, FitsUint16

(* The column behind the last one wraps to the first.                      *)
LEMMA WrapsToFirst == WrapColumn(Cols) = 0
  <1>0. Cols \in Nat \ {0} /\ Uint16 \in Nat \ {0}
    <2>1. Uint16 \in Nat /\ Uint16 > RowStart(TextRows) /\ Cols \in Nat \ {0, 1}
          /\ TextRows \in Nat
      BY RowsOfMemory
    <2>2. RowStart(TextRows) \in Nat
      BY <2>1, RowsOfMemory
    <2> QED BY <2>1, <2>2
  <1> PICK c \in Nat \ {0}, w \in Nat \ {0} : c = Cols /\ w = Uint16
    BY <1>0
  <1>1. c - c = 0 /\ 0 % c = 0 /\ 0 % w = 0
    OBVIOUS
  <1> QED BY <1>1 DEF WrapColumn, Remainder

(* vga_putch() as a whole, of plain text. *)
LEMMA PutchShows ==
  ASSUME NEW d, NEW l, Shown(d, l), NEW c, StaysPlain(d, c)
  PROVE  Shown(Putch(d, c), Logged(l, c))
  <1> PICK x, y, cell : d = Screen(x, y, cell) /\ ShownAt(x, y, cell, l)
    BY DEF Shown
  <1>1. d.x = x /\ d.y = y /\ d.cell = cell
    BY DEF Screen
  <1>2. /\ x \in 0 .. Cols - 1 /\ y \in 0 .. Rows
        /\ Cols \in Nat \ {0, 1} /\ Rows \in Nat \ {0, 1, 2}
    BY RowsOfMemory DEF ShownAt
  <1>3. c \notin {"BS", "TAB", "CR"} /\ (c = "NL" => y < Rows)
    BY <1>1 DEF StaysPlain
  <1>4. CASE c = "NL"
    <2>1. Putch(d, c) = [d EXCEPT !.x = 0, !.y = (@ + 1) % Uint16]
      BY <1>4 DEF Putch
    <2>2. (y + 1) % Uint16 = y + 1
      <3>1. y + 1 \in 0 .. Rows + 1 /\ 0 \in 0 .. Cols
        BY <1>2
      <3> QED BY <3>1, CursorFits
    <2>3. Putch(d, c) = Screen(0, y + 1, cell)
      BY <2>1, <2>2 DEF Screen
    <2>4. ShownAt(0, y + 1, cell, Logged(l, c))
      BY <1>3, <1>4, NewLineShown
    <2> QED BY <2>3, <2>4 DEF Shown
  <1>5. CASE c = "BEL"
    <2>1. Putch(d, c) = d
      BY <1>5 DEF Putch
    <2>2. Logged(l, c) = l
      BY <1>5 DEF Logged, Controls
    <2> QED BY <2>1, <2>2
  <1>6. CASE c \notin Controls
    <2> PICK s : s = Put(x, y, cell, c)
      OBVIOUS
    <2> PICK a, b : a = NextX(x) /\ b = NextY(x, y)
      OBVIOUS
    <2>1. RowStart(y) + x \in Words /\ Cols * y = RowStart(y)
      <3>1. y \in Nat
        BY <1>2
      <3>2. RowStart(y) + x \in Words
        BY <1>6, CharacterHolds
      <3>3. Cols * y = RowStart(y)
        BY <3>1, RowsOfMemory
      <3> QED BY <3>2, <3>3
    <2>2. Store(d, Cols * d.y + d.x, c) = Screen(x, y, s)
      BY <1>1, <2>1 DEF Store, Screen, Put
    <2>3. (x + 1) % Uint16 = x + 1 /\ (y + 1) % Uint16 = y + 1
      <3>1. x + 1 \in 0 .. Cols /\ y + 1 \in 0 .. Rows + 1
        BY <1>2
      <3> QED BY <3>1, CursorFits
    <2>4. [Store(d, Cols * d.y + d.x, c) EXCEPT !.x = (@ + 1) % Uint16] = Screen(x + 1, y, s)
      <3> PICK e, v : e = Screen(x, y, s) /\ v = x + 1
        OBVIOUS
      <3>1. (e.x + 1) % Uint16 = v
        <4>1. e.x = x
          BY ONLY e = Screen(x, y, s) DEF Screen
        <4> QED BY <2>3, <4>1
      <3>2. [e EXCEPT !.x = (@ + 1) % Uint16] = [e EXCEPT !.x = v]
        BY <3>1
      <3>3. [e EXCEPT !.x = v] = Screen(v, y, s)
        BY ONLY e = Screen(x, y, s) DEF Screen
      <3> QED BY <2>2, <3>2, <3>3
    <2>5. Putch(d, c) = Scroll(Screen(x + 1, y, s))
      <3>1. /\ c # "BS" /\ c # "TAB" /\ c # "CR" /\ c # "NL" /\ c # "BEL"
        BY <1>6 DEF Controls
      <3>2. Putch(d, c)
              = Scroll([Store(d, Cols * d.y + d.x, c) EXCEPT !.x = (@ + 1) % Uint16])
        BY <3>1 DEF Putch
      <3> QED BY <2>4, <3>2
    <2>6. Scroll(Screen(x + 1, y, s))
            = IF b >= Rows THEN Screen(a, Rows - 2, CopyUp(s)) ELSE Screen(a, b, s)
      <3> PICK e : e = Screen(x + 1, y, s)
        OBVIOUS
      <3> DEFINE w == IF e.x >= Cols
                      THEN [e EXCEPT !.x = WrapColumn(e.x), !.y = (e.y + 1) % Uint16] ELSE e
      <3>1. w = Screen(a, b, s)
        <4>1. CASE x + 1 = Cols
          <5>1. e.x >= Cols /\ WrapColumn(e.x) = 0 /\ (e.y + 1) % Uint16 = y + 1
            BY <1>2, <2>3, <4>1, WrapsToFirst DEF Screen
          <5> PICK v : v = y + 1
            OBVIOUS
          <5>2. [e EXCEPT !.x = 0, !.y = v] = Screen(0, v, s)
            <6> PICK u, q : u = 0 /\ q = x + 1
              OBVIOUS
            <6>1. e = Screen(q, y, s)
              OBVIOUS
            <6> PICK f : f = [e EXCEPT !.x = u]
              OBVIOUS
            <6>2. f = Screen(u, y, s)
              BY ONLY <6>1, f = [e EXCEPT !.x = u] DEF Screen
            <6>3. [f EXCEPT !.y = v] = Screen(u, v, s)
              BY ONLY <6>2 DEF Screen
            <6>4. [e EXCEPT !.x = u, !.y = v] = [f EXCEPT !.y = v]
              BY ONLY f = [e EXCEPT !.x = u]
            <6> QED BY <6>3, <6>4
          <5>3. a = 0 /\ b = v
            BY <4>1 DEF NextX, NextY
          <5> QED BY <5>1, <5>2, <5>3
        <4>2. CASE x + 1 # Cols
          <5>1. ~(e.x >= Cols)
            BY <1>2, <4>2 DEF Screen
          <5> QED BY <4>2, <5>1 DEF NextX, NextY
        <4> QED BY <4>1, <4>2
      <3>2. Scroll(e) = IF w.y >= Rows THEN [w EXCEPT !.y = Rows - 2, !.cell = CopyUp(w.cell)]
                        ELSE w
        BY DEF Scroll
      <3> HIDE DEF w
      <3>3. w.y = b /\ w.cell = s
        BY <3>1 DEF Screen
      <3>4. [w EXCEPT !.y = Rows - 2, !.cell = CopyUp(s)] = Screen(a, Rows - 2, CopyUp(s))
        <4> PICK v, u : v = Rows - 2 /\ u = CopyUp(s)
          OBVIOUS
        <4> PICK g, f : g = w /\ f = [g EXCEPT !.y = v]
          OBVIOUS
        <4>1. g = Screen(a, b, s)
          BY <3>1
        <4>2. f = Screen(a, v, s)
          BY ONLY <4>1, f = [g EXCEPT !.y = v] DEF Screen
        <4>3. [f EXCEPT !.cell = u] = Screen(a, v, u)
          BY ONLY <4>2 DEF Screen
        <4>4. [g EXCEPT !.y = v, !.cell = u] = [f EXCEPT !.cell = u]
          BY ONLY f = [g EXCEPT !.y = v]
        <4> QED BY <4>3, <4>4
      <3> QED BY <3>1, <3>2, <3>3, <3>4
    <2>7. b \in 0 .. Rows
      BY <1>6, CharacterHolds
    <2>8. CASE b < Rows
      <3>1. ShownAt(a, b, s, Logged(l, c))
        BY <1>6, <2>8, CharacterShown
      <3>2. Putch(d, c) = Screen(a, b, s)
        BY <1>2, <2>5, <2>6, <2>7, <2>8
      <3> QED BY <3>1, <3>2 DEF Shown
    <2>9. CASE b >= Rows
      <3>1. ShownAt(a, Rows - 2, CopyUp(s), Logged(l, c))
        BY <1>6, <2>9, CharacterShown
      <3>2. Putch(d, c) = Screen(a, Rows - 2, CopyUp(s))
        BY <2>5, <2>6, <2>9
      <3> QED BY <3>1, <3>2 DEF Shown
    <2> QED BY <1>2, <2>7, <2>8, <2>9
  <1> QED BY <1>3, <1>4, <1>5, <1>6 DEF Controls

---------------------------------------------------------------------------
(* A whole text.  Printed() goes through it with FoldLeft(), whose         *)
(* recursive function is first shown to exist.                             *)

(* Of numbers one is the least, since < is well-founded on them. Below,    *)
(* what holds for all of them is shown by the least for which it would not *)
(* hold.                                                                   *)
LEMMA LeastOf ==
  ASSUME NEW T, T \subseteq Nat, T # {}
  PROVE  \E k \in T : \A y \in T : k <= y
  <1>1. PICK k \in T : \A y \in T : ~(<<y, k>> \in OpToRel(<, Nat))
    BY NatLessThanWellFounded, WFMin
  <1>2. \A x, y \in Nat : y < x => <<y, x>> \in OpToRel(<, Nat)
    BY DEF OpToRel
  <1>3. \A y \in T : ~(y < k)
    BY <1>1, <1>2
  <1>4. \A y \in T : k <= y
    BY <1>3
  <1> QED BY <1>4

(* What Max() chooses, once the greatest number is known.                  *)
LEMMA GreatestOf ==
  ASSUME NEW t, NEW k \in t, t \subseteq Int, \A y \in t : k >= y
  PROVE  Max(t) = k
  <1>1. \A x \in t : (\A y \in t : x >= y) => x = k
    <2> SUFFICES ASSUME NEW x \in t, \A y \in t : x >= y PROVE x = k
      OBVIOUS
    <2>1. x >= k /\ k >= x /\ x \in Int /\ k \in Int
      OBVIOUS
    <2> QED BY <2>1
  <1> QED BY <1>1 DEF Max

(* Device, log and whether the text is plain, after one character more.    *)
After(p, c) == [dev |-> Putch(p.dev, c), log |-> Logged(p.log, c),
                plain |-> p.plain /\ StaysPlain(p.dev, c)]

(* The recursion of FoldLeft() that prints s[1], ..., s[k].                *)
Printing(b, s, k, f) ==
  f = [t \in SUBSET (1 .. k) |-> IF t = {} THEN b ELSE After(f[t \ {Max(t)}], s[Max(t)])]

(* There is such a function for any number of characters: a least number   *)
(* for which there were none would be neither 0 nor one more than another. *)
LEMMA PrintingExists ==
  ASSUME NEW b, NEW s
  PROVE  \A k \in Nat : \E f : Printing(b, s, k, f)
  <1> DEFINE T == {k \in Nat : ~\E f : Printing(b, s, k, f)}
  <1> SUFFICES ASSUME T # {} PROVE FALSE
    OBVIOUS
  <1>1. PICK k \in T : \A y \in T : k <= y
    <2>1. T \subseteq Nat
      OBVIOUS
    <2> HIDE DEF T
    <2> QED BY <2>1, LeastOf
  <1>2. k # 0
    <2>1. 1 .. 0 = {}
      OBVIOUS
    <2> DEFINE f == [t \in SUBSET (1 .. 0) |-> b]
    <2>2. \A t \in SUBSET (1 .. 0) : t = {}
      BY <2>1
    <2>3. f = [t \in SUBSET (1 .. 0) |->
                 IF t = {} THEN b ELSE After(f[t \ {Max(t)}], s[Max(t)])]
      BY <2>2
    <2>4. Printing(b, s, 0, f)
      BY <2>3 DEF Printing
    <2> QED BY <2>4
  <1>3. k \in Nat /\ k - 1 \in Nat
    BY <1>2
  <1> PICK j \in Nat : j = k - 1
    BY <1>3
  <1>4. \E f : Printing(b, s, j, f)
    BY <1>1, <1>3
  <1> PICK f : Printing(b, s, j, f)
    BY <1>4
  <1>5. k = j + 1 /\ 1 .. k = (1 .. j) \cup {k} /\ k \notin 1 .. j
    BY <1>3
  <1> DEFINE g == [t \in SUBSET (1 .. k) |->
                     IF k \in t THEN After(f[t \ {k}], s[k]) ELSE f[t]]
  <1>6. ASSUME NEW t \in SUBSET (1 .. k)
        PROVE  g[t] = IF t = {} THEN b ELSE After(g[t \ {Max(t)}], s[Max(t)])
    <2>1. CASE k \in t
      <3>1. Max(t) = k
        <4>1. \A y \in t : k >= y
          BY <1>3
        <4>2. t \subseteq Int
          OBVIOUS
        <4> QED BY <2>1, <4>1, <4>2, GreatestOf
      <3>2. t \ {k} \in SUBSET (1 .. j) /\ t \ {k} \in SUBSET (1 .. k)
        BY <1>5
      <3>3. g[t \ {k}] = f[t \ {k}]
        BY <3>2
      <3> QED BY <2>1, <3>1, <3>3
    <2>2. CASE k \notin t
      <3>1. t \in SUBSET (1 .. j)
        BY <1>5, <2>2
      <3>2. f[t] = IF t = {} THEN b ELSE After(f[t \ {Max(t)}], s[Max(t)])
        BY <3>1 DEF Printing
      <3>3. g[t] = f[t]
        BY <2>2
      <3>4. t \ {Max(t)} \in SUBSET (1 .. k) /\ k \notin t \ {Max(t)}
        BY <2>2
      <3>5. g[t \ {Max(t)}] = f[t \ {Max(t)}]
        BY <3>4
      <3> QED BY <3>2, <3>3, <3>5
    <2> QED BY <2>1, <2>2
  <1>7. DOMAIN g = SUBSET (1 .. k) /\ g = [t \in SUBSET (1 .. k) |-> g[t]]
    OBVIOUS
  <1> HIDE DEF g
  <1>8. Printing(b, s, k, g)
    BY <1>6, <1>7 DEF Printing
  <1> QED BY <1>8

Now == [dev |-> dev, log |-> log, plain |-> plain]

(* Printed() is the value of such a function. *)
LEMMA PrintedIs ==
  ASSUME NEW s, NEW k \in Nat, DOMAIN s = 1 .. k
  PROVE  \E f : Printing(Now, s, k, f) /\ Printed(s) = f[1 .. k]
  <1> DEFINE iter[t \in SUBSET (1 .. k)] ==
               IF t = {} THEN Now ELSE After(iter[t \ {Max(t)}], s[Max(t)])
  <1>1. iter = CHOOSE f : Printing(Now, s, k, f)
    BY DEF Printing
  <1>2. Printing(Now, s, k, iter)
    BY <1>1, PrintingExists
  <1>3. Printed(s) = iter[1 .. k]
    BY DEF Printed, FoldLeft, MapThenFoldSet, Now, After
  <1> QED BY <1>2, <1>3

(* It prints one character after the other.                                *)
LEMMA PrintingStep ==
  ASSUME NEW b, NEW s, NEW k \in Nat, NEW f, Printing(b, s, k, f)
  PROVE  /\ f[1 .. 0] = b
         /\ \A j \in Nat : j < k => f[1 .. j + 1] = After(f[1 .. j], s[j + 1])
  <1>1. f[1 .. 0] = b
    <2>1. 1 .. 0 = {}
      OBVIOUS
    <2> QED BY <2>1 DEF Printing
  <1>2. ASSUME NEW j \in Nat, j < k
        PROVE  f[1 .. j + 1] = After(f[1 .. j], s[j + 1])
    <2> PICK t, u : t = 1 .. j + 1 /\ u = 1 .. j
      OBVIOUS
    <2>1. t \in SUBSET (1 .. k) /\ t # {} /\ t \ {j + 1} = u
      BY <1>2
    <2>2. Max(t) = j + 1
      <3>1. j + 1 \in t /\ t \subseteq Int /\ \A y \in t : j + 1 >= y
        OBVIOUS
      <3> QED BY <3>1, GreatestOf
    <2>3. f[t] = IF t = {} THEN b ELSE After(f[t \ {Max(t)}], s[Max(t)])
      BY <2>1 DEF Printing
    <2> QED BY <2>1, <2>2, <2>3
  <1> QED BY <1>1, <1>2

(* A text that stays plain shows on a screen that shows the log.           *)
ShownIfPlain(p) == p.plain \in BOOLEAN /\ (p.plain = TRUE => Shown(p.dev, p.log))

LEMMA PrintedShows ==
  ASSUME NEW s, Word(s), plain \in BOOLEAN, plain = TRUE => Shown(dev, log)
  PROVE  ShownIfPlain(Printed(s))
  <1>1. Len(s) \in Nat /\ DOMAIN s = 1 .. Len(s)
    <2> PICK S : s \in Seq(S)
      BY DEF Word
    <2> QED OBVIOUS
  <1> PICK k \in Nat : k = Len(s)
    BY <1>1
  <1>2. PICK f : Printing(Now, s, k, f) /\ Printed(s) = f[1 .. k]
    BY <1>1, PrintedIs
  <1>3. /\ f[1 .. 0] = Now
        /\ \A j \in Nat : j < k => f[1 .. j + 1] = After(f[1 .. j], s[j + 1])
    <2> PICK b : b = Now
      OBVIOUS
    <2>1. Printing(b, s, k, f)
      BY <1>2
    <2>2. /\ f[1 .. 0] = b
          /\ \A j \in Nat : j < k => f[1 .. j + 1] = After(f[1 .. j], s[j + 1])
      BY ONLY <2>1, k \in Nat, PrintingStep
    <2> QED BY <2>2
  <1> DEFINE T == {j \in Nat : j <= k /\ ~ShownIfPlain(f[1 .. j])}
  <1>4. T = {}
    <2> SUFFICES ASSUME T # {} PROVE FALSE
      OBVIOUS
    <2>1. PICK j \in T : \A y \in T : j <= y
      <3>1. T \subseteq Nat
        OBVIOUS
      <3> HIDE DEF T
      <3> QED BY <3>1, LeastOf
    <2>2. j \in Nat /\ j <= k /\ ~ShownIfPlain(f[1 .. j])
      BY <2>1
    <2>3. j # 0
      <3>1. Now.plain = plain /\ Now.dev = dev /\ Now.log = log
        BY DEF Now
      <3>2. ShownIfPlain(Now)
        BY <3>1 DEF ShownIfPlain
      <3> QED BY <1>3, <2>2, <3>2
    <2> PICK i \in Nat : i = j - 1
      BY <2>2, <2>3
    <2>4. j = i + 1 /\ i < k /\ i < j
      BY <2>2
    <2> PICK p, c : p = f[1 .. i] /\ c = s[i + 1]
      OBVIOUS
    <2>5. ShownIfPlain(p)
      BY <2>1, <2>2, <2>4
    <2> PICK q : q = After(p, c)
      OBVIOUS
    <2>6. f[1 .. j] = q
      BY <1>3, <2>4
    <2>7. q.dev = Putch(p.dev, c) /\ q.log = Logged(p.log, c)
      BY DEF After
    <2>8. q.plain = (p.plain /\ StaysPlain(p.dev, c))
      BY DEF After
    <2>9. q.plain \in BOOLEAN
      BY <2>8
    <2>10. ASSUME q.plain = TRUE PROVE Shown(q.dev, q.log)
      <3>1. p.plain = TRUE /\ StaysPlain(p.dev, c)
        BY <2>5, <2>8, <2>10 DEF ShownIfPlain
      <3>2. Shown(p.dev, p.log)
        BY <2>5, <3>1 DEF ShownIfPlain
      <3>3. Shown(Putch(p.dev, c), Logged(p.log, c))
        BY ONLY <3>1, <3>2, PutchShows
      <3> QED BY <2>7, <3>3
    <2> QED BY <2>2, <2>6, <2>9, <2>10 DEF ShownIfPlain
  <1>5. ShownIfPlain(f[1 .. k])
    BY <1>4
  <1> QED BY <1>2, <1>5

LEMMA PrintedPlain ==
  ASSUME NEW s, Word(s), plain \in BOOLEAN
  PROVE  Printed(s).plain \in BOOLEAN
  <1>1. Len(s) \in Nat /\ DOMAIN s = 1 .. Len(s)
    <2> PICK S : s \in Seq(S)
      BY DEF Word
    <2> QED OBVIOUS
  <1> PICK k \in Nat : k = Len(s)
    BY <1>1
  <1>2. PICK f : Printing(Now, s, k, f) /\ Printed(s) = f[1 .. k]
    BY <1>1, PrintedIs
  <1>3. /\ f[1 .. 0] = Now
        /\ \A j \in Nat : j < k => f[1 .. j + 1] = After(f[1 .. j], s[j + 1])
    <2> PICK b : b = Now
      OBVIOUS
    <2>1. Printing(b, s, k, f)
      BY <1>2
    <2>2. /\ f[1 .. 0] = b
          /\ \A j \in Nat : j < k => f[1 .. j + 1] = After(f[1 .. j], s[j + 1])
      BY ONLY <2>1, k \in Nat, PrintingStep
    <2> QED BY <2>2
  <1>4. CASE k = 0
    <2>1. Printed(s) = Now
      BY <1>2, <1>3, <1>4
    <2>2. Now.plain = plain
      BY DEF Now
    <2> QED BY <2>1, <2>2
  <1>5. CASE k # 0
    <2> PICK i \in Nat : k = i + 1 /\ i < k
      <3>1. k - 1 \in Nat /\ k = (k - 1) + 1 /\ k - 1 < k
        BY <1>5
      <3> QED BY <3>1
    <2> PICK p, c : p = f[1 .. i] /\ c = s[i + 1]
      OBVIOUS
    <2>1. Printed(s) = After(p, c)
      BY <1>2, <1>3
    <2>2. After(p, c).plain = (p.plain /\ StaysPlain(p.dev, c))
      BY DEF After
    <2> QED BY <2>1, <2>2
  <1> QED BY <1>4, <1>5

---------------------------------------------------------------------------
(* Where a task is within vga_putch(), and what that makes of a screen     *)
(* which shows the log.                                                    *)
Between == {"idle", "next", "where"}
WordLoaded == {"save", "selectHigh", "high", "outHigh", "selectLow", "low", "outLow", "restore"}
NewLine    == {"newline", "storeY"}
FullLine   == {"diff", "wrapY", "storeWrapY", "wrapX"}
Printable  == {"column", "write", "increment", "storeX", "wrap", "bottom", "copy"} \cup FullLine
Stage(x, y, cell) ==
  LET s == Put(x, y, cell, NextChar)
  IN  /\ pc \in Between \cup WordLoaded \cup NewLine \cup Printable
      /\ pc \in Between \cup WordLoaded => dev = Screen(x, y, cell)
      /\ pc \in NewLine => NextChar = "NL" /\ y < Rows /\ dev = Screen(0, y, cell)
      /\ pc = "storeY" => reg = y + 1
      /\ pc \in Printable => NextChar \notin Controls
      /\ pc \in {"column", "write"} => dev = Screen(x, y, cell)
      /\ pc = "column" => reg = RowStart(y)
      /\ pc = "write"  => reg = RowStart(y) + x
      /\ pc \in {"increment", "storeX"} => dev = Screen(x, y, s)
      /\ pc = "storeX" => reg = x + 1
      /\ pc \in {"wrap", "diff", "wrapY", "storeWrapY"} => dev = Screen(x + 1, y, s)
      /\ pc \in FullLine => x + 1 = Cols
      /\ pc \in {"wrapY", "storeWrapY", "wrapX"} => diff = 0
      /\ pc = "storeWrapY" => reg = y + 1
      /\ pc = "wrapX"  => dev = Screen(x + 1, y + 1, s)
      /\ pc = "bottom" => dev = Screen(NextX(x), NextY(x, y), s)
      /\ pc = "copy"   => dev = Screen(NextX(x), Rows - 2, s) /\ NextY(x, y) >= Rows
StagedAt(x, y, cell) == ShownAt(x, y, cell, log) /\ Stage(x, y, cell)
Staged == \E x, y, cell : StagedAt(x, y, cell)

(* The same of vga_update_cursor() and the cursor of the CRTC.             *)
CursorStaged ==
  /\ pc \in WordLoaded => reg = CursorWord(dev)
  /\ pc \in {"outHigh", "selectLow", "low", "outLow", "restore"} =>
       crt.vregs[CLHR] = reg \div 256
  /\ pc \in {"selectLow", "low", "outLow", "restore"} => crt.port[CLHR] = reg \div 256
  /\ pc \in {"outLow", "restore"} => crt.vregs[CLLR] = reg % 256
  /\ pc = "restore" => crt.port[CLLR] = reg % 256
  /\ pc = "idle" => crt.port[CLHR] * 256 + crt.port[CLLR] = CursorWord(dev)

(* A step which leaves a screen's log and text for the rest of the task's  *)
(* way through vga_putch().                                                *)
LEMMA PutControlStaged ==
  ASSUME NEW x, NEW y, NEW cell, StagedAt(x, y, cell),
         PutControl, StaysPlain(dev, NextChar)
  PROVE  Staged'
  <1>1. pc = "next" /\ dev = Screen(x, y, cell) /\ ShownAt(x, y, cell, log)
    BY DEF StagedAt, Stage, PutControl, At, Between
  <1>2. NextChar \notin {"BS", "TAB", "CR"} /\ (NextChar = "NL" => y < Rows) /\ dev.y = y
    BY <1>1 DEF StaysPlain, Screen
  <1>3. CASE NextChar = "BEL"
    <2>1. pc' = "next" /\ dev' = dev /\ log' = Logged(log, NextChar)
      BY <1>2, <1>3 DEF PutControl, At, Done
    <2>2. log' = log
      BY <1>3, <2>1 DEF Logged, Controls
    <2>3. ShownAt(x, y, cell, log') /\ Stage(x, y, cell)'
      BY <1>1, <2>1, <2>2
      DEF Stage, Between, WordLoaded, NewLine, Printable, FullLine
    <2> QED BY <2>3 DEF Staged, StagedAt
  <1>4. CASE NextChar = "NL"
    <2>1. pc' = "newline" /\ Cursor(0, dev.y) /\ str' = str /\ log' = log
      BY <1>2, <1>4 DEF PutControl, At, NotDone
    <2>2. y \in 0 .. Rows + 1 /\ 0 \in 0 .. Cols
      <3>1. y \in 0 .. Rows /\ Rows \in Nat /\ Cols \in Nat
        BY <1>1, RowsOfMemory DEF ShownAt
      <3> QED BY <3>1
    <2>3. 0 % Uint16 = 0 /\ y % Uint16 = y
      BY <2>2, CursorFits
    <2>4. dev' = Screen(0, y, cell)
      <3>1. dev' = [dev EXCEPT !.x = 0, !.y = y]
        BY <1>2, <2>1, <2>3 DEF Cursor
      <3> QED BY <1>1, <3>1 DEF Screen
    <2>5. NextChar' = NextChar
      BY <2>1 DEF NextChar
    <2>6. ShownAt(x, y, cell, log') /\ Stage(x, y, cell)'
      BY <1>1, <1>2, <1>4, <2>1, <2>4, <2>5
      DEF Stage, Between, WordLoaded, NewLine, Printable, FullLine
    <2> QED BY <2>6 DEF Staged, StagedAt
  <1>5. NextChar = "BEL" \/ NextChar = "NL"
    BY <1>2 DEF PutControl
  <1> QED BY <1>3, <1>4, <1>5

(* The steps that load, while dev stays.                                   *)
LEMMA LoadsStaged ==
  ASSUME NEW x, NEW y, NEW cell, StagedAt(x, y, cell),
         PutPrintable \/ LoadCursor \/ WrapTest \/ Diff \/ EndOfString \/ UpdateStep
  PROVE  StagedAt(x, y, cell)'
  <1>1. /\ x \in 0 .. Cols - 1 /\ y \in 0 .. Rows
        /\ Cols \in Nat \ {0, 1} /\ Rows \in Nat \ {0, 1, 2} /\ y \in Nat
    BY RowsOfMemory DEF StagedAt, ShownAt
  <1>2. /\ dev' = dev /\ str' = str /\ log' = log
    BY DEF PutPrintable, LoadCursor, Load, WrapTest, Diff, EndOfString, UpdateStep, Crt, At, NotDone
  <1>3. NextChar' = NextChar /\ ShownAt(x, y, cell, log')
    BY <1>2 DEF NextChar, StagedAt
  <1> USE DEF Stage, Between, WordLoaded, NewLine, Printable, FullLine
  <1>4. Stage(x, y, cell)
    BY DEF StagedAt
  <1>5. dev.x = IF pc \in {"wrap", "diff", "wrapY", "storeWrapY"} THEN x + 1
                ELSE IF pc \in NewLine THEN 0
                ELSE IF pc \in {"wrapX", "bottom", "copy"} THEN dev.x ELSE x
    BY <1>4 DEF Screen
  <1>6. pc \in {"next", "newline", "column", "write", "increment", "storeX", "wrap",
                "diff", "wrapY", "storeWrapY"} => dev.y = y
    BY <1>4 DEF Screen
  <1>7. CASE PutPrintable
    <2>1. pc = "next" /\ pc' = "column" /\ NextChar \notin Controls /\ reg' = Cols * dev.y
      BY <1>7 DEF PutPrintable, At
    <2>2. reg' = RowStart(y)
      BY <1>1, <1>6, <2>1, RowsOfMemory
    <2>3. Stage(x, y, cell)'
      BY <1>2, <1>3, <1>4, <2>1, <2>2
    <2> QED BY <1>3, <2>3 DEF StagedAt
  <1>8. CASE LoadCursor
    <2>1. pc # "decrement"
      BY <1>4
    <2>2. CASE Load("newline", "storeY", dev.y + 1)
      <3>1. pc = "newline" /\ pc' = "storeY" /\ reg' = y + 1
        BY <1>6, <2>2 DEF Load, At
      <3>2. Stage(x, y, cell)'
        BY <1>2, <1>3, <1>4, <3>1
      <3> QED BY <1>3, <3>2 DEF StagedAt
    <2>3. CASE Load("column", "write", reg + dev.x)
      <3>1. pc = "column" /\ pc' = "write" /\ reg' = RowStart(y) + x
        BY <1>4, <1>5, <2>3 DEF Load, At
      <3>2. Stage(x, y, cell)'
        BY <1>2, <1>3, <1>4, <3>1
      <3> QED BY <1>3, <3>2 DEF StagedAt
    <2>4. CASE Load("increment", "storeX", dev.x + 1)
      <3>1. pc = "increment" /\ pc' = "storeX" /\ reg' = x + 1
        BY <1>5, <2>4 DEF Load, At
      <3>2. Stage(x, y, cell)'
        BY <1>2, <1>3, <1>4, <3>1
      <3> QED BY <1>3, <3>2 DEF StagedAt
    <2>5. CASE Load("wrapY", "storeWrapY", dev.y + 1)
      <3>1. pc = "wrapY" /\ pc' = "storeWrapY" /\ reg' = y + 1 /\ diff' = diff
        BY <1>6, <2>5 DEF Load, At
      <3>2. Stage(x, y, cell)'
        BY <1>2, <1>3, <1>4, <3>1
      <3> QED BY <1>3, <3>2 DEF StagedAt
    <2> QED BY <1>8, <2>1, <2>2, <2>3, <2>4, <2>5 DEF LoadCursor, Load, At
  <1>9. CASE WrapTest
    <2>1. pc = "wrap" /\ dev.x = x + 1
      BY <1>5, <1>9 DEF WrapTest, At
    <2>2. CASE x + 1 >= Cols
      <3>1. pc' = "diff" /\ x + 1 = Cols
        BY <1>1, <1>9, <2>1, <2>2 DEF WrapTest, At
      <3>2. Stage(x, y, cell)'
        BY <1>2, <1>3, <1>4, <2>1, <3>1
      <3> QED BY <1>3, <3>2 DEF StagedAt
    <2>3. CASE ~(x + 1 >= Cols)
      <3>1. pc' = "bottom" /\ x + 1 # Cols
        BY <1>1, <1>9, <2>1, <2>3 DEF WrapTest, At
      <3>2. NextX(x) = x + 1 /\ NextY(x, y) = y
        BY <3>1 DEF NextX, NextY
      <3>3. Stage(x, y, cell)'
        BY <1>2, <1>3, <1>4, <2>1, <3>1, <3>2
      <3> QED BY <1>3, <3>3 DEF StagedAt
    <2> QED BY <2>2, <2>3
  <1>10. CASE Diff
    <2>1. pc = "diff" /\ pc' = "wrapY" /\ diff' = WrapColumn(dev.x)
      BY <1>10 DEF Diff, At
    <2>2. dev.x = Cols
      BY <1>4, <1>5, <2>1
    <2>3. diff' = 0
      BY <2>1, <2>2, WrapsToFirst
    <2>4. Stage(x, y, cell)'
      BY <1>2, <1>3, <1>4, <2>1, <2>3
    <2> QED BY <1>3, <2>4 DEF StagedAt
  <1>11. CASE EndOfString
    <2>1. pc = "next" /\ pc' = "where"
      BY <1>11 DEF EndOfString, At
    <2>2. Stage(x, y, cell)'
      BY <1>2, <1>3, <1>4, <2>1
    <2> QED BY <1>3, <2>2 DEF StagedAt
  <1>12. CASE UpdateStep
    <2>1. pc \in {"where"} \cup WordLoaded /\ pc' \in {"idle"} \cup WordLoaded
      BY <1>12 DEF UpdateStep, Load, Crt, At
    <2>2. Stage(x, y, cell)'
      BY <1>2, <1>3, <1>4, <2>1
    <2> QED BY <1>3, <2>2 DEF StagedAt
  <1> QED BY <1>7, <1>8, <1>9, <1>10, <1>11, <1>12

(* The character's store. *)
LEMMA WriteStaged ==
  ASSUME NEW x, NEW y, NEW cell, StagedAt(x, y, cell), Write
  PROVE  StagedAt(x, y, cell)'
  <1> USE DEF Stage, Between, WordLoaded, NewLine, Printable, FullLine
  <1>1. /\ pc = "write" /\ pc' = "increment" /\ str' = str /\ log' = log
        /\ dev' = Store(dev, reg, NextChar)
    BY DEF Write, At, NotDone
  <1>2. /\ dev = Screen(x, y, cell) /\ reg = RowStart(y) + x /\ NextChar \notin Controls
        /\ ShownAt(x, y, cell, log)
    BY <1>1 DEF StagedAt
  <1>3. reg \in Words
    BY <1>2, CharacterHolds
  <1>4. dev' = Screen(x, y, Put(x, y, cell, NextChar))
    BY <1>1, <1>2, <1>3 DEF Store, Screen, Put
  <1>5. NextChar' = NextChar
    BY <1>1 DEF NextChar
  <1>6. Stage(x, y, cell)'
    BY <1>1, <1>2, <1>4, <1>5
  <1> QED BY <1>1, <1>2, <1>6 DEF StagedAt

(* The cursor's stores, of which the last ones end a character.            *)
LEMMA StoreCursorStaged ==
  ASSUME NEW x, NEW y, NEW cell, StagedAt(x, y, cell), StoreCursor
  PROVE  Staged'
  <1> USE DEF Stage, Between, WordLoaded, NewLine, Printable, FullLine
  <1> PICK s : s = Put(x, y, cell, NextChar)
    OBVIOUS
  <1>1. /\ x \in 0 .. Cols - 1 /\ y \in 0 .. Rows
        /\ Cols \in Nat \ {0, 1} /\ Rows \in Nat \ {0, 1, 2}
        /\ ShownAt(x, y, cell, log) /\ Stage(x, y, cell)
    BY RowsOfMemory DEF StagedAt, ShownAt
  <1>2. /\ x % Uint16 = x /\ (x + 1) % Uint16 = x + 1 /\ 0 % Uint16 = 0
        /\ y % Uint16 = y /\ (y + 1) % Uint16 = y + 1
    <2>1. /\ x \in 0 .. Cols /\ x + 1 \in 0 .. Cols /\ 0 \in 0 .. Cols
          /\ y \in 0 .. Rows + 1 /\ y + 1 \in 0 .. Rows + 1
      BY <1>1
    <2> QED BY <2>1, CursorFits
  <1>3. (Rows - 2) % Uint16 = Rows - 2
    <2>1. 0 \in 0 .. Cols /\ Rows - 2 \in 0 .. Rows + 1
      BY <1>1
    <2> QED BY <2>1, CursorFits
  <1>4. CASE At("storeX", "next")
    <2>1. FALSE
      BY <1>1, <1>4 DEF StoreCursor, At
    <2> QED BY <2>1
  <1>5. CASE At("storeX", "wrap")
    <2>1. /\ pc = "storeX" /\ pc' = "wrap" /\ Cursor(reg, dev.y) /\ str' = str /\ log' = log
      BY <1>5 DEF StoreCursor, At, NotDone
    <2>2. dev = Screen(x, y, s) /\ reg = x + 1 /\ NextChar \notin Controls /\ dev.y = y
      BY <1>1, <2>1 DEF Screen
    <2>3. dev' = Screen(x + 1, y, s)
      <3> PICK v : v = x + 1
        OBVIOUS
      <3>1. dev' = [dev EXCEPT !.x = v, !.y = y]
        BY <1>2, <2>1, <2>2 DEF Cursor
      <3>2. dev' = Screen(v, y, s)
        BY <2>2, <3>1 DEF Screen
      <3> QED BY <3>2
    <2>4. NextChar' = NextChar
      BY <2>1 DEF NextChar
    <2>5. Stage(x, y, cell)'
      BY <1>1, <2>1, <2>2, <2>3, <2>4
    <2> QED BY <1>1, <2>1, <2>5 DEF Staged, StagedAt
  <1>6. CASE At("storeY", "next")
    <2>1. /\ pc = "storeY" /\ pc' = "next" /\ Cursor(dev.x, reg)
          /\ log' = Logged(log, NextChar)
      BY <1>6 DEF StoreCursor, At, Done
    <2>2. dev = Screen(0, y, cell) /\ reg = y + 1 /\ NextChar = "NL" /\ y < Rows /\ dev.x = 0
      BY <1>1, <2>1 DEF Screen
    <2>3. dev' = Screen(0, y + 1, cell)
      <3> PICK v, z : v = y + 1 /\ z = 0
        OBVIOUS
      <3>1. dev' = [dev EXCEPT !.x = z, !.y = v]
        BY <1>2, <2>1, <2>2 DEF Cursor
      <3>2. dev' = Screen(z, v, cell)
        BY <2>2, <3>1 DEF Screen
      <3> QED BY <3>2
    <2>4. ShownAt(0, y + 1, cell, log')
      BY <1>1, <2>1, <2>2, NewLineShown
    <2>5. Stage(0, y + 1, cell)'
      BY <2>1, <2>3
    <2> QED BY <2>4, <2>5 DEF Staged, StagedAt
  <1>7. CASE At("storeWrapY", "wrapX")
    <2>1. /\ pc = "storeWrapY" /\ pc' = "wrapX" /\ Cursor(dev.x, reg)
          /\ str' = str /\ log' = log /\ diff' = diff
      BY <1>7 DEF StoreCursor, At, NotDone
    <2>2. /\ dev = Screen(x + 1, y, s) /\ reg = y + 1 /\ NextChar \notin Controls
          /\ x + 1 = Cols /\ diff = 0 /\ dev.x = x + 1
      BY <1>1, <2>1 DEF Screen
    <2>3. dev' = Screen(x + 1, y + 1, s)
      <3> PICK v, u : v = y + 1 /\ u = x + 1
        OBVIOUS
      <3>1. dev' = [dev EXCEPT !.x = u, !.y = v]
        BY <1>2, <2>1, <2>2 DEF Cursor
      <3>2. dev = Screen(u, y, s)
        BY <2>2
      <3>3. dev' = Screen(u, v, s)
        BY <3>1, <3>2 DEF Screen
      <3> QED BY <3>3
    <2>4. NextChar' = NextChar
      BY <2>1 DEF NextChar
    <2>5. Stage(x, y, cell)'
      BY <1>1, <2>1, <2>2, <2>3, <2>4
    <2> QED BY <1>1, <2>1, <2>5 DEF Staged, StagedAt
  <1>8. CASE At("wrapX", "bottom")
    <2>1. /\ pc = "wrapX" /\ pc' = "bottom" /\ Cursor(diff, dev.y) /\ str' = str /\ log' = log
      BY <1>8 DEF StoreCursor, At, NotDone
    <2>2. /\ dev = Screen(x + 1, y + 1, s) /\ NextChar \notin Controls
          /\ x + 1 = Cols /\ diff = 0 /\ dev.y = y + 1
      BY <1>1, <2>1 DEF Screen
    <2>3. NextX(x) = 0 /\ NextY(x, y) = y + 1
      BY <2>2 DEF NextX, NextY
    <2>4. dev' = Screen(NextX(x), NextY(x, y), s)
      <3> PICK v, u, z : v = y + 1 /\ u = x + 1 /\ z = 0
        OBVIOUS
      <3>1. dev' = [dev EXCEPT !.x = z, !.y = v]
        BY <1>2, <2>1, <2>2 DEF Cursor
      <3>2. dev = Screen(u, v, s)
        BY <2>2
      <3>3. dev' = Screen(z, v, s)
        BY <3>1, <3>2 DEF Screen
      <3> QED BY <2>3, <3>3
    <2>5. NextChar' = NextChar
      BY <2>1 DEF NextChar
    <2>6. Stage(x, y, cell)'
      BY <1>1, <2>1, <2>2, <2>4, <2>5
    <2> QED BY <1>1, <2>1, <2>6 DEF Staged, StagedAt
  <1>9. ASSUME pc = "bottom"
        PROVE  /\ dev = Screen(NextX(x), NextY(x, y), s) /\ NextChar \notin Controls
               /\ dev.x = NextX(x) /\ dev.y = NextY(x, y)
               /\ NextX(x) \in 0 .. Cols - 1 /\ NextY(x, y) \in 0 .. Rows
    <2>1. NextChar \notin Controls /\ dev = Screen(NextX(x), NextY(x, y), s)
      BY <1>1, <1>9
    <2>2. NextX(x) \in 0 .. Cols - 1 /\ NextY(x, y) \in 0 .. Rows
      BY <1>1, <2>1, CharacterHolds
    <2> QED BY <2>1, <2>2 DEF Screen
  <1>10. CASE At("bottom", "copy")
    <2>1. /\ pc = "bottom" /\ pc' = "copy" /\ Cursor(dev.x, Rows - 2) /\ dev.y >= Rows
          /\ str' = str /\ log' = log
      BY <1>10 DEF StoreCursor, At, NotDone
    <2> PICK a, b, v : a = NextX(x) /\ b = NextY(x, y) /\ v = Rows - 2
      OBVIOUS
    <2>2. /\ dev = Screen(a, b, s) /\ dev.x = a /\ dev.y = b /\ NextChar \notin Controls
          /\ a \in 0 .. Cols - 1
      BY <1>9, <2>1
    <2>3. a % Uint16 = a /\ v % Uint16 = v
      <3>1. a \in 0 .. Cols /\ 0 \in 0 .. Rows + 1
        BY <1>1, <2>2
      <3> QED BY <1>3, <3>1, CursorFits
    <2>4. dev' = Screen(a, v, s)
      <3>1. dev' = [dev EXCEPT !.x = a, !.y = v]
        BY <2>1, <2>2, <2>3 DEF Cursor
      <3> QED BY <2>2, <3>1 DEF Screen
    <2>5. NextChar' = NextChar
      BY <2>1 DEF NextChar
    <2>6. Stage(x, y, cell)'
      BY <1>1, <2>1, <2>2, <2>4, <2>5
    <2> QED BY <1>1, <2>1, <2>6 DEF Staged, StagedAt
  <1>11. CASE At("bottom", "next")
    <2>1. pc = "bottom" /\ pc' = "next" /\ dev' = dev /\ dev.y < Rows
          /\ log' = Logged(log, NextChar)
      BY <1>11 DEF StoreCursor, At, Done
    <2> PICK a, b : a = NextX(x) /\ b = NextY(x, y)
      OBVIOUS
    <2>2. dev = Screen(a, b, s) /\ b < Rows /\ NextChar \notin Controls
      BY <1>9, <2>1
    <2>3. ShownAt(a, b, s, log')
      BY <1>1, <2>1, <2>2, CharacterShown
    <2>4. Stage(a, b, s)'
      BY <2>1, <2>2
    <2> QED BY <2>3, <2>4 DEF Staged, StagedAt
  <1> QED BY <1>4, <1>5, <1>6, <1>7, <1>8, <1>10, <1>11 DEF StoreCursor

(* The rows' copy, which ends a character, too.                            *)
LEMMA CopyStaged ==
  ASSUME NEW x, NEW y, NEW cell, StagedAt(x, y, cell), Copy
  PROVE  Staged'
  <1> USE DEF Stage, Between, WordLoaded, NewLine, Printable, FullLine
  <1> PICK s, a, v : s = Put(x, y, cell, NextChar) /\ a = NextX(x) /\ v = Rows - 2
    OBVIOUS
  <1>1. /\ pc = "copy" /\ pc' = "next" /\ dev' = [dev EXCEPT !.cell = CopyUp(dev.cell)]
        /\ log' = Logged(log, NextChar)
    BY DEF Copy, At, Done
  <1>2. /\ ShownAt(x, y, cell, log) /\ NextChar \notin Controls /\ NextY(x, y) >= Rows
        /\ dev = Screen(a, v, s)
    BY <1>1 DEF StagedAt
  <1> PICK u : u = CopyUp(s)
    OBVIOUS
  <1>3. dev' = Screen(a, v, u)
    <2>1. dev.cell = s
      BY <1>2 DEF Screen
    <2>2. dev' = [dev EXCEPT !.cell = u]
      BY <1>1, <2>1
    <2> QED BY ONLY <1>2, <2>2 DEF Screen
  <1>4. ShownAt(a, v, u, log')
    BY <1>1, <1>2, CharacterShown
  <1>5. Stage(a, v, u)'
    BY <1>1, <1>3
  <1> QED BY <1>4, <1>5 DEF Staged, StagedAt

(* A task's step of plain text. *)
LEMMA TaskStaged ==
  ASSUME Staged, TaskStep, plain \in BOOLEAN, plain' = TRUE
  PROVE  Staged'
  <1> PICK x, y, cell : StagedAt(x, y, cell)
    BY DEF Staged
  <1>1. CASE PutControl
    <2>1. StaysPlain(dev, NextChar)
      BY <1>1 DEF PutControl
    <2> QED BY <1>1, <2>1, PutControlStaged
  <1>2. CASE PutPrintable \/ LoadCursor \/ WrapTest \/ Diff \/ EndOfString \/ UpdateStep
    <2>1. StagedAt(x, y, cell)'
      BY <1>2, LoadsStaged
    <2> QED BY <2>1 DEF Staged
  <1>3. CASE Write
    <2>1. StagedAt(x, y, cell)'
      BY <1>3, WriteStaged
    <2> QED BY <2>1 DEF Staged
  <1>4. CASE StoreCursor
    BY <1>4, StoreCursorStaged
  <1>5. CASE Copy
    BY <1>5, CopyStaged
  <1> QED BY <1>1, <1>2, <1>3, <1>4, <1>5 DEF TaskStep

---------------------------------------------------------------------------
(* The registers of the CRTC *)
Crtc(r) ==
  /\ r = [index |-> r.index, port |-> r.port, vregs |-> r.vregs]
  /\ DOMAIN r.port = {CSR, CLHR, CLLR} /\ r.port = [p \in {CSR, CLHR, CLLR} |-> r.port[p]]
  /\ DOMAIN r.vregs = {CLHR, CLLR} /\ r.vregs = [p \in {CLHR, CLLR} |-> r.vregs[p]]

(* An access to one of them, or an assignment to a copy.                   *)
PortSet(r, q, p, v) == q = [r EXCEPT !.port[p] = v]
CopySet(r, q, p, v) == q = [r EXCEPT !.vregs[p] = v]

LEMMA IndexWritten ==
  ASSUME NEW r, NEW q, NEW v, Crtc(r), q = [r EXCEPT !.index = v]
  PROVE  Crtc(q) /\ q.index = v /\ q.port = r.port /\ q.vregs = r.vregs
  BY DEF Crtc

LEMMA PortWritten ==
  ASSUME NEW r, NEW q, NEW v, Crtc(r), NEW p \in {CSR, CLHR, CLLR},
         PortSet(r, q, p, v)
  PROVE  /\ Crtc(q) /\ q.index = r.index /\ q.vregs = r.vregs /\ q.port[p] = v
         /\ \A o \in {CSR, CLHR, CLLR} : o # p => q.port[o] = r.port[o]
  <1> PICK n : n = [r.port EXCEPT ![p] = v]
    OBVIOUS
  <1>1. q = [r EXCEPT !.port = n]
    BY DEF PortSet
  <1>2. r = [index |-> r.index, port |-> r.port, vregs |-> r.vregs]
    BY DEF Crtc
  <1>3. q = [index |-> r.index, port |-> n, vregs |-> r.vregs]
    BY ONLY <1>1, <1>2
  <1>4. q.index = r.index /\ q.vregs = r.vregs /\ q.port = n
    BY <1>3
  <1>5. /\ DOMAIN n = {CSR, CLHR, CLLR} /\ n[p] = v
        /\ \A o \in {CSR, CLHR, CLLR} : o # p => n[o] = r.port[o]
        /\ n = [o \in {CSR, CLHR, CLLR} |-> n[o]]
    BY DEF Crtc
  <1>6. q = [index |-> q.index, port |-> q.port, vregs |-> q.vregs]
    BY <1>3, <1>4
  <1> QED BY <1>4, <1>5, <1>6 DEF Crtc

LEMMA CopyWritten ==
  ASSUME NEW r, NEW q, NEW v, Crtc(r), NEW p \in {CLHR, CLLR},
         CopySet(r, q, p, v)
  PROVE  /\ Crtc(q) /\ q.index = r.index /\ q.port = r.port /\ q.vregs[p] = v
         /\ \A o \in {CLHR, CLLR} : o # p => q.vregs[o] = r.vregs[o]
  <1> PICK n : n = [r.vregs EXCEPT ![p] = v]
    OBVIOUS
  <1>1. q = [r EXCEPT !.vregs = n]
    BY DEF CopySet
  <1>2. r = [index |-> r.index, port |-> r.port, vregs |-> r.vregs]
    BY DEF Crtc
  <1>3. q = [index |-> r.index, port |-> r.port, vregs |-> n]
    BY ONLY <1>1, <1>2
  <1>4. q.index = r.index /\ q.vregs = n /\ q.port = r.port
    BY <1>3
  <1>5. /\ DOMAIN n = {CLHR, CLLR} /\ n[p] = v
        /\ \A o \in {CLHR, CLLR} : o # p => n[o] = r.vregs[o]
        /\ n = [o \in {CLHR, CLLR} |-> n[o]]
    BY DEF Crtc
  <1>6. q = [index |-> q.index, port |-> q.port, vregs |-> q.vregs]
    BY <1>3, <1>4
  <1> QED BY <1>4, <1>5, <1>6 DEF Crtc

(* All of them, in vga_update_cursor(). *)
LEMMA UpdateShows ==
  ASSUME NEW r, Crtc(r), NEW w
  PROVE  LET q == UpdateCursor(r, w)
         IN  Crtc(q) /\ q.port[CLHR] = w \div 256 /\ q.port[CLLR] = w % 256
  <1> PICK h, l, hi, lo : h = w \div 256 /\ l = w % 256 /\ hi = CLHR /\ lo = CLLR
    OBVIOUS
  <1> PICK r1 : r1 = [r EXCEPT !.index = CLLR]
    OBVIOUS
  <1> PICK r2 : r2 = [r1 EXCEPT !.port[hi] = h]
    OBVIOUS
  <1> PICK r3 : r3 = [r2 EXCEPT !.vregs[hi] = h]
    OBVIOUS
  <1> PICK r4 : r4 = [r3 EXCEPT !.port[lo] = l]
    OBVIOUS
  <1> PICK r5 : r5 = [r4 EXCEPT !.vregs[lo] = l]
    OBVIOUS
  <1> PICK q : q = [r5 EXCEPT !.index = r.index]
    OBVIOUS
  <1>0. /\ hi \in {CSR, CLHR, CLLR} /\ lo \in {CSR, CLHR, CLLR} /\ hi # lo
        /\ hi \in {CLHR, CLLR} /\ lo \in {CLHR, CLLR}
    BY DEF CSR, CLHR, CLLR
  <1>00. /\ PortSet(r1, r2, hi, h) /\ CopySet(r2, r3, hi, h)
         /\ PortSet(r3, r4, lo, l) /\ CopySet(r4, r5, lo, l)
    BY DEF PortSet, CopySet
  <1>1. Crtc(r1)
    BY IndexWritten
  <1>2. Crtc(r2) /\ r2.port[hi] = h
    BY ONLY <1>0, <1>1, <1>00, PortWritten
  <1>3. Crtc(r3) /\ r3.port = r2.port
    BY ONLY <1>2, <1>0, <1>00, CopyWritten
  <1>4. Crtc(r4) /\ r4.port[lo] = l /\ r4.port[hi] = r3.port[hi]
    BY ONLY <1>0, <1>3, <1>00, PortWritten
  <1>5. Crtc(r5) /\ r5.port = r4.port
    BY ONLY <1>4, <1>0, <1>00, CopyWritten
  <1>6. Crtc(q) /\ q.port = r5.port
    BY ONLY <1>5, q = [r5 EXCEPT !.index = r.index], IndexWritten
  <1>7. UpdateCursor(r, w) = q
    BY DEF UpdateCursor, RestoreIndex
  <1> QED BY <1>2, <1>3, <1>4, <1>5, <1>6, <1>7

(* The two halves of a word. *)
LEMMA Halves ==
  ASSUME NEW w \in Nat
  PROVE  (w \div 256) * 256 + (w % 256) = w
  OBVIOUS

LEMMA CursorWordTyped ==
  ASSUME NEW x \in Int, NEW y \in Int, NEW cell
  PROVE  CursorWord(Screen(x, y, cell)) \in Nat
  <1>1. Cols \in Nat /\ Uint16 \in Nat \ {0}
    <2>1. Uint16 \in Nat /\ Uint16 > RowStart(TextRows) /\ Cols \in Nat \ {0, 1}
          /\ TextRows \in Nat
      BY RowsOfMemory
    <2>2. RowStart(TextRows) \in Nat
      BY <2>1, RowsOfMemory
    <2> QED BY <2>1, <2>2
  <1> PICK c \in Nat, u \in Nat \ {0} : c = Cols /\ u = Uint16
    BY <1>1
  <1> PICK p \in Int : p = y * c
    OBVIOUS
  <1>2. p + x - 1 \in Int
    OBVIOUS
  <1>3. (p + x - 1) % u \in Nat
    BY <1>2
  <1> QED BY <1>3 DEF CursorWord, Screen

(* At rest, the cursor of the CRTC is the console's.                       *)
LEMMA UpdateAtRest ==
  ASSUME NEW r, Crtc(r), NEW x \in Int, NEW y \in Int, NEW cell, NEW d,
         d = Screen(x, y, cell)
  PROVE  LET q == UpdateCursor(r, CursorWord(d))
         IN  Crtc(q) /\ q.port[CLHR] * 256 + q.port[CLLR] = CursorWord(d)
  <1> PICK w \in Nat : w = CursorWord(d)
    BY CursorWordTyped
  <1> QED BY UpdateShows, Halves

LEMMA SwitchedTyped ==
  ASSUME NEW r, Crtc(r)
  PROVE  Crtc(CursorLow(CursorSwitched(r, TRUE)))
  <1> PICK q : q = CursorSwitched(r, TRUE)
    OBVIOUS
  <1>0. CSR \in {CSR, CLHR, CLLR}
    OBVIOUS
  <1>1. Crtc(q)
    <2>1. CASE (r.port[CSR] \div 32) % 2 = 1
      <3>1. q = [r EXCEPT !.port[CSR] = r.port[CSR] - 32]
        BY <2>1 DEF CursorSwitched
      <3> PICK v, p : v = r.port[CSR] - 32 /\ p = CSR
        OBVIOUS
      <3>2. PortSet(r, q, p, v) /\ p \in {CSR, CLHR, CLLR}
        BY <1>0, <3>1 DEF PortSet
      <3> QED BY ONLY <3>2, Crtc(r), PortWritten
    <2>2. CASE ~((r.port[CSR] \div 32) % 2 = 1)
      <3>1. q = r
        BY <2>2 DEF CursorSwitched
      <3> QED BY <3>1
    <2> QED BY <2>1, <2>2
  <1> PICK t : t = [q EXCEPT !.port[CSR] = 10]
    OBVIOUS
  <1>2. Crtc(t)
    <2> PICK v, p : v = 10 /\ p = CSR
      OBVIOUS
    <2>1. PortSet(q, t, p, v) /\ p \in {CSR, CLHR, CLLR}
      BY <1>0 DEF PortSet
    <2> QED BY ONLY <1>1, <2>1, PortWritten
  <1> QED BY <1>2 DEF CursorLow

(* vga_update_cursor() of a task, one access after the other.              *)
LEMMA UpdateStepShows ==
  ASSUME Staged, CursorStaged, Crtc(crt), IndexInv, UpdateStep
  PROVE  CursorStaged' /\ Crtc(crt)'
  <1> PICK hi, lo : hi = CLHR /\ lo = CLLR
    OBVIOUS
  <1>0. /\ hi \in {CSR, CLHR, CLLR} /\ lo \in {CSR, CLHR, CLLR} /\ hi # lo
        /\ hi \in {CLHR, CLLR} /\ lo \in {CLHR, CLLR}
    BY DEF CSR, CLHR, CLLR
  <1> PICK old : old = crt
    OBVIOUS
  <1>01. Crtc(old)
    OBVIOUS
  <1>1. CASE Load("where", "save", CursorWord(dev))
    <2>1. pc' = "save" /\ crt' = crt /\ dev' = dev /\ reg' = CursorWord(dev)
      BY <1>1 DEF Load, At, NoCrt
    <2>2. CursorWord(dev)' = CursorWord(dev)
      BY <2>1 DEF CursorWord
    <2> QED BY <2>1, <2>2 DEF CursorStaged, WordLoaded
  <1> PICK w : w = CursorWord(dev)
    OBVIOUS
  <1>2. ASSUME dev' = dev PROVE CursorWord(dev)' = w
    BY <1>2 DEF CursorWord
  <1>3. CASE /\ At("save", "selectHigh") /\ saved' = crt.index
             /\ NotDone /\ UNCHANGED <<dev, crt, reg, diff, plain>>
    <2>1. /\ pc = "save" /\ pc' = "selectHigh" /\ crt' = crt /\ dev' = dev /\ reg' = reg
          /\ reg = w
      BY <1>3 DEF At, CursorStaged, WordLoaded
    <2> QED BY <1>2, <2>1 DEF CursorStaged, WordLoaded
  <1>4. CASE Crt("selectHigh", "high", [crt EXCEPT !.index = CLHR])
    <2>1. /\ pc = "selectHigh" /\ pc' = "high" /\ dev' = dev /\ reg' = reg /\ reg = w
          /\ crt' = [crt EXCEPT !.index = CLHR]
      BY <1>4 DEF Crt, At, CursorStaged, WordLoaded
    <2>2. Crtc(crt')
      BY <2>1, IndexWritten
    <2> QED BY <1>2, <2>1, <2>2 DEF CursorStaged, WordLoaded
  <1>5. CASE Crt("high", "outHigh", [crt EXCEPT !.vregs[CLHR] = reg \div 256])
    <2>1. /\ pc = "high" /\ pc' = "outHigh" /\ dev' = dev /\ reg' = reg /\ reg = w
          /\ crt' = [crt EXCEPT !.vregs[CLHR] = reg \div 256]
      BY <1>5 DEF Crt, At, CursorStaged, WordLoaded
    <2> PICK r, v : r = crt' /\ v = reg \div 256
      OBVIOUS
    <2>2. Crtc(r) /\ r.vregs[hi] = v
      <3>1. CopySet(old, r, hi, v)
        BY <2>1 DEF CopySet
      <3> QED BY ONLY <1>0, <1>01, <3>1, CopyWritten
    <2> QED BY <1>2, <2>1, <2>2 DEF CursorStaged, WordLoaded
  <1>6. CASE Crt("outHigh", "selectLow", OutPort)
    <2>1. /\ pc = "outHigh" /\ pc' = "selectLow" /\ dev' = dev /\ reg' = reg /\ reg = w
          /\ crt.index = CLHR /\ crt.vregs[CLHR] = reg \div 256
          /\ crt' = [crt EXCEPT !.port[crt.index] = crt.vregs[CLHR]]
      BY <1>6 DEF Crt, At, OutPort, CursorStaged, WordLoaded, IndexInv, HighSelected
    <2> PICK r, v : r = crt' /\ v = reg \div 256
      OBVIOUS
    <2>2. Crtc(r) /\ r.port[hi] = v /\ r.vregs = old.vregs
      <3>1. PortSet(old, r, hi, v)
        BY <2>1 DEF PortSet
      <3> QED BY ONLY <1>0, <1>01, <3>1, PortWritten
    <2> QED BY <1>2, <2>1, <2>2 DEF CursorStaged, WordLoaded
  <1>7. CASE Crt("selectLow", "low", [crt EXCEPT !.index = CLLR])
    <2>1. /\ pc = "selectLow" /\ pc' = "low" /\ dev' = dev /\ reg' = reg /\ reg = w
          /\ crt.vregs[CLHR] = reg \div 256 /\ crt.port[CLHR] = reg \div 256
          /\ crt' = [crt EXCEPT !.index = CLLR]
      BY <1>7 DEF Crt, At, CursorStaged, WordLoaded
    <2>2. Crtc(crt') /\ crt'.vregs = crt.vregs /\ crt'.port = crt.port
      BY <2>1, IndexWritten
    <2> QED BY <1>2, <2>1, <2>2 DEF CursorStaged, WordLoaded
  <1>8. CASE Crt("low", "outLow", [crt EXCEPT !.vregs[CLLR] = reg % 256])
    <2>1. /\ pc = "low" /\ pc' = "outLow" /\ dev' = dev /\ reg' = reg /\ reg = w
          /\ crt.vregs[CLHR] = reg \div 256 /\ crt.port[CLHR] = reg \div 256
          /\ crt' = [crt EXCEPT !.vregs[CLLR] = reg % 256]
      BY <1>8 DEF Crt, At, CursorStaged, WordLoaded
    <2> PICK r, v : r = crt' /\ v = reg % 256
      OBVIOUS
    <2>2. Crtc(r) /\ r.vregs[lo] = v /\ r.vregs[hi] = old.vregs[hi] /\ r.port = old.port
      <3>1. CopySet(old, r, lo, v)
        BY <2>1 DEF CopySet
      <3> QED BY ONLY <1>0, <1>01, <3>1, CopyWritten
    <2> QED BY <1>2, <2>1, <2>2 DEF CursorStaged, WordLoaded
  <1>9. CASE Crt("outLow", "restore", OutPort)
    <2>1. /\ pc = "outLow" /\ pc' = "restore" /\ dev' = dev /\ reg' = reg /\ reg = w
          /\ crt.index = CLLR /\ crt.vregs[CLLR] = reg % 256
          /\ crt.vregs[CLHR] = reg \div 256 /\ crt.port[CLHR] = reg \div 256
          /\ crt' = [crt EXCEPT !.port[crt.index] = crt.vregs[CLLR]]
      BY <1>9 DEF Crt, At, OutPort, CursorStaged, WordLoaded, IndexInv, HighSelected, LowSelected
    <2> PICK r, v : r = crt' /\ v = reg % 256
      OBVIOUS
    <2>2. Crtc(r) /\ r.port[lo] = v /\ r.vregs = old.vregs /\ r.port[hi] = old.port[hi]
      <3>1. PortSet(old, r, lo, v)
        BY <2>1 DEF PortSet
      <3> QED BY ONLY <1>0, <1>01, <3>1, PortWritten
    <2> QED BY <1>2, <2>1, <2>2 DEF CursorStaged, WordLoaded
  <1>10. CASE Crt("restore", "idle", [crt EXCEPT !.index = saved])
    <2>1. /\ pc = "restore" /\ pc' = "idle" /\ dev' = dev /\ reg = w
          /\ crt.port[CLHR] = reg \div 256 /\ crt.port[CLLR] = reg % 256
          /\ crt' = [crt EXCEPT !.index = saved]
      BY <1>10 DEF Crt, At, CursorStaged, WordLoaded
    <2>2. Crtc(crt') /\ crt'.port = crt.port
      BY <2>1, IndexWritten
    <2>3. w \in Nat
      <3> PICK x, y, cell : StagedAt(x, y, cell)
        BY DEF Staged
      <3>1. dev = Screen(x, y, cell) /\ ShownAt(x, y, cell, log)
        BY <2>1 DEF StagedAt, Stage, Between, WordLoaded
      <3>2. x \in Int /\ y \in Int
        BY <3>1, RowsOfMemory DEF ShownAt
      <3> QED BY <3>1, <3>2, CursorWordTyped
    <2>4. crt'.port[CLHR] * 256 + crt'.port[CLLR] = w
      BY <2>1, <2>2, <2>3, Halves
    <2> QED BY <1>2, <2>1, <2>2, <2>4 DEF CursorStaged, WordLoaded
  <1> QED BY <1>1, <1>3, <1>4, <1>5, <1>6, <1>7, <1>8, <1>9, <1>10 DEF UpdateStep

(* Also of text that is not plain. *)
LEMMA UpdateTyped ==
  ASSUME Crtc(crt), UpdateStep
  PROVE  Crtc(crt)'
  <1> PICK old, hi, lo : old = crt /\ hi = CLHR /\ lo = CLLR
    OBVIOUS
  <1>1. Crtc(old) /\ hi \in {CLHR, CLLR} /\ lo \in {CLHR, CLLR}
    OBVIOUS
  <1>2. CASE crt' = crt
    BY <1>2 DEF Crtc
  <1>3. ASSUME NEW v, crt' = [crt EXCEPT !.index = v] PROVE Crtc(crt)'
    <2> PICK r : r = crt'
      OBVIOUS
    <2>1. r = [old EXCEPT !.index = v]
      BY <1>3
    <2>2. Crtc(r)
      BY ONLY <1>1, <2>1, IndexWritten
    <2> QED BY <2>2
  <1>4. ASSUME NEW v, NEW p \in {CLHR, CLLR}, crt' = [crt EXCEPT !.vregs[p] = v]
        PROVE  Crtc(crt)'
    <2> PICK r : r = crt'
      OBVIOUS
    <2>1. CopySet(old, r, p, v)
      BY <1>4 DEF CopySet
    <2>2. Crtc(r)
      BY ONLY <1>1, <2>1, p \in {CLHR, CLLR}, CopyWritten
    <2> QED BY <2>2
  <1>5. ASSUME NEW v, NEW p \in DOMAIN crt.port, crt' = [crt EXCEPT !.port[p] = v]
        PROVE  Crtc(crt)'
    <2> PICK r : r = crt'
      OBVIOUS
    <2>1. PortSet(old, r, p, v) /\ p \in {CSR, CLHR, CLLR}
      BY <1>5 DEF PortSet, Crtc
    <2>2. Crtc(r)
      BY ONLY <1>1, <2>1, PortWritten
    <2> QED BY <2>2
  <1>6. CASE crt.index \in DOMAIN crt.port /\ crt' = OutPort
    <2> PICK p, v : p = crt.index /\ v = crt.vregs[IF pc = "outHigh" THEN CLHR ELSE CLLR]
      OBVIOUS
    <2>1. p \in DOMAIN crt.port /\ crt' = [crt EXCEPT !.port[p] = v]
      BY <1>6 DEF OutPort
    <2> QED BY <1>5, <2>1
  <1>7. \/ crt' = crt
        \/ crt' = [crt EXCEPT !.index = CLHR] \/ crt' = [crt EXCEPT !.index = CLLR]
        \/ crt' = [crt EXCEPT !.index = saved]
        \/ crt' = [crt EXCEPT !.vregs[CLHR] = reg \div 256]
        \/ crt' = [crt EXCEPT !.vregs[CLLR] = reg % 256]
        \/ crt.index \in DOMAIN crt.port /\ crt' = OutPort
    BY DEF UpdateStep, Load, Crt, At, NoCrt
  <1>8. ASSUME crt' = [crt EXCEPT !.vregs[CLHR] = reg \div 256] PROVE Crtc(crt)'
    <2> PICK v : v = reg \div 256
      OBVIOUS
    <2>1. crt' = [crt EXCEPT !.vregs[CLHR] = v] /\ CLHR \in {CLHR, CLLR}
      BY <1>8
    <2> QED BY <1>4, <2>1
  <1>9. ASSUME crt' = [crt EXCEPT !.vregs[CLLR] = reg % 256] PROVE Crtc(crt)'
    <2> PICK v : v = reg % 256
      OBVIOUS
    <2>1. crt' = [crt EXCEPT !.vregs[CLLR] = v] /\ CLLR \in {CLHR, CLLR}
      BY <1>9
    <2> QED BY <1>4, <2>1
  <1> QED BY <1>2, <1>3, <1>6, <1>7, <1>8, <1>9

---------------------------------------------------------------------------
(* The inductive invariant.  Nothing printed yet, the console can still be *)
(* enabled; later, once disabled, it is not enabled again.                 *)
Fresh ==
  /\ pc = "idle" /\ log = << <<>> >>
  /\ \E cell : dev = Screen(0, 0, cell) /\ cell = [k \in Words |-> cell[k]]
ShowsInv ==
  /\ prints \in Nat /\ is_enabled \in BOOLEAN /\ plain \in BOOLEAN /\ raced \in BOOLEAN
  /\ prints = 0 => Fresh
  /\ Crtc(crt)
  /\ is_enabled = TRUE /\ plain = TRUE /\ raced = FALSE => Staged /\ CursorStaged

LEMMA ShowsInitially == ConsoleInit => ShowsInv
  <1> SUFFICES ASSUME ConsoleInit PROVE ShowsInv
    OBVIOUS
  <1>1. prints = 0 /\ is_enabled = FALSE /\ plain = TRUE /\ raced = FALSE
    BY DEF ConsoleInit
  <1>2. Fresh
    <2> DEFINE cell == [k \in Words |-> "?"]
    <2>1. dev = Screen(0, 0, cell)
      BY DEF ConsoleInit, Screen, Unharmed
    <2>2. cell = [k \in Words |-> cell[k]]
      OBVIOUS
    <2> HIDE DEF cell
    <2> QED BY <2>1, <2>2 DEF ConsoleInit, Fresh
  <1>3. Crtc(crt)
    <2> PICK index \in {0, 45}, csr \in {0, 45} :
          crt = [index |-> index,
                 port |-> [p \in {CSR, CLHR, CLLR} |-> IF p = CSR THEN csr ELSE 0],
                 vregs |-> [p \in {CLHR, CLLR} |-> 0]]
      BY DEF ConsoleInit
    <2> DEFINE ports  == [p \in {CSR, CLHR, CLLR} |-> IF p = CSR THEN csr ELSE 0]
               copies == [p \in {CLHR, CLLR} |-> 0]
    <2>1. /\ DOMAIN ports = {CSR, CLHR, CLLR} /\ DOMAIN copies = {CLHR, CLLR}
          /\ ports = [p \in {CSR, CLHR, CLLR} |-> ports[p]]
          /\ copies = [p \in {CLHR, CLLR} |-> copies[p]]
      OBVIOUS
    <2>2. crt = [index |-> index, port |-> ports, vregs |-> copies]
      OBVIOUS
    <2> HIDE DEF ports, copies
    <2>3. crt.index = index /\ crt.port = ports /\ crt.vregs = copies
      BY <2>2
    <2> QED BY <2>1, <2>2, <2>3 DEF Crtc
  <1> QED BY <1>1, <1>2, <1>3 DEF ShowsInv

(* A cleared screen shows an empty log. *)
LEMMA ClearedShown ==
  ASSUME NEW d, NEW cell, d = Screen(0, 0, cell), cell = [k \in Words |-> cell[k]]
  PROVE  \E new : Cls(d) = Screen(0, 0, new) /\ ShownAt(0, 0, new, << <<>> >>)
  <1> PICK new : new = [k \in Words |-> IF k < 2 * Cols * Rows THEN Blank ELSE d.cell[k]]
    OBVIOUS
  <1>1. Cls(d) = Screen(0, 0, new)
    <2> PICK z : z = 0
      OBVIOUS
    <2>1. d = Screen(z, z, cell)
      OBVIOUS
    <2> PICK f, g, h : f = [d EXCEPT !.x = z] /\ g = [f EXCEPT !.y = z] /\ h = [g EXCEPT !.cell = new]
      OBVIOUS
    <2>2. f = Screen(z, z, cell)
      BY ONLY <2>1, f = [d EXCEPT !.x = z] DEF Screen
    <2>3. g = Screen(z, z, cell)
      BY ONLY <2>2, g = [f EXCEPT !.y = z] DEF Screen
    <2>4. h = Screen(z, z, new)
      BY ONLY <2>3, h = [g EXCEPT !.cell = new] DEF Screen
    <2>5. Cls(d) = h
      BY DEF Cls
    <2> QED BY <2>4, <2>5
  <1>2. Cols \in Nat \ {0, 1} /\ Rows \in Nat \ {0, 1, 2}
    BY RowsOfMemory
  <1> PICK l : l = << <<>> >>
    OBVIOUS
  <1>3. Word(l) /\ Len(l) = 1 /\ l[1] = <<>>
    BY OneIsWord
  <1>4. Word(<<>>) /\ Len(<<>>) = 0
    BY EmptyWord
  <1>5. Lines(l)
    <2> SUFFICES ASSUME NEW n \in 1 .. 1
                 PROVE  Word(l[n]) /\ Len(l[n]) \in Nat /\ Len(l[n]) <= Cols
      BY <1>3 DEF Lines
    <2>1. l[n] = <<>>
      BY <1>3
    <2> QED BY ONLY <1>2, <1>4, <2>1
  <1>6. Holds(0, new, l)
    <2> SUFFICES ASSUME NEW j \in 0 .. 0, j < 1, NEW i \in 1 .. Len(l[1 - j]) PROVE FALSE
      BY <1>3 DEF Holds
    <2>1. i \in 1 .. 0
      BY <1>3, <1>4
    <2> QED BY <2>1
  <1>7. ShownAt(0, 0, new, l)
    <2>1. 0 \in 0 .. Cols - 1 /\ 0 \in 0 .. Rows /\ 0 # Rows
      BY <1>2
    <2>2. new = [k \in Words |-> new[k]]
      OBVIOUS
    <2> QED BY <1>3, <1>4, <1>5, <1>6, <2>1, <2>2 DEF ShownAt
  <1> QED BY <1>1, <1>7

(* vga_init() and what enables the console. *)
LEMMA EnableShows ==
  ASSUME ShowsInv, Enable
  PROVE  ShowsInv'
  <1>1. /\ prints = 0 /\ prints' = 0 /\ is_enabled' = TRUE /\ plain' = plain /\ raced' = raced
        /\ dev' = Cls(dev) /\ pc' = pc /\ log' = log
        /\ crt' = UpdateCursor(CursorLow(CursorSwitched(crt, TRUE)), CursorWord(dev'))
    BY DEF Enable, taskVars
  <1>2. pc = "idle" /\ log = << <<>> >> /\ Crtc(crt)
    BY <1>1 DEF ShowsInv, Fresh
  <1> PICK cell : dev = Screen(0, 0, cell) /\ cell = [k \in Words |-> cell[k]]
    BY <1>1 DEF ShowsInv, Fresh
  <1> PICK new : Cls(dev) = Screen(0, 0, new) /\ ShownAt(0, 0, new, << <<>> >>)
    <2> PICK d : d = dev
      OBVIOUS
    <2>1. d = Screen(0, 0, cell) /\ cell = [k \in Words |-> cell[k]]
      OBVIOUS
    <2>2. \E n : Cls(d) = Screen(0, 0, n) /\ ShownAt(0, 0, n, << <<>> >>)
      BY ONLY <2>1, ClearedShown
    <2> QED BY <2>2
  <1> PICK r, d : r = CursorLow(CursorSwitched(crt, TRUE)) /\ d = dev'
    OBVIOUS
  <1>3. Crtc(r)
    BY <1>2, SwitchedTyped
  <1> PICK z : z = 0
    OBVIOUS
  <1>4. /\ Crtc(UpdateCursor(r, CursorWord(d)))
        /\ UpdateCursor(r, CursorWord(d)).port[CLHR] * 256
             + UpdateCursor(r, CursorWord(d)).port[CLLR] = CursorWord(d)
    <2>1. d = Screen(z, z, new) /\ z \in Int
      BY <1>1
    <2> QED BY ONLY <1>3, <2>1, UpdateAtRest
  <1>5. Staged'
    <2>1. Stage(0, 0, new)'
      BY <1>1, <1>2 DEF Stage, Between, WordLoaded, NewLine, Printable, FullLine
    <2>2. ShownAt(0, 0, new, log')
      BY <1>1, <1>2
    <2> QED BY <2>1, <2>2 DEF Staged, StagedAt
  <1>6. CursorStaged'
    BY <1>1, <1>2, <1>4 DEF CursorStaged, WordLoaded, CursorWord
  <1>7. Fresh'
    <2>1. new = [k \in Words |-> new[k]]
      BY DEF ShownAt
    <2> QED BY <1>1, <1>2, <2>1 DEF Fresh
  <1>8. Crtc(crt)'
    BY <1>1, <1>4
  <1> QED BY <1>1, <1>5, <1>6, <1>7, <1>8 DEF ShowsInv

(* What a handler prints between two characters of a task's text.          *)
LEMMA InterruptShows ==
  ASSUME ShowsInv, NEW s \in IrqMessages, Interrupt(s)
  PROVE  ShowsInv'
  <1>1. /\ is_enabled = TRUE /\ is_enabled' = TRUE /\ prints' = prints + 1 /\ prints \in Nat
        /\ plain \in BOOLEAN /\ raced \in BOOLEAN /\ Crtc(crt)
    BY DEF Interrupt, ShowsInv
  <1>2. /\ dev' = Printed(s).dev /\ log' = Printed(s).log /\ plain' = Printed(s).plain
        /\ raced' = (raced \/ ~BetweenCharacters)
        /\ crt' = UpdateCursor(crt, CursorWord(dev'))
        /\ pc' = pc /\ str' = str
    BY DEF Interrupt, taskVars
  <1>3. Word(s)
    BY ConsoleAssumption DEF Word
  <1>4. Crtc(crt)'
    <2> PICK r, w : r = crt /\ w = CursorWord(dev')
      OBVIOUS
    <2>1. Crtc(UpdateCursor(r, w))
      BY <1>1, UpdateShows
    <2> QED BY <1>2, <2>1
  <1>5. plain' \in BOOLEAN
    <2>1. CASE plain = FALSE \/ Shown(dev, log)
      <3>1. ShownIfPlain(Printed(s))
        BY <1>1, <1>3, <2>1, PrintedShows
      <3> QED BY <1>2, <3>1 DEF ShownIfPlain
    <2>2. CASE ~(plain = FALSE \/ Shown(dev, log))
      BY <1>2, PrintedPlain, <1>1, <1>3
    <2> QED BY <2>1, <2>2
  <1>6. raced' \in BOOLEAN
    BY <1>2
  <1>7. prints' \in Nat /\ prints' # 0
    BY <1>1
  <1>8. ASSUME plain' = TRUE, raced' = FALSE
        PROVE  Staged' /\ CursorStaged'
    <2>1. raced = FALSE /\ pc \in Between
      BY <1>1, <1>2, <1>8 DEF BetweenCharacters, Between
    <2>2. plain = TRUE => Shown(dev, log)
      <3> SUFFICES ASSUME plain = TRUE PROVE Shown(dev, log)
        OBVIOUS
      <3>1. Staged
        BY <1>1, <2>1 DEF ShowsInv
      <3> QED BY <2>1, <3>1 DEF Staged, StagedAt, Stage, Shown
    <2>3. ShownIfPlain(Printed(s))
      BY <1>1, <1>3, <2>2, PrintedShows
    <2>4. Shown(dev', log')
      BY <1>2, <1>8, <2>3 DEF ShownIfPlain
    <2> PICK x, y, cell : dev' = Screen(x, y, cell) /\ ShownAt(x, y, cell, log')
      BY <2>4 DEF Shown
    <2>5. Stage(x, y, cell)'
      BY <1>2, <2>1 DEF Stage, Between, WordLoaded, NewLine, Printable, FullLine
    <2>6. Staged'
      BY <2>5 DEF Staged, StagedAt
    <2> PICK r, d : r = crt /\ d = dev'
      OBVIOUS
    <2>7. UpdateCursor(r, CursorWord(d)).port[CLHR] * 256
            + UpdateCursor(r, CursorWord(d)).port[CLLR] = CursorWord(d)
      <3>1. x \in Int /\ y \in Int
        BY RowsOfMemory DEF ShownAt
      <3>2. d = Screen(x, y, cell) /\ Crtc(r)
        BY <1>1
      <3> QED BY ONLY <3>1, <3>2, UpdateAtRest
    <2>8. CursorStaged'
      BY <1>2, <2>1, <2>7 DEF CursorStaged, WordLoaded, Between, CursorWord
    <2> QED BY <2>6, <2>8
  <1> QED BY <1>1, <1>4, <1>5, <1>6, <1>7, <1>8 DEF ShowsInv

(* A task's own steps. *)
LEMMA TaskShows ==
  ASSUME ShowsInv, IndexInv, TaskStep
  PROVE  ShowsInv'
  <1>1. /\ is_enabled' = is_enabled /\ raced' = raced /\ prints' = prints /\ pc # "idle"
        /\ plain' = plain \/ plain' = (plain /\ StaysPlain(dev, NextChar))
    BY DEF TaskStep, PutControl, PutPrintable, LoadCursor, Load, Write, StoreCursor, WrapTest,
           Diff, Copy, EndOfString, UpdateStep, Crt, At
  <1>2. /\ prints \in Nat /\ is_enabled \in BOOLEAN /\ plain \in BOOLEAN /\ raced \in BOOLEAN
        /\ prints # 0 /\ Crtc(crt)
    BY <1>1 DEF ShowsInv, Fresh
  <1>3. plain' \in BOOLEAN /\ (plain' = TRUE => plain = TRUE)
    BY <1>1, <1>2
  <1>4. CASE UpdateStep
    <2>1. Crtc(crt)'
      BY <1>2, <1>4, UpdateTyped
    <2>2. ASSUME is_enabled' = TRUE, plain' = TRUE, raced' = FALSE
          PROVE  Staged' /\ CursorStaged'
      <3>1. Staged /\ CursorStaged
        BY <1>1, <1>3, <2>2 DEF ShowsInv
      <3>2. Staged'
        BY <1>2, <2>2, <3>1, TaskStaged
      <3> QED BY <1>2, <1>4, <3>1, <3>2, UpdateStepShows
    <2> QED BY <1>1, <1>2, <1>3, <2>1, <2>2 DEF ShowsInv
  <1>5. CASE ~UpdateStep
    <2>1. crt' = crt /\ pc' \notin {"idle"} \cup WordLoaded
      BY <1>5 DEF TaskStep, PutControl, PutPrintable, LoadCursor, Load, Write, StoreCursor,
                  WrapTest, Diff, Copy, EndOfString, At, NoCrt, WordLoaded
    <2>2. ASSUME is_enabled' = TRUE, plain' = TRUE, raced' = FALSE
          PROVE  Staged' /\ CursorStaged'
      <3>1. Staged
        BY <1>1, <1>3, <2>2 DEF ShowsInv
      <3>2. Staged'
        BY <1>2, <2>2, <3>1, TaskStaged
      <3>3. CursorStaged'
        BY <2>1 DEF CursorStaged, WordLoaded
      <3> QED BY <3>2, <3>3
    <2> QED BY <1>1, <1>2, <1>3, <2>1, <2>2 DEF ShowsInv
  <1> QED BY <1>4, <1>5

LEMMA ShowsKept ==
  ASSUME ShowsInv, IndexInv, [ConsoleNext]_consoleVars
  PROVE  ShowsInv'
  <1>1. CASE Enable
    BY <1>1, EnableShows
  <1>2. CASE Disable
    <2>1. /\ is_enabled' = FALSE /\ dev' = dev /\ crt' = crt /\ log' = log /\ pc' = pc
          /\ plain' = plain /\ raced' = raced /\ prints' = prints
      BY <1>2 DEF Disable, taskVars
    <2>2. Fresh => Fresh'
      BY <2>1 DEF Fresh
    <2>3. Crtc(crt) => Crtc(crt)'
      BY <2>1
    <2> QED BY <2>1, <2>2, <2>3 DEF ShowsInv
  <1>3. CASE DisplayChar
    <2>1. /\ ~is_enabled /\ is_enabled' = is_enabled /\ plain' = plain /\ raced' = raced
          /\ prints' = prints + 1 /\ crt' = UpdateCursor(crt, CursorWord(dev'))
      BY <1>3 DEF DisplayChar
    <2>2. prints' \in Nat /\ prints' # 0
      BY <2>1 DEF ShowsInv
    <2>3. Crtc(crt)'
      <3> PICK r, w : r = crt /\ w = CursorWord(dev')
        OBVIOUS
      <3>1. Crtc(UpdateCursor(r, w))
        BY UpdateShows DEF ShowsInv
      <3> QED BY <2>1, <3>1
    <2> QED BY <2>1, <2>2, <2>3 DEF ShowsInv
  <1>4. CASE TaskStep
    BY <1>4, TaskShows
  <1>5. ASSUME NEW s \in Messages, display_string(s) PROVE ShowsInv'
    <2>1. /\ is_enabled' = is_enabled /\ plain' = plain /\ raced' = raced
          /\ prints' = prints + 1 /\ crt' = crt /\ dev' = dev /\ log' = log
          /\ pc = "idle" /\ pc' = "next"
      BY <1>5 DEF display_string
    <2>2. prints' \in Nat /\ prints' # 0
      BY <2>1 DEF ShowsInv
    <2>3. Staged => Staged'
      <3> SUFFICES ASSUME Staged PROVE Staged'
        OBVIOUS
      <3> PICK x, y, cell : StagedAt(x, y, cell)
        BY DEF Staged
      <3>1. dev = Screen(x, y, cell)
        BY <2>1 DEF StagedAt, Stage, Between
      <3>2. Stage(x, y, cell)'
        BY <2>1, <3>1 DEF Stage, Between, WordLoaded, NewLine, Printable, FullLine
      <3>3. ShownAt(x, y, cell, log')
        BY <2>1 DEF StagedAt
      <3> QED BY <3>2, <3>3 DEF Staged, StagedAt
    <2>4. CursorStaged'
      BY <2>1 DEF CursorStaged, WordLoaded
    <2>5. Crtc(crt) => Crtc(crt)'
      BY <2>1
    <2> QED BY <2>1, <2>2, <2>3, <2>4, <2>5 DEF ShowsInv
  <1>6. ASSUME NEW s \in IrqMessages, Interrupt(s) PROVE ShowsInv'
    BY <1>6, InterruptShows
  <1>7. CASE UNCHANGED consoleVars
    <2>1. /\ is_enabled' = is_enabled /\ dev' = dev /\ crt' = crt /\ log' = log /\ pc' = pc
          /\ str' = str /\ reg' = reg /\ diff' = diff
          /\ plain' = plain /\ raced' = raced /\ prints' = prints
      BY <1>7 DEF consoleVars, taskVars
    <2>2. Fresh => Fresh'
      BY <2>1 DEF Fresh
    <2>3. Crtc(crt) => Crtc(crt)'
      BY <2>1
    <2>4. CursorStaged => CursorStaged'
      BY <2>1 DEF CursorStaged, CursorWord
    <2>5. Staged => Staged'
      <3> SUFFICES ASSUME Staged PROVE Staged'
        OBVIOUS
      <3> PICK x, y, cell : StagedAt(x, y, cell)
        BY DEF Staged
      <3>1. NextChar' = NextChar
        BY <2>1 DEF NextChar
      <3>2. Stage(x, y, cell)'
        BY <2>1, <3>1 DEF Stage, StagedAt
      <3>3. ShownAt(x, y, cell, log')
        BY <2>1 DEF StagedAt
      <3> QED BY <3>2, <3>3 DEF Staged, StagedAt
    <2> QED BY <2>1, <2>2, <2>3, <2>4, <2>5 DEF ShowsInv
  <1> QED BY <1>1, <1>2, <1>3, <1>4, <1>5, <1>6, <1>7 DEF ConsoleNext

LEMMA ShowsInvariant == ConsoleSpec => [](ShowsInv /\ IndexInv)
  <1>1. ConsoleInit => ShowsInv /\ IndexInv
    BY ShowsInitially, IndexInitially
  <1>2. ShowsInv /\ IndexInv /\ [ConsoleNext]_consoleVars => ShowsInv' /\ IndexInv'
    BY ShowsKept, IndexKept
  <1> QED BY <1>1, <1>2, PTL DEF ConsoleSpec

(* What vga_putch(), vga_scroll() and vga_update_cursor() make of plain    *)
(* text: between two characters the rows up to the cursor's hold the last  *)
(* lines printed, also with a handler's text among a task's and across any *)
(* number of scrolls by two rows; at rest the CRTC's cursor is there, too. *)
THEOREM PlainTextShown == ConsoleSpec => []LogShown
  <1>1. ShowsInv => LogShown
    <2> SUFFICES ASSUME ShowsInv, is_enabled, plain, ~raced, BetweenCharacters
                 PROVE  /\ \A row \in 0 .. dev.y :
                             LET k == Len(log) - (dev.y - row)
                             IN  k >= 1 => StartsWith(row, log[k])
                        /\ pc = "idle" =>
                             crt.port[CLHR] * 256 + crt.port[CLLR] = CursorWord(dev)
      BY DEF LogShown
    <2>1. Staged /\ CursorStaged
      BY DEF ShowsInv
    <2> PICK x, y, cell : StagedAt(x, y, cell)
      BY <2>1 DEF Staged
    <2>2. dev = Screen(x, y, cell) /\ ShownAt(x, y, cell, log)
      BY DEF StagedAt, Stage, BetweenCharacters, Between
    <2>3. dev.y = y /\ dev.cell = cell /\ y \in 0 .. Rows /\ Rows \in Nat /\ Lines(log) /\ Holds(y, cell, log)
      BY <2>2, RowsOfMemory DEF Screen, ShownAt
    <2> PICK n \in Nat \ {0} : n = Len(log)
      BY <2>3 DEF Lines
    <2>4. ASSUME NEW row \in 0 .. y, NEW k, k = n - (y - row), k >= 1
          PROVE  StartsWith(row, log[k])
      <3> PICK j : j = y - row
        OBVIOUS
      <3>1. j \in 0 .. y /\ j < n /\ k = n - j /\ y - j = row /\ k \in 1 .. n /\ row \in Nat
        BY <2>3, <2>4
      <3>2. Word(log[k]) /\ DOMAIN log[k] = 1 .. Len(log[k]) /\ Cols \in Nat
        <4>1. Word(log[k])
          BY <2>3, <3>1 DEF Lines
        <4> PICK S : log[k] \in Seq(S)
          BY <4>1 DEF Word
        <4>2. DOMAIN log[k] = 1 .. Len(log[k])
          OBVIOUS
        <4> QED BY <4>1, <4>2, RowsOfMemory
      <3>3. ASSUME NEW i \in DOMAIN log[k]
            PROVE  cell[row * Cols + i - 1] = log[k][i]
        <4>1. i \in 1 .. Len(log[k]) /\ i \in Int
          <5>1. i \in 1 .. Len(log[k])
            BY <3>2
          <5>2. Len(log[k]) \in Nat
            BY <2>3, <3>1 DEF Lines
          <5> QED BY <5>1, <5>2
        <4>2. cell[RowStart(row) + (i - 1)] = log[k][i]
          BY <2>3, <3>1, <4>1 DEF Holds
        <4>3. RowStart(row) \in Nat
          BY <3>1, RowsOfMemory
        <4>4. RowStart(row) + (i - 1) = RowStart(row) + i - 1
          BY <4>1, <4>3
        <4> QED BY <4>2, <4>4 DEF RowStart
      <3> QED BY <2>3, <3>3 DEF StartsWith
    <2>5. pc = "idle" => crt.port[CLHR] * 256 + crt.port[CLLR] = CursorWord(dev)
      BY <2>1 DEF CursorStaged
    <2> QED BY <2>3, <2>4, <2>5
  <1> QED BY <1>1, ShowsInvariant, PTL

(* Plain text, while no handler has printed in the middle of a character:  *)
(* the part of PlainInMemory that has been proved.  A message of enough    *)
(* tabs or ends of line does leave text memory.                            *)
UnracedInMemory == is_enabled /\ plain /\ ~raced => ~dev.wild

(* The stores of vga_putch() and vga_scroll() stay within text memory      *)
(* while plain text is printed, at every step of it.                       *)
THEOREM PlainStaysInMemory == ConsoleSpec => []UnracedInMemory
  <1>1. ShowsInv => UnracedInMemory
    <2> SUFFICES ASSUME ShowsInv, is_enabled, plain, ~raced PROVE ~dev.wild
      BY DEF UnracedInMemory
    <2> PICK x, y, cell : StagedAt(x, y, cell)
      BY DEF ShowsInv, Staged
    <2>1. \E a, b, s : dev = Screen(a, b, s)
      BY DEF StagedAt, Stage, Between, WordLoaded, NewLine, Printable, FullLine
    <2> QED BY <2>1 DEF Screen, Unharmed
  <1> QED BY <1>1, ShowsInvariant, PTL
=============================================================================
