------------------------------- MODULE KPrintf -------------------------------
(***************************************************************************)
(* mlibc/kprintf.c: vsnprintf() as the state machine it is, one step per   *)
(* character of the format, and its callers vkprintf() and panic().        *)
(*                                                                         *)
(* A string is a sequence of characters, a character a TLA+ string.  The   *)
(* arguments of a call are chosen when va_arg() takes them, and taken      *)
(* keeps them, so that a conversion always finds an argument of its type.  *)
(* An int has IntBits bits and a long LongBits, like a long long.  What a  *)
(* call should print is known from the items its format was written from.  *)
(***************************************************************************)
EXTENDS Integers, Sequences, FiniteSets, SequencesExt

CONSTANTS
  CharBits, ShortBits, IntBits, LongBits, (* widths of char, short, int,   *)
               (* and of long and dlong                                    *)
  Calls,       (* formats to print, each a sequence of items               *)
  Slots,       (* integer arguments, as the 2^LongBits patterns in a slot  *)
  Texts,       (* string arguments                                         *)
  StarWidths,  (* arguments of "*"                                         *)
  TmpBufSize,  (* TMPBUF_SIZE, the buffer of vkprintf()                    *)
  VsprintfSize,(* ~(0U) >> 1, the limit vsprintf() gives to vsnprintf()    *)
  PanicBufSize,(* PANIC_BUF_SIZE                                           *)
  Junk         (* what may follow a text that has no terminator            *)

NUL  == "NUL"
Null == <<"<", "N", "U", "L", "L", ">">>   (* what "%s" prints for NULL *)

ASSUME SizesAssumption ==
  /\ {CharBits, ShortBits, IntBits, LongBits} \subseteq Nat \ {0}
  /\ CharBits <= ShortBits /\ ShortBits <= IntBits /\ IntBits <= LongBits
  /\ {TmpBufSize, VsprintfSize, PanicBufSize} \subseteq Nat \ {0}
  /\ TmpBufSize < VsprintfSize
  /\ Slots \subseteq 0 .. 2^LongBits - 1 /\ StarWidths \subseteq Int
  /\ Texts \cup Junk \subseteq Seq(STRING)

DigitValue == [c \in {"0","1","2","3","4","5","6","7","8","9"} |->
  CHOOSE n \in 0 .. 9 : c = <<"0","1","2","3","4","5","6","7","8","9">>[n + 1]]
IsDigit(c) == c \in DOMAIN DigitValue

(* Length modifiers: FMT_LMASK.  Flags: FMT_FMASK. *)
LMask == {"LCHAR", "LSHORT", "LLONG", "LDLONG", "LSIZET"}
FMask == {"FLJ", "FZERO", "FSIG", "FSPACE", "FPREF"}
ConversionFlags ==
  [c \in {"i", "d", "x", "X", "p", "o", "u"} |->
     CASE c \in {"i", "d"} -> {"DDEC"}
       [] c = "x" -> {"DHEX", "DUNSIG"}
       [] c = "X" -> {"DHEX_UP", "DUNSIG"}
       [] c = "p" -> {"DHEX", "FPREF", "LLONG", "DUNSIG"}
       [] c = "o" -> {"DOCT", "DUNSIG"}
       [] c = "u" -> {"DDEC", "DUNSIG"}]

NoAttrs == [width |-> 0, presiction |-> 0, cinf |-> 0, flags |-> {}]

VARIABLES
  caller,    (* who prints: "none", "kprintf", "panic" or, when panic()    *)
             (* passes its buffer on to kprintf(), "panicked"; then        *)
             (* "returned" or "halted"; "wild" once a smashed stack is used *)
  items,     (* what the format was written from                           *)
  fmt, pos,  (* the format, and the character the loop looks at            *)
  pers, fa,  (* a '%' was seen; the attributes read since                  *)
  taken,     (* arguments taken so far                                     *)
  texts,     (* string arguments this call may have                        *)
  dest, dsize,       (* what was written, and the limit                    *)
  ret,       (* result of vsnprintf(), or Running                          *)
  isEnabled, (* is_enabled of the console                                  *)
  shown      (* the text given to display_string()                         *)

Running == -1
Quiet   == <<>>
parseVars == <<fmt, pos, pers, fa, taken, dest, ret>>
callVars  == <<caller, items, texts, dsize, isEnabled, shown>>
vars == <<parseVars, callVars>>

---------------------------------------------------------------------------
(* What is written behind o when the limit is d: a byte at a time as long  *)
(* as one fits, a run or a text only as a whole, of the digits the last    *)
(* ones.  (A byte that does not fit ends __digit(); nothing that would     *)
(* follow it fits either.)                                                 *)
Smaller(a, b) == IF a <= b THEN a ELSE b
Monus(a, b)   == IF a <= b THEN 0 ELSE a - b
Run(c, n)     == [i \in 1 .. n |-> c]
PutBytes(o, s, d)  == o \o SubSeq(s, 1, Smaller(Len(s), d - Len(o)))
PutWhole_Unbounded(o, s, d) == o \o s
PutWhole(o, s, d)  == IF Len(o) + Len(s) <= d THEN o \o s ELSE o
PutDigits(o, s, d) ==
  LET k == Smaller(Len(s), d - Len(o)) IN o \o SubSeq(s, Len(s) - k + 1, Len(s))

(* va_arg(): int is sign-extended, or zero-extended for an unsigned conversion *)
SignedInt(v) ==
  LET w == v % 2^IntBits IN IF w >= 2^(IntBits - 1) THEN w - 2^IntBits ELSE w
IdentNumSize(v, flags) ==
  IF flags \cap {"LLONG", "LDLONG", "LSIZET"} # {} THEN v
  ELSE IF "DUNSIG" \in flags THEN v % 2^IntBits
  ELSE SignedInt(v) % 2^LongBits

Nums   == <<"0","1","2","3","4","5","6","7","8","9","a","b","c","d","e","f">>
NumsUp == <<"0","1","2","3","4","5","6","7","8","9","A","B","C","D","E","F">>
Base(flags) == IF "DOCT" \in flags THEN 8 ELSE IF "DDEC" \in flags THEN 10 ELSE 16
(* The digits of n: one, and one more for every power of the base it reaches *)
Spelled(n, base, nums) ==
  LET len == 1 + Cardinality({k \in 1 .. LongBits : base^k <= n})
  IN  [i \in 1 .. len |-> nums[((n \div base^(len - i)) % base) + 1]]

Padding_PrecisionNotCounted(f, n) == Monus(f.width, n)
(* An int less the size_t n, unless n covers it; a negative int counts as  *)
(* large there, and a run of negative length is not written.               *)
Excess(x, n)  == IF 0 <= x /\ x <= n THEN 0 ELSE x - n
Padding(f, n) == Monus(Excess(f.width, n), Excess(f.presiction, n))

(* __digit(): d is unsigned where its sign is tested, so no number counts  *)
(* as negative.                                                            *)
Digit(o, n, f, d) ==
  LET has(x) == x \in f.flags
      num  == Spelled(n, Base(f.flags), IF has("DHEX_UP") THEN NumsUp ELSE Nums)
      zeros == Monus(f.presiction, Len(num))
      pad   == Padding(f, Len(num))
      left  == IF has("FLJ") THEN 0 ELSE pad
      right == pad - left
      prefix == CASE has("DHEX") /\ has("FPREF")    -> <<"0", "x">>
                  [] has("DHEX_UP") /\ has("FPREF") -> <<"0", "X">>
                  [] has("DDEC") /\ has("FSIG")     -> <<"+">>
                  [] has("DOCT") /\ has("FPREF")    -> <<"0">>
                  [] OTHER                          -> <<>>
      o1 == PutBytes(o, IF has("FSPACE") THEN <<" ">> ELSE <<>>, d)
      o2 == PutWhole(o1, Run(IF has("FZERO") THEN "0" ELSE " ", left), d)
      o3 == PutBytes(o2, prefix, d)
      o4 == PutWhole(o3, Run("0", zeros), d)
      o5 == PutDigits(o4, num, d)
  IN  PutWhole(o5, Run(" ", right), d)

(* The "%s" part: a precision beyond the end of the string reads on behind *)
(* its terminator; a smaller one is ignored.                               *)
CopyString(o, s, f, d) ==
  LET len  == IF Len(s) < f.presiction THEN f.presiction ELSE Len(s)
      read == s \o [i \in 1 .. len - Len(s) |-> IF i = 1 THEN NUL ELSE "?"]
      pad  == Run(" ", Monus(f.width, len))
  IN  IF "FLJ" \in f.flags
      THEN PutWhole(PutWhole(o, read, d), pad, d)
      ELSE PutWhole(PutWhole(o, pad, d), read, d)

---------------------------------------------------------------------------
(* The items of a format, how they are written, and what printf() of the   *)
(* C standard prints for them.                                             *)
Item(c, fl, w, p, l) ==
  [spec |-> TRUE, conv |-> c, flags |-> fl, width |-> w, prec |-> p, len |-> l]
Text(c)    == [Item(c, {}, <<>>, <<>>, <<>>) EXCEPT !.spec = FALSE]
IsText(it) == ~it.spec
Number(digits) ==
  FoldLeft(LAMBDA n, c : n * 10 + DigitValue[c], 0, digits)
Written(it) ==
  IF IsText(it) THEN <<it.conv>>
  ELSE <<"%">> \o SetToSeq(it.flags) \o it.width
       \o (IF it.prec = <<>> THEN <<>> ELSE <<".">> \o it.prec)
       \o it.len \o <<it.conv>>

Format(its) == FlattenSeq([i \in DOMAIN its |-> Written(its[i])])

PanicItems == <<Text("[PANIC] "), Item("s", {}, <<>>, <<>>, <<>>), Text("newline")>>

(* A format is a text. *)
ASSUME FormatsAssumption ==
  \A its \in Calls \cup {PanicItems} : Format(its) \in Seq(STRING)

(* The type that an argument is converted to before it is printed. *)
Signed(it) == it.conv \in {"i", "d"}
Bits(it)   == CASE it.len = <<"h", "h">>               -> CharBits
                [] it.len = <<"h">>                    -> ShortBits
                [] it.len = <<>> /\ it.conv # "p"      -> IntBits
                [] OTHER                               -> LongBits
StandardNumber(it, slot) ==
  LET bits   == Bits(it)
      w      == slot % 2^bits
      signed == Signed(it)
      neg    == signed /\ w >= 2^(bits - 1)
      prec   == IF it.prec = <<>> THEN 1 ELSE Number(it.prec)
      base   == Base(ConversionFlags[it.conv])
      num    == IF prec = 0 /\ w = 0 THEN <<>>
                ELSE Spelled(IF neg THEN 2^bits - w ELSE w, base,
                             IF it.conv = "X" THEN NumsUp ELSE Nums)
      digits == Run("0", Monus(prec, Len(num))) \o num
      head   == CASE neg                                          -> <<"-">>
                  [] signed /\ ~neg /\ "+" \in it.flags           -> <<"+">>
                  [] signed /\ ~neg /\ it.flags \cap {"+"," "} = {" "} -> <<" ">>
                  [] base = 16 /\ w # 0 /\ (it.conv = "p" \/ "#" \in it.flags)
                       -> <<"0", IF it.conv = "X" THEN "X" ELSE "x">>
                  [] base = 8 /\ "#" \in it.flags /\ (digits = <<>> \/ digits[1] # "0")
                       -> <<"0">>
                  [] OTHER -> <<>>
      pad    == Monus(Number(it.width), Len(head) + Len(digits))
  IN  IF "-" \in it.flags THEN head \o digits \o Run(" ", pad)
      ELSE IF "0" \in it.flags /\ it.prec = <<>> THEN head \o Run("0", pad) \o digits
      ELSE Run(" ", pad) \o head \o digits

StandardString(it, s) ==
  LET cut == IF it.prec = <<>> THEN s ELSE SubSeq(s, 1, Smaller(Len(s), Number(it.prec)))
      pad == Run(" ", Monus(Number(it.width), Len(cut)))
  IN  IF "-" \in it.flags THEN cut \o pad ELSE pad \o cut

StandardChar(it, c) ==
  LET pad == Run(" ", Monus(Number(it.width), 1))
  IN  IF "-" \in it.flags THEN <<c>> \o pad ELSE pad \o <<c>>

StandardItem(it, arg) ==
  CASE it.conv = "s" -> StandardString(it, arg)
    [] it.conv = "c" -> StandardChar(it, arg)
    [] OTHER         -> StandardNumber(it, arg)

(* What the items print, with args for their conversions in turn *)
Standard(its, args) ==
  FoldLeft(LAMBDA st, it :
             IF IsText(it) THEN [out |-> Append(st.out, it.conv), args |-> st.args]
             ELSE [out |-> st.out \o StandardItem(it, st.args[1]),
                   args |-> Tail(st.args)],
           [out |-> <<>>, args |-> args], its).out

---------------------------------------------------------------------------
(* vsnprintf() begins and ends *)
Start(who, its, limit, strings) ==
  /\ caller' = who /\ items' = its /\ dsize' = limit /\ texts' = strings
  /\ fmt' = Format(its)
  /\ pos' = 1 /\ pers' = FALSE /\ fa' = NoAttrs
  /\ taken' = <<>> /\ dest' = <<>> /\ ret' = Running

Init ==
  /\ caller = "none" /\ items = <<>> /\ fmt = <<>> /\ pos = 1 /\ pers = FALSE
  /\ fa = NoAttrs /\ taken = <<>> /\ texts = Texts
  /\ dest = <<>> /\ dsize = VsprintfSize /\ ret = Running
  /\ isEnabled \in BOOLEAN /\ shown = Quiet

(* kprintf(), vkprintf(), vsprintf() *)
Kprintf(its) ==
  /\ caller = "none"
  /\ Start("kprintf", its, VsprintfSize, Texts)
  /\ shown' = Quiet /\ UNCHANGED isEnabled

(* panic(), which hands its text on as the argument of a kprintf() *)
Panic(its) ==
  /\ caller = "none"
  /\ Start("panic", its, PanicBufSize, Texts)
  /\ shown' = Quiet /\ UNCHANGED isEnabled

Parsing   == caller \in {"kprintf", "panic", "panicked"} /\ ret = Running
InFormat  == Parsing /\ pos <= Len(fmt)
Char      == fmt[pos]
Following == IF pos < Len(fmt) THEN fmt[pos + 1] ELSE NUL

EndOfFormat ==
  /\ Parsing /\ pos > Len(fmt)
  /\ ret' = Len(dest)
  /\ UNCHANGED <<fmt, pos, pers, fa, taken, dest, callVars>>

(* A '%' opens a conversion.  Within one, each character counts in cinf,   *)
(* and pers is set again if the conversion goes on behind it.              *)
Percent ==
  /\ InFormat /\ Char = "%" /\ ~pers
  /\ pers' = TRUE /\ pos' = pos + 1
  /\ UNCHANGED <<fmt, fa, taken, dest, ret, callVars>>

InConversion == InFormat /\ pers
Counted      == [fa EXCEPT !.cinf = @ + 1]
GoOn(attrs, n) ==
  /\ fa' = attrs /\ pers' = TRUE /\ pos' = pos + n
  /\ UNCHANGED <<fmt, taken, dest, ret, callVars>>
HasLength == fa.flags \cap LMask # {}
HasDot    == "DOT" \in fa.flags

(* A digit behind a length modifier leaves the loop, and the function *)
DigitAfterLength ==
  /\ InConversion /\ IsDigit(Char) /\ HasLength
  /\ ret' = Len(dest)
  /\ pers' = FALSE /\ fa' = Counted
  /\ UNCHANGED <<fmt, pos, taken, dest, callVars>>

PresictionDigit ==
  /\ InConversion /\ IsDigit(Char) /\ ~HasLength /\ HasDot
  /\ GoOn([Counted EXCEPT !.presiction = @ * 10 + DigitValue[Char]], 1)

WidthDigit ==
  /\ InConversion /\ IsDigit(Char) /\ Char # "0" /\ ~HasLength /\ ~HasDot
  /\ GoOn([Counted EXCEPT !.width = @ * 10 + DigitValue[Char]], 1)

(* "0", "#", "+", "-" and " " come before the width, the dot, the length *)
FlagAllowed ==
  CASE Char = "0" -> ~HasLength /\ ~HasDot /\ fa.width <= 0
    [] Char \in {"#", "+"} -> ~HasLength /\ ~HasDot /\ fa.width <= 0
    [] Char = "-" -> ~HasLength /\ ~HasDot /\ fa.width <= 0 /\ "FSPACE" \notin fa.flags
    [] Char = " " -> ~HasLength /\ ~HasDot /\ fa.width <= 0 /\ "FLJ" \notin fa.flags
    [] OTHER -> FALSE
FlagsWith ==
  CASE Char = "0" -> fa.flags \cup IF "FLJ" \in fa.flags THEN {} ELSE {"FZERO"}
    [] Char = "#" -> fa.flags \cup {"FPREF"}
    [] Char = "+" -> (fa.flags \ {"FSPACE"}) \cup {"FSIG"}
    [] Char = "-" -> (fa.flags \ {"FZERO"}) \cup {"FLJ"}
    [] Char = " " -> fa.flags \cup IF "FSIG" \in fa.flags THEN {} ELSE {"FSPACE"}
Flag ==
  /\ InConversion /\ FlagAllowed
  /\ GoOn([Counted EXCEPT !.flags = FlagsWith], 1)

Dot ==
  /\ InConversion /\ Char = "."
  /\ GoOn([Counted EXCEPT !.flags = (@ \ {"FZERO"}) \cup {"DOT"}], 1)

LetterTwice_Unseen == Char # "z"
LetterTwice        == Char # "z" /\ Following = Char

(* h, hh, l, ll, z: the second letter is skipped and not counted *)
Length ==
  /\ InConversion /\ Char \in {"h", "l", "z"}
  /\ LET flag == CASE Char = "h" -> IF LetterTwice THEN "LCHAR" ELSE "LSHORT"
                   [] Char = "l" -> IF LetterTwice THEN "LDLONG" ELSE "LLONG"
                   [] Char = "z" -> "LSIZET"
     IN GoOn([Counted EXCEPT !.flags = @ \cup {flag}], IF LetterTwice THEN 2 ELSE 1)

(* "*" stores a dlong over an int and its neighbour: over width and        *)
(* presiction, or over presiction and cinf, which gets the sign.           *)
Sign(v) == IF v < 0 THEN -1 ELSE 0
StarAllowed ==
  /\ Char = "*" /\ fa.flags \cap FMask = {} /\ ~HasLength
  /\ IF HasDot THEN fa.presiction <= 0 ELSE fa.width <= 0
Star ==
  /\ InConversion /\ StarAllowed
  /\ \E v \in StarWidths :
       fa' = IF HasDot THEN [fa EXCEPT !.presiction = v, !.cinf = Sign(v)]
             ELSE [Counted EXCEPT !.width = v, !.presiction = Sign(v)]
  /\ pers' = TRUE /\ pos' = pos + 1
  /\ UNCHANGED <<fmt, taken, dest, ret, callVars>>

(* Behind a conversion *)
Converted(arg, out, r) ==
  /\ dest' = out /\ ret' = r /\ taken' = Append(taken, arg)
  /\ fa' = IF r = Running THEN NoAttrs ELSE Counted
  /\ pers' = FALSE /\ pos' = IF r = Running THEN pos + 1 ELSE pos
  /\ UNCHANGED <<fmt, callVars>>

ConvertNumber ==
  /\ InConversion /\ Char \in DOMAIN ConversionFlags
  /\ \E v \in Slots :
       LET flags == fa.flags \cup ConversionFlags[Char]
           out   == Digit(dest, IdentNumSize(v, flags), [fa EXCEPT !.flags = flags], dsize)
       IN  Converted(v, out, IF out = dest THEN dsize ELSE Running)

ConvertString ==
  /\ InConversion /\ Char = "s"
  /\ \E s \in texts : Converted(s, CopyString(dest, s, fa, dsize), Running)

ConvertChar ==
  /\ InConversion /\ Char = "c"
  /\ LET pad == Run(" ", Monus(fa.width, 1))
         fl  == "FLJ" \in fa.flags
         o1  == IF fl THEN dest ELSE PutWhole(dest, pad, dsize)
     IN  IF Len(o1) = dsize THEN Converted("c", o1, dsize)
         ELSE Converted("c", IF fl THEN PutWhole(Append(o1, "c"), pad, dsize)
                             ELSE Append(o1, "c"), Running)

(* Anything else is copied.  A conversion that is none is copied from its  *)
(* '%' on, by stepping cinf characters back; "%%" resets cinf first.  A    *)
(* rejected "0" leaves pers set.                                           *)
Conversion == DOMAIN ConversionFlags \cup {"s", "c"}
Understood ==
  \/ IsDigit(Char) /\ (Char # "0" \/ HasDot \/ HasLength)
  \/ FlagAllowed
  \/ Char \in {".", "h", "l", "z"} \cup Conversion
  \/ StarAllowed
BackTo ==
  CASE ~pers       -> pos
    [] Char = "%"  -> pos
    [] OTHER       -> pos - Counted.cinf
Full_Dropped == FALSE
Full         == Len(dest) = dsize
CopyCharacter ==
  /\ InFormat
  /\ IF pers THEN ~Understood ELSE Char # "%"
  /\ pers' = (pers /\ IsDigit(Char))
  /\ IF Full
     THEN /\ ret' = dsize
          /\ UNCHANGED <<pos, fa, dest>>
     ELSE /\ dest' = PutBytes(dest, <<fmt[BackTo]>>, dsize)
          /\ pos' = BackTo + 1 /\ fa' = NoAttrs
          /\ UNCHANGED ret
  /\ UNCHANGED <<fmt, taken, callVars>>

---------------------------------------------------------------------------
(* Back in vkprintf(): the buffer was cleared, so a text that leaves room  *)
(* in it is terminated; of a longer one only the length is known, after    *)
(* the fact.  panic() does not clear its buffer, and vsnprintf() writes no *)
(* terminator.                                                             *)
UpToNul(s) == IF Contains(s, NUL) THEN SubSeq(s, 1, SelectInSeq(s, LAMBDA c : c = NUL) - 1)
              ELSE s
ErrorText  == <<"vkprintf error">>

DisplayString ==
  /\ caller \in {"kprintf", "panicked"} /\ ret # Running
  /\ \E j \in IF Len(dest) = TmpBufSize THEN Junk ELSE {<<>>} :
       shown' = IF ~isEnabled THEN Quiet
                ELSE IF ret > TmpBufSize THEN ErrorText
                ELSE UpToNul(dest \o j)
  /\ caller' = IF caller = "kprintf" THEN "returned" ELSE "halted"
  /\ UNCHANGED <<parseVars, items, texts, dsize, isEnabled>>

Return ==
  /\ caller = "returned"
  /\ Start("none", <<>>, VsprintfSize, Texts)
  /\ shown' = Quiet /\ UNCHANGED isEnabled

PanicKprintf ==
  /\ caller = "panic" /\ ret # Running
  /\ Start("panicked", PanicItems, VsprintfSize, {UpToNul(dest \o j) : j \in Junk})
  /\ UNCHANGED <<isEnabled, shown>>

(* tmp_buf is on the stack, and vsprintf()'s limit is far behind its end:  *)
(* of what a longer text overwrites, the saved registers and the return    *)
(* address of vkprintf() and the arguments of kprintf(), some is used      *)
(* before long.  What then happens, nothing is claimed of.                 *)
Smashed ==
  caller \in {"kprintf", "panicked", "returned"} /\ Len(dest) > TmpBufSize
Smash ==
  /\ Smashed
  /\ caller' = "wild"
  /\ UNCHANGED <<parseVars, items, texts, dsize, isEnabled, shown>>

(* for(;;); and what is nobody's program any more *)
Stopped == caller \in {"halted", "wild"} /\ UNCHANGED vars

Step == \/ EndOfFormat \/ Percent \/ DigitAfterLength \/ PresictionDigit
        \/ WidthDigit \/ Flag \/ Dot \/ Length \/ Star
        \/ ConvertNumber \/ ConvertString \/ ConvertChar \/ CopyCharacter
        \/ DisplayString \/ PanicKprintf \/ Return
Next == Step \/ Smash \/ Stopped \/ \E its \in Calls : Kprintf(its) \/ Panic(its)

Spec == Init /\ [][Next]_vars /\ WF_vars(Step)

---------------------------------------------------------------------------
(* Types; the loop looks at the terminator at most, never behind it. *)
TypeOK ==
  /\ caller \in {"none", "kprintf", "returned", "panic", "panicked", "halted",
                 "wild"}
  /\ pos \in 1 .. Len(fmt) + 1 /\ pers \in BOOLEAN
  /\ fa.flags \subseteq FMask \cup LMask \cup {"DOT"}
  /\ {fa.width, fa.presiction} \subseteq Int /\ fa.cinf \in Nat \cup {-1}
  /\ ret \in Nat \cup {Running} /\ isEnabled \in BOOLEAN

(* vsnprintf() never writes behind its limit, and returns exactly what it  *)
(* has written, however padding, prefix, digits and texts compete for the  *)
(* rest of the buffer and however often a rejected conversion is copied    *)
(* again.                                                                  *)
WithinLimit ==
  /\ Len(dest) <= dsize
  /\ ret # Running => ret = Len(dest)

(* What the kernel's own messages use of printf() comes out as the C       *)
(* standard says, all the way to display_string(), if it fits in the       *)
(* buffer of vkprintf() with its terminator: numbers that are not negative *)
(* and that the type of their length can hold, a precision for numbers     *)
(* only, a width that has no digit 0, "-" to the left of it, strings,      *)
(* characters and lengths.  (Beyond VsprintfSize nothing can be whole.)    *)
PlainNumber(it, arg) ==
  /\ Signed(it) => SignedInt(arg) >= 0 /\ arg < 2^(LongBits - 1)
  /\ it.len \in {<<"h">>, <<"h", "h">>} =>
       arg % 2^IntBits < 2^(Bits(it) - IF Signed(it) THEN 1 ELSE 0)
  /\ it.prec # <<>> => Number(it.prec) > 0
  /\ it.conv = "p" => arg # 0
Plain(it, arg) ==
  \/ IsText(it) /\ it.conv # "%"
  \/ /\ it.spec /\ it.flags \subseteq {"-"} /\ ~Contains(it.width, "0")
     /\ IF it.conv \in {"s", "c"} THEN it.prec = <<>> ELSE PlainNumber(it, arg)
ArgOf(i) == LET n == Cardinality({j \in 1 .. i : ~IsText(items[j])})
            IN  IF n = 0 THEN 0 ELSE taken[n]
PlainCall ==
  /\ Cardinality({i \in DOMAIN items : ~IsText(items[i])}) = Len(taken)
  /\ \A i \in DOMAIN items : Plain(items[i], ArgOf(i))
MessagesStandard ==
  /\ caller \in {"returned", "halted"} /\ isEnabled /\ PlainCall
  /\ Len(dest) < TmpBufSize /\ Len(Standard(items, taken)) <= VsprintfSize
  => shown = Standard(items, taken)

(* Every call ends, or overruns the buffer of vkprintf(): also when a      *)
(* rejected "0" makes the loop copy the same '%' for ever, which only the  *)
(* limit of panic() ends in time.                                          *)
CallsEnd == Parsing /\ ~Smashed ~> ~Parsing \/ Smashed
=============================================================================
