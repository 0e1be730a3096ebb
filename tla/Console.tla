------------------------------ MODULE Console ------------------------------
(***************************************************************************)
(* The VGA console: eza/generic_api/vga.c and kconsole.c.  The kernel is   *)
(* built without optimisation, so a task's vga_putch() loads and stores    *)
(* the cursor in steps of its own, and an interrupt handler that prints    *)
(* (spurious_interrupt_handler()) can come between any two of them.  The   *)
(* handler's own text is printed in one step.                              *)
(*                                                                         *)
(* Text memory is a function from word numbers to characters; the colours  *)
(* of a cell are left out.  log is what was printed, line by line, which   *)
(* means something while nothing but plain text was printed and no handler *)
(* came into the middle of a character.                                    *)
(***************************************************************************)
EXTENDS Integers, Sequences, SequencesExt

CONSTANTS
  Cols, Rows,   (* of the screen                                           *)
  TextRows,     (* rows of that width in text memory, 0xB8000 to 0xBFFFF   *)
  Uint16,       (* 2^16: cursor positions are uint16_t                     *)
  Messages,     (* what tasks print                                        *)
  IrqMessages,  (* what interrupt handlers print                           *)
  MaxPrints     (* bound on the messages printed                           *)

(* The code's screen has 80 columns; on one of a single column every       *)
(* character would scroll.  Messages are sequences of characters.          *)
ASSUME ConsoleAssumption ==
  /\ Rows \in Nat \ {0, 1, 2} /\ Cols \in Nat \ {0, 1}
  /\ TextRows \in Nat /\ TextRows >= 2 * Rows
  /\ Uint16 \in Nat /\ Uint16 > TextRows * Cols
  /\ \A s \in Messages \cup IrqMessages : s \in Seq({s[i] : i \in DOMAIN s})

Blank    == " "
Controls == {"BS", "TAB", "CR", "NL", "BEL"}
Words    == 0 .. TextRows * Cols - 1
CSR == 10  CLHR == 14  CLLR == 15    (* CRTC registers *)

VARIABLES
  is_enabled,  (* __vga_cons.is_enabled                                    *)
  dev,         (* x, y and the text memory; wild: a store has missed it    *)
  crt,         (* index register, CSR, CLHR and CLLR of the CRTC, and      *)
               (* __vregs, the copies of the last two                      *)
  pc, str,     (* where the task is, and what it has yet to print          *)
  reg, diff,   (* its register or local variable                           *)
  saved,       (* crt_ar                                                   *)
  log,         (* the last lines printed                                   *)
  plain,       (* only plain text so far                                   *)
  raced,       (* a handler printed in the middle of a character           *)
  misread,     (* history: the test found x behind the last column, and    *)
               (* the second reading of x did not                          *)
  prints       (* messages so far                                          *)

taskVars == <<pc, str, reg, diff, saved>>
consoleVars == <<is_enabled, dev, crt, taskVars, log, plain, raced, misread, prints>>

---------------------------------------------------------------------------
(* vga_putch(), vga_scroll() and vga_update_cursor(), undisturbed *)
Store(d, k, c) ==
  IF k \in Words THEN [d EXCEPT !.cell[k] = c] ELSE [d EXCEPT !.wild = TRUE]

(* % of C: the result has the sign of the dividend *)
Remainder(a, b) == IF a >= 0 THEN a % b ELSE -((-a) % b)
WrapColumn_Reversed(x) == Remainder(Cols - x, Cols) % Uint16
WrapColumn(x)   == Remainder(x - Cols, Cols) % Uint16

(* Two rows up, the first row below the screen with them; the blanks go to *)
(* row 2 * (rows - 1).                                                     *)
CopyUp_OneRow(cell) ==
  [k \in Words |-> IF k < Cols * (Rows - 1) THEN cell[k + Cols] ELSE cell[k]]
CopyUp(cell) ==
  [k \in Words |-> IF k < Cols * (Rows - 1) THEN cell[k + 2 * Cols]
                   ELSE IF k \in Cols * (Rows - 1) * 2 .. Cols * (Rows - 1) * 2 + Cols
                   THEN Blank ELSE cell[k]]
Scroll(d) ==
  LET w == IF d.x >= Cols
           THEN [d EXCEPT !.x = WrapColumn(d.x), !.y = (d.y + 1) % Uint16] ELSE d
  IN  IF w.y >= Rows THEN [w EXCEPT !.y = Rows - 2, !.cell = CopyUp(w.cell)] ELSE w

Putch(d, c) ==
  CASE c = "BS"  -> IF d.x = 0 THEN d ELSE [d EXCEPT !.x = @ - 1]
    [] c = "TAB" -> [d EXCEPT !.x = (@ + 8) % Uint16]
    [] c = "CR"  -> [d EXCEPT !.x = 0]
    [] c = "NL"  -> [d EXCEPT !.x = 0, !.y = (@ + 1) % Uint16]
    [] c = "BEL" -> d
    [] OTHER     -> Scroll([Store(d, Cols * d.y + d.x, c) EXCEPT !.x = (@ + 1) % Uint16])

CursorWord(d) == (d.y * Cols + d.x - 1) % Uint16
RestoreIndex_Forgotten(old, r) == r
RestoreIndex(old, r) == [r EXCEPT !.index = old.index]
UpdateCursor(r, where) ==
  RestoreIndex(r, [r EXCEPT !.index = CLLR,
                            !.port[CLHR] = where \div 256, !.vregs[CLHR] = where \div 256,
                            !.port[CLLR] = where % 256, !.vregs[CLLR] = where % 256])

(* The lines printed, and whether a character keeps the text plain: a '\n' *)
(* below the first row under the screen does not, as scrolling forgets     *)
(* that row.                                                               *)
Recent(lines) == IF Len(lines) > Rows + 1 THEN Tail(lines) ELSE lines
Logged(lines, c) ==
  LET new == Append(Last(lines), c)
  IN  CASE c = "NL"  -> Recent(Append(lines, <<>>))
        [] c \in Controls \ {"NL"} -> lines
        [] OTHER -> IF Len(new) < Cols THEN Front(lines) \o <<new>>
                    ELSE Recent(Front(lines) \o <<new, <<>>>>)
StaysPlain(d, c) == c \notin {"BS", "TAB", "CR"} /\ (c = "NL" => d.y < Rows)

Printed(s) ==
  FoldLeft(LAMBDA p, c : [dev |-> Putch(p.dev, c), log |-> Logged(p.log, c),
                          plain |-> p.plain /\ StaysPlain(p.dev, c)],
           [dev |-> dev, log |-> log, plain |-> plain], s)

---------------------------------------------------------------------------
(* vga_cursor(): the cursor is off when bit 5 of CSR is set *)
CursorSwitched(r, on) ==
  LET off == (r.port[CSR] \div 32) % 2 = 1
  IN  CASE on /\ off    -> [r EXCEPT !.port[CSR] = @ - 32]
        [] ~on /\ ~off  -> [r EXCEPT !.port[CSR] = @ + 32]
        [] OTHER        -> r
(* vga_set_cursor_attrs(VGA_CRSR_LOW); the 'C' it prints is wiped by cls *)
CursorLow(r) == [r EXCEPT !.port[CSR] = 10]
Cls(d) ==
  [d EXCEPT !.x = 0, !.y = 0,
            !.cell = [k \in Words |-> IF k < 2 * Cols * Rows THEN Blank ELSE d.cell[k]]]

ConsoleInit ==
  /\ is_enabled = FALSE
  /\ dev = [x |-> 0, y |-> 0, cell |-> [k \in Words |-> "?"], wild |-> FALSE]
  /\ \E index, csr \in {0, 45} :
       crt = [index |-> index, port |-> [p \in {CSR, CLHR, CLLR} |-> IF p = CSR THEN csr ELSE 0],
              vregs |-> [p \in {CLHR, CLLR} |-> 0]]
  /\ pc = "idle" /\ str = <<>> /\ reg = 0 /\ diff = 0 /\ saved = 0
  /\ log = << <<>> >> /\ plain = TRUE /\ raced = FALSE /\ misread = FALSE /\ prints = 0

(* Before any interrupt *)
Enable ==
  /\ ~is_enabled /\ prints = 0
  /\ is_enabled' = TRUE
  /\ dev' = Cls(dev)
  /\ crt' = UpdateCursor(CursorLow(CursorSwitched(crt, TRUE)), CursorWord(dev'))
  /\ UNCHANGED <<taskVars, log, plain, raced, misread, prints>>

Disable ==
  /\ is_enabled /\ pc = "idle" /\ is_enabled' = FALSE
  /\ UNCHANGED <<dev, crt, taskVars, log, plain, raced, misread, prints>>

(* display_char() prints when the console is not enabled *)
DisplayChar ==
  /\ ~is_enabled /\ pc = "idle" /\ prints > 0 /\ prints < MaxPrints
  /\ prints' = prints + 1
  /\ dev' = Printed(<<"a">>).dev /\ log' = Printed(<<"a">>).log
  /\ crt' = UpdateCursor(crt, CursorWord(dev'))
  /\ UNCHANGED <<is_enabled, taskVars, plain, raced, misread>>

(* display_string() in a handler, with the task at any point *)
BetweenCharacters == pc \in {"idle", "next", "where"}
Interrupt(s) ==
  /\ is_enabled /\ prints < MaxPrints /\ prints' = prints + 1
  /\ dev' = Printed(s).dev /\ log' = Printed(s).log
  /\ plain' = Printed(s).plain /\ raced' = (raced \/ ~BetweenCharacters)
  /\ crt' = UpdateCursor(crt, CursorWord(dev'))
  /\ UNCHANGED <<is_enabled, taskVars, misread>>

---------------------------------------------------------------------------
(* display_string() in a task, step by step *)
display_string(s) ==
  /\ pc = "idle" /\ is_enabled /\ prints < MaxPrints
  /\ prints' = prints + 1 /\ str' = s /\ pc' = "next"
  /\ UNCHANGED <<is_enabled, dev, crt, reg, diff, saved, log, plain, raced, misread>>

At(p, q) ==
  /\ pc = p /\ pc' = q /\ UNCHANGED <<is_enabled, raced, prints>>
  /\ misread' = (misread \/ (p = "diff" /\ dev.x < Cols))
NextChar == Head(str)
Done     == str' = Tail(str) /\ log' = Logged(log, NextChar)
NotDone  == UNCHANGED <<str, log>>
NoCrt    == UNCHANGED <<crt, saved>>
Cursor(x, y) == dev' = [dev EXCEPT !.x = x % Uint16, !.y = y % Uint16]

(* The switch, up to the first use of the cursor *)
PutControl ==
  /\ str # <<>> /\ NoCrt /\ UNCHANGED diff
  /\ plain' = (plain /\ StaysPlain(dev, NextChar))
  /\ \/ /\ NextChar = "BS" /\ dev.x # 0
        /\ At("next", "decrement") /\ NotDone /\ UNCHANGED <<dev, reg>>
     \/ /\ NextChar = "BEL" \/ (NextChar = "BS" /\ dev.x = 0)
        /\ At("next", "next") /\ Done /\ UNCHANGED <<dev, reg>>
     \/ /\ NextChar = "TAB"
        /\ At("next", "storeX") /\ reg' = dev.x + 8 /\ NotDone /\ UNCHANGED dev
     \/ /\ NextChar = "CR"
        /\ At("next", "next") /\ Done /\ Cursor(0, dev.y) /\ UNCHANGED reg
     \/ /\ NextChar = "NL"
        /\ At("next", "newline") /\ NotDone /\ Cursor(0, dev.y) /\ UNCHANGED reg
PutPrintable ==
  /\ str # <<>> /\ NextChar \notin Controls /\ At("next", "column")
  /\ reg' = Cols * dev.y
  /\ NotDone /\ NoCrt /\ UNCHANGED <<dev, diff, plain>>

(* A step that only loads into the register *)
Load(p, q, value) ==
  /\ At(p, q) /\ reg' = value
  /\ NotDone /\ NoCrt /\ UNCHANGED <<dev, diff, plain>>
LoadCursor ==
  \/ Load("decrement", "storeX", dev.x - 1)
  \/ Load("newline", "storeY", dev.y + 1)
  \/ Load("column", "write", reg + dev.x)
  \/ Load("increment", "storeX", dev.x + 1)
  \/ Load("wrapY", "storeWrapY", dev.y + 1)

Write ==
  /\ At("write", "increment")
  /\ dev' = Store(dev, reg, NextChar)
  /\ NotDone /\ NoCrt /\ UNCHANGED <<reg, diff, plain>>

StoreCursor ==
  /\ str # <<>> /\ NoCrt /\ UNCHANGED <<reg, diff, plain>>
  /\ \/ NextChar \in Controls /\ At("storeX", "next") /\ Cursor(reg, dev.y) /\ Done
     \/ NextChar \notin Controls /\ At("storeX", "wrap") /\ Cursor(reg, dev.y) /\ NotDone
     \/ At("storeY", "next") /\ Cursor(dev.x, reg) /\ Done
     \/ At("storeWrapY", "wrapX") /\ Cursor(dev.x, reg) /\ NotDone
     \/ At("wrapX", "bottom") /\ Cursor(diff, dev.y) /\ NotDone
     \/ dev.y >= Rows /\ At("bottom", "copy") /\ Cursor(dev.x, Rows - 2) /\ NotDone
     \/ dev.y < Rows /\ At("bottom", "next") /\ UNCHANGED dev /\ Done

WrapTest ==
  /\ IF dev.x >= Cols THEN At("wrap", "diff") ELSE At("wrap", "bottom")
  /\ NotDone /\ NoCrt /\ UNCHANGED <<dev, reg, diff, plain>>

Diff ==    (* x is read again behind the test *)
  /\ At("diff", "wrapY") /\ diff' = WrapColumn(dev.x)
  /\ NotDone /\ NoCrt /\ UNCHANGED <<dev, reg, plain>>

Copy ==
  /\ At("copy", "next") /\ dev' = [dev EXCEPT !.cell = CopyUp(@)]
  /\ Done /\ NoCrt /\ UNCHANGED <<reg, diff, plain>>

EndOfString ==
  /\ str = <<>> /\ At("next", "where")
  /\ NotDone /\ NoCrt /\ UNCHANGED <<dev, reg, diff, plain>>

(* vga_update_cursor(): __vregs is written, and read for the port *)
Crt(p, q, r) ==
  /\ At(p, q) /\ crt' = r
  /\ NotDone /\ UNCHANGED <<dev, reg, diff, saved, plain>>
OutPort == [crt EXCEPT !.port[crt.index] = crt.vregs[IF pc = "outHigh" THEN CLHR ELSE CLLR]]
UpdateStep ==
  \/ Load("where", "save", CursorWord(dev))
  \/ /\ At("save", "selectHigh") /\ saved' = crt.index
     /\ NotDone /\ UNCHANGED <<dev, crt, reg, diff, plain>>
  \/ Crt("selectHigh", "high", [crt EXCEPT !.index = CLHR])
  \/ Crt("high", "outHigh", [crt EXCEPT !.vregs[CLHR] = reg \div 256])
  \/ crt.index \in DOMAIN crt.port /\ Crt("outHigh", "selectLow", OutPort)
  \/ Crt("selectLow", "low", [crt EXCEPT !.index = CLLR])
  \/ Crt("low", "outLow", [crt EXCEPT !.vregs[CLLR] = reg % 256])
  \/ crt.index \in DOMAIN crt.port /\ Crt("outLow", "restore", OutPort)
  \/ Crt("restore", "idle", [crt EXCEPT !.index = saved])

TaskStep == \/ PutControl \/ PutPrintable \/ LoadCursor \/ Write \/ StoreCursor
            \/ WrapTest \/ Diff \/ Copy \/ EndOfString \/ UpdateStep
ConsoleNext ==
  \/ Enable \/ Disable \/ DisplayChar \/ TaskStep
  \/ \E s \in Messages : display_string(s)
  \/ \E s \in IrqMessages : Interrupt(s)

ConsoleSpec == ConsoleInit /\ [][ConsoleNext]_consoleVars

---------------------------------------------------------------------------
(* Between two characters the memory above and in the cursor's row holds   *)
(* the last lines printed, in their order, also across scrolling by two    *)
(* rows and with a handler's text among a task's characters; at rest the   *)
(* hardware's cursor stands on the last character.                         *)
StartsWith(row, line) == \A i \in DOMAIN line : dev.cell[row * Cols + i - 1] = line[i]
LogShown ==
  is_enabled /\ plain /\ ~raced /\ BetweenCharacters
    => /\ \A row \in 0 .. dev.y :
            LET k == Len(log) - (dev.y - row) IN k >= 1 => StartsWith(row, log[k])
       /\ pc = "idle" => crt.port[CLHR] * 256 + crt.port[CLLR] = CursorWord(dev)

(* Plain text stays in text memory, with handlers printing between any two *)
(* steps of a task's character, but for one race: vga_scroll() tests x and *)
(* reads it again, and a handler has moved it back in between.  (Text that *)
(* is not plain leaves it by itself: an end of line and a tab do not       *)
(* scroll.)                                                                *)
PlainInMemory == dev.wild => ~plain \/ misread

(* A handler's vga_update_cursor() within a task's leaves the index        *)
(* register as it found it: what the task writes goes to the register it   *)
(* has selected.                                                           *)
IndexAsSelected ==
  [][/\ pc = "outHigh" => crt.index = CLHR
     /\ pc = "outLow"  => crt.index = CLLR
     /\ pc = "restore" /\ pc' = "idle" => crt'.index \in {0, 45}]_consoleVars
=============================================================================
