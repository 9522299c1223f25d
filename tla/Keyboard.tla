------------------------------- MODULE Keyboard -------------------------------
(***************************************************************************)
(* device/keyboard.c intr_keyboard_handler and device/ioqueue.c: the IRQ1  *)
(* handler reads one scan-code byte per interrupt, keeps the modifier      *)
(* flags and the 0xe0 prefix in static globals, and appends the character *)
(* it decodes to the ring buffer kbd_buf unless the buffer is full.  A     *)
(* reader thread takes characters with ioq_getchar and sleeps on the       *)
(* buffer while it is empty.  kernel/main.c starts no reader; the module   *)
(* has one, as a shell would be, to check the buffer's contract.           *)
(*                                                                         *)
(* The handler runs through an interrupt gate and ioq_getchar is entered   *)
(* with interrupts off (ASSERTs at ioqueue.c:24,31), so each is one step   *)
(* up to the point where the reader blocks.  The user presses and         *)
(* releases physical keys; the keyboard controller delivers the scan-code *)
(* set 1 bytes of one key event at a time.                                 *)
(***************************************************************************)
EXTENDS Integers, Sequences, TLC

CONSTANTS
  BufSize,     \* bufsize of ioqueue.h (64 in the code)
  Keys,        \* the physical keys the user may press
  MaxEvents,   \* bound on key presses and releases
  NULL         \* an empty ioq->consumer

AllKeys == {"A", "V", "One", "LShift", "RShift", "Caps", "LCtrl", "RCtrl",
            "LAlt", "RAlt", "Up", "F1", "PrtSc"}
ASSUME BufSize >= 2 /\ Keys \subseteq AllKeys /\ MaxEvents \in Nat

(* Scan-code set 1 as the controller delivers it. *)
MakeCodes(k) ==
  CASE k = "A"      -> <<\h1e>>       [] k = "V"     -> <<\h2f>>
    [] k = "One"    -> <<\h02>>       [] k = "Caps"  -> <<\h3a>>
    [] k = "LShift" -> <<\h2a>>       [] k = "RShift" -> <<\h36>>
    [] k = "LCtrl"  -> <<\h1d>>       [] k = "RCtrl" -> <<\he0, \h1d>>
    [] k = "LAlt"   -> <<\h38>>       [] k = "RAlt"  -> <<\he0, \h38>>
    [] k = "Up"     -> <<\he0, \h48>> [] k = "F1"    -> <<\h3b>>
    [] k = "PrtSc"  -> <<\he0, \h2a, \he0, \h37>>
BreakCodes(k) ==
  IF k = "PrtSc" THEN <<\he0, \hb7, \he0, \haa>>
  ELSE [i \in DOMAIN MakeCodes(k) |->
          IF MakeCodes(k)[i] = \he0 THEN \he0 ELSE MakeCodes(k)[i] + \h80]

(* The reference: the US layout's lower and shifted glyph of each         *)
(* character key; letters follow shift XOR caps lock, the others shift.   *)
CharKeys == {"A", "V", "One"}
Letters  == {"A", "V"}
Glyphs(k) == CASE k = "A" -> <<"a", "A">> [] k = "V" -> <<"v", "V">>
               [] k = "One" -> <<"1", "!">>
AllChars == {"a", "A", "v", "V", "1", "!"}
Expected(k, held, caps) ==
  LET sh == held \cap {"LShift", "RShift"} # {}
      up == IF k \in Letters THEN sh # caps ELSE sh
  IN  Glyphs(k)[IF up THEN 2 ELSE 1]

-----------------------------------------------------------------------------
(* keyboard.c lines 31-39: the modifier make codes. *)
ShiftLMake == \h2a
ShiftRMake == \h36
AltLMake == \h38
AltRMake == \he038
CtrlLMake == \h1d
CtrlRMake == \he01d
CapsLockMake == \h3a

(* Lines 49-112, the rows of keymap the keys above index; "" is           *)
(* char_invisible.                                                         *)
KeyMap ==
  (\h02 :> <<"1", "!">>) @@ (\h1d :> <<"", "">>) @@ (\h1e :> <<"a", "A">>)
  @@ (\h2a :> <<"", "">>) @@ (\h2f :> <<"v", "A">>) @@ (\h36 :> <<"", "">>)
  @@ (\h38 :> <<"", "">>) @@ (\h3a :> <<"", "">>)

(* Lines 174-178: digits and punctuation take only shift. *)
ShiftOnlyKey(sc) ==
  sc < \h0e \/ sc \in {\h29, \h1a, \h1b, \h2b, \h27, \h28, \h33, \h34, \h35}

(* Shift and caps lock both down taken as shift. *)
LetterShiftNoBoth(shiftLast, capsLast) == shiftLast \/ capsLast

(* Lines 188-202: a letter is shifted by shift or caps lock, not both. *)
LetterShift(shiftLast, capsLast) ==
  IF shiftLast /\ capsLast THEN FALSE ELSE shiftLast \/ capsLast

(* The bit operations of the handler on a 16-bit scancode: x & b for a   *)
(* single bit b, x & ~b, x & 0x00ff, and 0xe000 | byte for a byte.         *)
BitSet(x, b) == (x \div b) % 2 = 1
ClearBit(x, b) == IF BitSet(x, b) THEN x - b ELSE x
LowByte(x) == x % \h100
WithE0(byte) == \he000 + byte

(* Lines 117-244 for one byte: the new flags and the character, "" when   *)
(* none.  The flags are ctrl_status, shift_status, alt_status,            *)
(* caps_lock_status and ext_scancode.                                     *)
Decode(st, byte) ==
  IF byte = \he0 THEN [st |-> [st EXCEPT !.ext = TRUE], ch |-> ""]
  ELSE
  LET sc == IF st.ext THEN WithE0(byte) ELSE byte
      s1 == [st EXCEPT !.ext = FALSE]
  IN  IF BitSet(sc, \h80) THEN
        LET mk == ClearBit(sc, \h80)
        IN  [st |-> [s1 EXCEPT
                       !.ctrl  = IF mk \in {CtrlLMake, CtrlRMake} THEN FALSE ELSE @,
                       !.shift = IF mk \in {ShiftLMake, ShiftRMake} THEN FALSE ELSE @,
                       !.alt   = IF mk \in {AltLMake, AltRMake} THEN FALSE ELSE @],
             ch |-> ""]
      ELSE IF (sc > 0 /\ sc < \h3b) \/ sc \in {AltRMake, CtrlRMake} THEN
        LET shift == IF ShiftOnlyKey(sc) THEN st.shift
                     ELSE LetterShift(st.shift, st.caps)
            idx   == LowByte(sc)
            ch    == KeyMap[idx][IF shift THEN 2 ELSE 1]
        IN  IF ch # "" THEN [st |-> s1, ch |-> ch]
            ELSE [st |-> [s1 EXCEPT
                            !.ctrl  = IF idx \in {CtrlLMake, CtrlRMake} THEN TRUE ELSE @,
                            !.shift = IF idx \in {ShiftLMake, ShiftRMake} THEN TRUE ELSE @,
                            !.alt   = IF idx \in {AltLMake, AltRMake} THEN TRUE ELSE @,
                            !.caps  = IF idx = CapsLockMake THEN ~@ ELSE @],
                  ch |-> ""]
      ELSE [st |-> s1, ch |-> ""]

(* ioqueue.c next_pos without the modulo. *)
NextPosNoWrap(pos) == pos + 1

(* ioqueue.c lines 16-19. *)
NextPos(pos) == (pos + 1) % BufSize

(* ioq_full tested one slot early. *)
IoqFullEarly(hd, tl) == NextPos(NextPos(hd)) = tl

(* ioqueue.c lines 22-26 and 29-33. *)
IoqFull(hd, tl) == NextPos(hd) = tl

IoqEmpty(hd, tl) == hd = tl

VARIABLES
  st,        \* the handler's static flags
  pending,   \* bytes of the current key event the controller still holds
  buf, head, tail,   \* kbd_buf
  waiter,    \* kbd_buf.consumer
  lockHeld,  \* kbd_buf.lock held by the reader
  rpc,       \* the reader: in ioq_getchar, blocked, or woken (ready)
  held, capsOn, want,  \* the keys down, the caps lock state and the
                       \* character the current event should give
  decoded,   \* every character the handler produced
  got,       \* every character ioq_getchar returned
  events     \* key events so far

vars == <<st, pending, buf, head, tail, waiter, lockHeld, rpc, held, capsOn,
          want, decoded, got, events>>

(* The characters waiting in kbd_buf, oldest first. *)
Count == (head - tail + BufSize) % BufSize
Contents == [i \in 1..Count |-> buf[(tail + i - 1) % BufSize]]

-----------------------------------------------------------------------------
(* keyboard_init and ioqueue_init (ioqueue.c lines 8-13): the statics are *)
(* zero, head = tail = 0, no waiter.                                       *)
Init ==
  /\ st = [ctrl |-> FALSE, shift |-> FALSE, alt |-> FALSE, caps |-> FALSE,
           ext |-> FALSE]
  /\ pending = <<>>
  /\ buf = [i \in 0..(BufSize - 1) |-> ""]
  /\ head = 0 /\ tail = 0
  /\ waiter = NULL /\ lockHeld = FALSE /\ rpc = "get"
  /\ held = {} /\ capsOn = FALSE /\ want = ""
  /\ decoded = <<>> /\ got = <<>> /\ events = 0

ReaderVars == <<tail, lockHeld, got>>
UserVars == <<held, capsOn, want, events>>

(* The user presses a key that is up; the controller queues its make code. *)
Press(k) ==
  /\ events < MaxEvents /\ pending = <<>> /\ k \notin held
  /\ pending' = MakeCodes(k)
  /\ held' = held \cup {k}
  /\ capsOn' = IF k = "Caps" THEN ~capsOn ELSE capsOn
  /\ want' = IF k \in CharKeys THEN Expected(k, held, capsOn) ELSE ""
  /\ events' = events + 1
  /\ UNCHANGED <<st, buf, head, waiter, rpc, decoded, ReaderVars>>

(* The user releases a key that is down. *)
Release(k) ==
  /\ events < MaxEvents /\ pending = <<>> /\ k \in held
  /\ pending' = BreakCodes(k)
  /\ held' = held \ {k} /\ want' = "" /\ events' = events + 1
  /\ UNCHANGED <<st, buf, head, waiter, rpc, decoded, capsOn, ReaderVars>>

(* ioqueue.c wake_up, lines 46-51: thread_unblock, then *waiter = NULL. *)
WakeUp == rpc' = "ready" /\ waiter' = NULL

(* ioq_putchar without waking the consumer. *)
IoqPutcharNoWake(c) ==
  /\ buf' = [buf EXCEPT ![head] = c]
  /\ head' = NextPos(head)
  /\ UNCHANGED <<waiter, rpc>>

(* ioq_putchar, lines 77-92, called only when the buffer is not full, so  *)
(* its wait loop is never entered. *)
IoqPutchar(c) ==
  /\ buf' = [buf EXCEPT ![head] = c]
  /\ head' = NextPos(head)
  /\ IF waiter # NULL THEN WakeUp ELSE UNCHANGED <<waiter, rpc>>

(* intr_keyboard_handler, lines 117-244: inb(0x60) takes one byte; a      *)
(* character is put with ioq_putchar when the buffer is not full (lines   *)
(* 210-218) and dropped otherwise.                                         *)
IntrKeyboardHandler ==
  /\ pending # <<>>
  /\ LET r == Decode(st, Head(pending)) IN
       /\ st' = r.st
       /\ pending' = Tail(pending)
       /\ IF r.ch # "" /\ ~IoqFull(head, tail) THEN IoqPutchar(r.ch)
          ELSE UNCHANGED <<buf, head, waiter, rpc>>
       /\ decoded' = IF r.ch # "" THEN Append(decoded, r.ch) ELSE decoded
  /\ UNCHANGED <<ReaderVars, UserVars>>

(* ioq_getchar's read, lines 65-71: the byte at tail, tail advances; no   *)
(* producer ever waits, so none is woken. *)
TakeChar ==
  /\ got' = Append(got, buf[tail])
  /\ tail' = NextPos(tail)

(* ioq_getchar, lines 56-64: on an empty buffer lock_acquire, ioq_wait    *)
(* sets consumer and thread_block; else the read.                          *)
IoqGetchar ==
  /\ rpc = "get"
  /\ IF IoqEmpty(head, tail)
       THEN /\ lockHeld' = TRUE /\ waiter' = "reader" /\ rpc' = "blocked"
            /\ UNCHANGED <<tail, got>>
       ELSE TakeChar /\ UNCHANGED <<lockHeld, waiter, rpc>>
  /\ UNCHANGED <<st, pending, buf, head, decoded, UserVars>>

(* The woken reader runs again: lock_release, then the while test of      *)
(* line 59 once more. *)
ReaderResume ==
  /\ rpc = "ready"
  /\ IF IoqEmpty(head, tail)
       THEN /\ waiter' = "reader" /\ rpc' = "blocked"
            /\ UNCHANGED <<lockHeld, tail, got>>
       ELSE /\ lockHeld' = FALSE /\ rpc' = "get" /\ TakeChar
            /\ UNCHANGED waiter
  /\ UNCHANGED <<st, pending, buf, head, decoded, UserVars>>

(* No more key events and the reader asleep on the empty buffer. *)
Done ==
  /\ events = MaxEvents /\ pending = <<>> /\ rpc = "blocked"
  /\ UNCHANGED vars

Next ==
  \/ \E k \in Keys : Press(k) \/ Release(k)
  \/ IntrKeyboardHandler
  \/ IoqGetchar
  \/ ReaderResume
  \/ Done

(* IRQ1 is unmasked (interrupt.c line 56) and main runs with interrupts   *)
(* on, so a pending byte is taken; the timer preempts main's loop, so a   *)
(* ready reader runs.  The user is under no obligation to type.           *)
Fairness ==
  /\ WF_vars(IntrKeyboardHandler)
  /\ WF_vars(IoqGetchar)
  /\ WF_vars(ReaderResume)

Spec == Init /\ [][Next]_vars /\ Fairness

-----------------------------------------------------------------------------
Flags == [ctrl : BOOLEAN, shift : BOOLEAN, alt : BOOLEAN, caps : BOOLEAN,
          ext : BOOLEAN]

TypeOK ==
  /\ st \in Flags
  /\ head \in 0..(BufSize - 1) /\ tail \in 0..(BufSize - 1)
  /\ buf \in [0..(BufSize - 1) -> AllChars \cup {""}]
  /\ waiter \in {NULL, "reader"} /\ lockHeld \in BOOLEAN
  /\ rpc \in {"get", "blocked", "ready"}
  /\ held \subseteq Keys /\ events \in 0..MaxEvents

(* kbd_buf as a ring (ioqueue.c next_pos, ioq_full, ioq_empty, putchar    *)
(* and getchar) implements KeyboardBuffer: the characters the handler     *)
(* produces are kept in order, at most bufsize - 1 of them, a character   *)
(* is dropped only when bufsize - 1 are waiting, and ioq_getchar returns  *)
(* them oldest first.                                                      *)
KB == INSTANCE KeyboardBuffer
        WITH Capacity <- BufSize - 1, Chars <- AllChars,
             typed <- decoded, fifo <- Contents, taken <- got
ImplementsKeyboardBuffer == KB!Spec

(* intr_keyboard_handler's decoding across interrupts (the 0xe0 prefix    *)
(* and the modifier flags kept in statics, lines 131-237): the byte that  *)
(* ends a key event produces exactly the character the layout gives for   *)
(* the keys held and the caps lock state, and no other byte produces one. *)
TypedAsKeymap ==
  [][/\ pending # <<>> /\ pending' = <<>> =>
          decoded' = decoded \o (IF want = "" THEN <<>> ELSE <<want>>)
     /\ decoded' # decoded => pending' = <<>>]_vars

(* ioq_putchar's wake_up of a reader asleep in ioq_getchar (lines 88-91   *)
(* and 59-63): once typing stops, every character in kbd_buf is           *)
(* eventually returned and the buffer drains.                              *)
BufferDrains == (Count > 0) ~> (Count = 0)

=============================================================================
