---------------------------- MODULE KeyboardBuffer ----------------------------
(***************************************************************************)
(* What the keyboard buffer kbd_buf promises its reader: the characters    *)
(* the keyboard handler produces are kept in the order typed, at most      *)
(* Capacity of them; a character typed while Capacity are waiting is       *)
(* dropped; a reader takes them oldest first.                               *)
(*                                                                         *)
(* typed is every character produced, fifo the ones waiting, taken the     *)
(* ones the reader has returned.                                           *)
(***************************************************************************)
EXTENDS Naturals, Sequences

CONSTANTS Capacity, Chars

VARIABLES typed, fifo, taken

Init == typed = <<>> /\ fifo = <<>> /\ taken = <<>>

(* A character is produced: kept when there is room, else dropped. *)
Type(c) ==
  /\ typed' = Append(typed, c)
  /\ fifo' = IF Len(fifo) < Capacity THEN Append(fifo, c) ELSE fifo
  /\ UNCHANGED taken

(* The reader returns the oldest waiting character. *)
Take ==
  /\ fifo # <<>>
  /\ taken' = Append(taken, Head(fifo))
  /\ fifo' = Tail(fifo)
  /\ UNCHANGED typed

Next == (\E c \in Chars : Type(c)) \/ Take

Spec == Init /\ [][Next]_<<typed, fifo, taken>>

=============================================================================
