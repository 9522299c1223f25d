----------------------------- MODULE MC_Keyboard -----------------------------
(* Model values and key sets for Keyboard. *)
EXTENDS Keyboard

CONSTANTS null

(* Letters, a digit, left shift, caps lock, the 0xe0-prefixed right ctrl, *)
(* right alt and up arrow, and print screen with its fake shift codes.    *)
MCKeys == {"A", "One", "LShift", "Caps", "RCtrl", "RAlt", "Up", "PrtSc"}
=============================================================================
