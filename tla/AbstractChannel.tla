---------------------------- MODULE AbstractChannel ----------------------------
(***************************************************************************)
(* What one IDE channel promises its callers (device/ide.c ide_read and    *)
(* ide_write): a request is served inside a critical section that one      *)
(* worker at a time occupies, and every request that asks for the channel  *)
(* is eventually served and returns.  IdeChannel implements it.            *)
(***************************************************************************)
EXTENDS Naturals

CONSTANTS Workers, NumOps

VARIABLES
  apc,    \* per worker: "start" (between requests), "acq" (asking), "cs"
  left    \* per worker: requests still to issue

avars == <<apc, left>>

(* A worker issues its next request. *)
Request(t) ==
  /\ apc[t] = "start" /\ left[t] > 0
  /\ apc' = [apc EXCEPT ![t] = "acq"]
  /\ left' = [left EXCEPT ![t] = @ - 1]

(* The channel is granted to a worker when nobody holds it. *)
Enter(t) ==
  /\ apc[t] = "acq"
  /\ \A u \in Workers : apc[u] # "cs"
  /\ apc' = [apc EXCEPT ![t] = "cs"]
  /\ UNCHANGED left

(* The transfer is done and the channel is given up. *)
Leave(t) ==
  /\ apc[t] = "cs"
  /\ apc' = [apc EXCEPT ![t] = "start"]
  /\ UNCHANGED left

AInit ==
  /\ apc = [t \in Workers |-> "start"]
  /\ left = [t \in Workers |-> NumOps]

ANext == \E t \in Workers : Request(t) \/ Enter(t) \/ Leave(t)

(* A worker asking for the channel infinitely often when it is free gets   *)
(* it; a worker in the critical section leaves it.                         *)
ASpec ==
  /\ AInit /\ [][ANext]_avars
  /\ \A t \in Workers : SF_avars(Enter(t)) /\ WF_avars(Leave(t))

(* At most one worker holds the channel. *)
AMutex == \A t, u \in Workers : apc[t] = "cs" /\ apc[u] = "cs" => t = u

=============================================================================
