------------------------------ MODULE UserVMAbs ------------------------------
(***************************************************************************)
(* What the user-memory accessor of user_vm.c promises its callers (the   *)
(* VTSS stack and module samplers), stated without pages, kmaps or         *)
(* reference counts: the accessor is locked on at most one task's mm at a *)
(* time, only on the mm of a task that still has one, and a read returns *)
(* bytes of the locked mm only. Tasks lose their mm at any time (exit).   *)
(***************************************************************************)
CONSTANTS Tasks, NoTask

VARIABLES owner,  \* the task whose mm the accessor is locked on, or NoTask
          out,    \* the mms whose bytes the current read has returned
          alive   \* alive[t]: task t still has an mm

absVars == <<owner, out, alive>>

AbsInit ==
  /\ owner = NoTask
  /\ out = {}
  /\ alive = [t \in Tasks |-> TRUE]

(* Lock on the mm of a task that has one.                                 *)
Lock(t) ==
  /\ owner = NoTask /\ alive[t]
  /\ owner' = t /\ out' = {}
  /\ UNCHANGED alive

(* A new read of the locked mm starts with nothing returned.              *)
StartRead ==
  /\ owner # NoTask
  /\ out' = {}
  /\ UNCHANGED <<owner, alive>>

(* A read returns bytes of the locked mm.                                 *)
ReadBytes ==
  /\ owner # NoTask
  /\ out' = out \cup {owner}
  /\ UNCHANGED <<owner, alive>>

(* Unlock (or freeing the accessor) drops the lock.                       *)
Release ==
  /\ owner # NoTask
  /\ owner' = NoTask /\ out' = {}
  /\ UNCHANGED alive

(* A task exits; a lock already held on its mm stays valid.               *)
Exit(t) ==
  /\ alive[t]
  /\ alive' = [alive EXCEPT ![t] = FALSE]
  /\ UNCHANGED <<owner, out>>

AbsNext ==
  \/ StartRead \/ ReadBytes \/ Release
  \/ \E t \in Tasks : Lock(t) \/ Exit(t)

AbsSpec == AbsInit /\ [][AbsNext]_absVars
=============================================================================
