---------------------------- MODULE FencedStore ----------------------------
(***************************************************************************)
(* What the leased source tasks promise to everything that reads the       *)
(* corpus: a source has at most one holder at a time, every holder carries *)
(* a ticket younger than all tickets before it, only the present holder    *)
(* adds a version of the source, and adding a version retires the one that *)
(* was in force.  Nothing here mentions leases, clocks, heartbeats,        *)
(* transactions or crashes: those are how app/clhear/l1/workflow.py keeps  *)
(* the promise (module SourceTasks).                                       *)
(***************************************************************************)
EXTENDS Naturals

CONSTANT Source

VARIABLES
    holder,     \* holder[s]: ticket of the worker that owns s, 0 when free
    issued,     \* number of tickets handed out so far
    inForce     \* inForce[s]: tickets whose version of s is in force

vars == <<holder, issued, inForce>>

Init ==
    /\ holder = [s \in Source |-> 0]
    /\ issued = 0
    /\ inForce = [s \in Source |-> {}]

(* A new owner takes the source, whoever held it before.                   *)
Acquire(s) ==
    /\ issued' = issued + 1
    /\ holder' = [holder EXCEPT ![s] = issued']
    /\ UNCHANGED inForce

Release(s) ==
    /\ holder[s] # 0
    /\ holder' = [holder EXCEPT ![s] = 0]
    /\ UNCHANGED <<issued, inForce>>

(* The holder's version replaces whatever was in force.                    *)
Write(s) ==
    /\ holder[s] # 0
    /\ inForce' = [inForce EXCEPT ![s] = {holder[s]}]
    /\ UNCHANGED <<holder, issued>>

Next == \E s \in Source : Acquire(s) \/ Release(s) \/ Write(s)

Spec == Init /\ [][Next]_vars
=============================================================================
