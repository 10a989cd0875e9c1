------------------------------ MODULE FcfsLock ------------------------------
(***************************************************************************)
(* What the per-palace mutex of src/memory-palace/file-watcher.ts promises *)
(* (lines 84-102): calls on one palace are served one at a time, in the    *)
(* order they asked; calls on different palaces never wait for each other. *)
(*                                                                         *)
(* A call takes the next ticket of its palace when it asks and may enter   *)
(* once every earlier ticket of that palace is done.  PalaceMutex, the     *)
(* promise chain of the source, implements this module; FileWatcher uses   *)
(* it as its lock.                                                         *)
(***************************************************************************)
EXTENDS Integers

CONSTANTS Calls,    \* calls of acquirePalaceMutex, each made once
          Palaces   \* palace fingerprints

VARIABLES state,    \* [Calls -> LockState]
          on,       \* [Calls -> Palaces], meaningful once the call is made
          ticket,   \* [Calls -> Nat], position in the palace's order
          issued    \* [Palaces -> Nat], tickets handed out

lockVars == <<state, on, ticket, issued>>

LockState == {"idle", "waiting", "critical", "done"}

TypeOK ==
    /\ state \in [Calls -> LockState]
    /\ on \in [Calls -> Palaces]
    /\ ticket \in [Calls -> Nat]
    /\ issued \in [Palaces -> Nat]

Init ==
    /\ state = [c \in Calls |-> "idle"]
    /\ on = [c \in Calls |-> CHOOSE p \in Palaces : TRUE]
    /\ ticket = [c \in Calls |-> 0]
    /\ issued = [p \in Palaces |-> 0]

\* The calls that asked for palace p before c did.
Earlier(c) == {d \in Calls : /\ state[d] # "idle"
                             /\ on[d] = on[c]
                             /\ ticket[d] < ticket[c]}

Request(c, p) ==
    /\ state[c] = "idle"
    /\ state' = [state EXCEPT ![c] = "waiting"]
    /\ on' = [on EXCEPT ![c] = p]
    /\ ticket' = [ticket EXCEPT ![c] = issued[p] + 1]
    /\ issued' = [issued EXCEPT ![p] = @ + 1]

Grant(c) ==
    /\ state[c] = "waiting"
    /\ \A d \in Earlier(c) : state[d] = "done"
    /\ state' = [state EXCEPT ![c] = "critical"]
    /\ UNCHANGED <<on, ticket, issued>>

Release(c) ==
    /\ state[c] = "critical"
    /\ state' = [state EXCEPT ![c] = "done"]
    /\ UNCHANGED <<on, ticket, issued>>

\* The process dies: whoever waited or was inside is gone, with the chain.
Abandon ==
    /\ state' = [c \in Calls |-> IF state[c] = "idle" THEN "idle" ELSE "done"]
    /\ UNCHANGED <<on, ticket, issued>>

Next == \/ \E c \in Calls, p \in Palaces : Request(c, p)
        \/ \E c \in Calls : Grant(c) \/ Release(c)
        \/ Abandon

Spec == Init /\ [][Next]_lockVars

-----------------------------------------------------------------------------
\* At most one call at a time is inside the section of a palace.
MutualExclusion ==
    \A c, d \in Calls :
        (state[c] = "critical" /\ state[d] = "critical" /\ on[c] = on[d]) => c = d

=============================================================================
