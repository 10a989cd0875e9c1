---------------------------- MODULE PalaceMutex -----------------------------
(***************************************************************************)
(* acquirePalaceMutex of src/memory-palace/file-watcher.ts (lines 84-129), *)
(* at the level of its promises.                                           *)
(*                                                                         *)
(* A call reads the tail of its palace's chain (`current`), makes itself   *)
(* the tail (`next`, which settles once `current` has settled and the      *)
(* call's own `acquired` promise is resolved by release()), and awaits     *)
(* `current`.  When `next` settles, a finally-callback deletes the map     *)
(* entry if the call is still the tail.  The `.catch` on both promises     *)
(* makes a holder that throws the same as one that returns: both run       *)
(* release() in a finally block, so one Release action stands for both.    *)
(***************************************************************************)
EXTENDS Integers, FiniteSets

CONSTANTS Calls,     \* calls of acquirePalaceMutex, each made once
          Palaces,   \* palace fingerprints
          None       \* no promise: the map has no entry for the palace

ASSUME NoneAssumption == None \notin Calls
ASSUME PalacesAssumption == Palaces # {}

VARIABLES
    chains,    \* _mutexChains: palace -> the call whose `next` is the tail
    pc,        \* where each call is
    on,        \* the palaceFp each call was made with
    current,   \* the promise a call chained on: the previous tail, or None
    settled,   \* the calls whose `next` has settled
    cleaned,   \* the calls whose finally-callback has run
    ticket,    \* history: position of the call in its palace's order
    issued     \* history: calls made so far on each palace

vars == <<chains, pc, on, current, settled, cleaned, ticket, issued>>

PcState == {"idle", "waiting", "critical", "done"}

TypeOK ==
    /\ chains \in [Palaces -> Calls \cup {None}]
    /\ pc \in [Calls -> PcState]
    /\ on \in [Calls -> Palaces]
    /\ current \in [Calls -> Calls \cup {None}]
    /\ settled \in SUBSET Calls
    /\ cleaned \in SUBSET Calls
    /\ ticket \in [Calls -> Nat]
    /\ issued \in [Palaces -> Nat]

Init ==
    /\ chains = [p \in Palaces |-> None]
    /\ pc = [c \in Calls |-> "idle"]
    /\ on = [c \in Calls |-> CHOOSE p \in Palaces : TRUE]
    /\ current = [c \in Calls |-> None]
    /\ settled = {}
    /\ cleaned = {}
    /\ ticket = [c \in Calls |-> 0]
    /\ issued = [p \in Palaces |-> 0]

\* `current` of c has settled: there was none, or its owner's `next` settled.
CurrentSettled(c) == current[c] = None \/ current[c] \in settled

\* Faulty: one chain for all palaces; the tail replaced before it is read.
AcquireShared(c, p) ==
    /\ pc[c] = "idle"
    /\ pc' = [pc EXCEPT ![c] = "waiting"]
    /\ on' = [on EXCEPT ![c] = p]
    /\ current' = [current EXCEPT ![c] = chains[CHOOSE q \in Palaces : TRUE]]
    /\ chains' = [q \in Palaces |-> c]
    /\ ticket' = [ticket EXCEPT ![c] = issued[p] + 1]
    /\ issued' = [issued EXCEPT ![p] = @ + 1]
    /\ UNCHANGED <<settled, cleaned>>

AcquireSwapped(c, p) ==
    /\ pc[c] = "idle"
    /\ pc' = [pc EXCEPT ![c] = "waiting"]
    /\ on' = [on EXCEPT ![c] = p]
    /\ current' = [current EXCEPT ![c] = c]
    /\ chains' = [chains EXCEPT ![p] = c]
    /\ ticket' = [ticket EXCEPT ![c] = issued[p] + 1]
    /\ issued' = [issued EXCEPT ![p] = @ + 1]
    /\ UNCHANGED <<settled, cleaned>>

\* The synchronous part of the call: read the tail, become the tail.
Acquire(c, p) ==
    /\ pc[c] = "idle"
    /\ pc' = [pc EXCEPT ![c] = "waiting"]
    /\ on' = [on EXCEPT ![c] = p]
    /\ current' = [current EXCEPT ![c] = chains[p]]
    /\ chains' = [chains EXCEPT ![p] = c]
    /\ ticket' = [ticket EXCEPT ![c] = issued[p] + 1]
    /\ issued' = [issued EXCEPT ![p] = @ + 1]
    /\ UNCHANGED <<settled, cleaned>>

\* Faulty: the call does not await `current`.
EnterAtOnce(c) ==
    /\ pc[c] = "waiting"
    /\ pc' = [pc EXCEPT ![c] = "critical"]
    /\ UNCHANGED <<chains, on, current, settled, cleaned, ticket, issued>>

\* `await current` resumes: the caller holds the palace.
Enter(c) ==
    /\ pc[c] = "waiting"
    /\ CurrentSettled(c)
    /\ pc' = [pc EXCEPT ![c] = "critical"]
    /\ UNCHANGED <<chains, on, current, settled, cleaned, ticket, issued>>

\* The caller's finally block runs release(), resolving `acquired`.
Release(c) ==
    /\ pc[c] = "critical"
    /\ pc' = [pc EXCEPT ![c] = "done"]
    /\ UNCHANGED <<chains, on, current, settled, cleaned, ticket, issued>>

\* `next` settles: current.then(() => acquired), both resolved.
Settle(c) ==
    /\ pc[c] = "done"
    /\ c \notin settled
    /\ CurrentSettled(c)
    /\ settled' = settled \cup {c}
    /\ UNCHANGED <<chains, pc, on, current, cleaned, ticket, issued>>

\* Faulty: the entry is always deleted, never deleted, or put back as a call
\* that is not a promise of the map.
CleanupAlways(c) ==
    /\ c \in settled
    /\ c \notin cleaned
    /\ cleaned' = cleaned \cup {c}
    /\ chains' = [chains EXCEPT ![on[c]] = None]
    /\ UNCHANGED <<pc, on, current, settled, ticket, issued>>

CleanupNever(c) ==
    /\ c \in settled
    /\ c \notin cleaned
    /\ cleaned' = cleaned \cup {c}
    /\ UNCHANGED <<chains, pc, on, current, settled, ticket, issued>>

CleanupByPalace(c) ==
    /\ c \in settled
    /\ c \notin cleaned
    /\ cleaned' = cleaned \cup {c}
    /\ chains' = [chains EXCEPT ![on[c]] = on[c]]
    /\ UNCHANGED <<pc, on, current, settled, ticket, issued>>

\* The finally-callback: forget the palace if nobody chained on this call.
Cleanup(c) ==
    /\ c \in settled
    /\ c \notin cleaned
    /\ cleaned' = cleaned \cup {c}
    /\ chains' = [chains EXCEPT ![on[c]] = IF @ = c THEN None ELSE @]
    /\ UNCHANGED <<pc, on, current, settled, ticket, issued>>

Step(c) == Enter(c) \/ Release(c) \/ Settle(c) \/ Cleanup(c)

Next == \/ \E c \in Calls, p \in Palaces : Acquire(c, p)
        \/ \E c \in Calls : Step(c)

Spec == Init /\ [][Next]_vars

\* Promise callbacks always run in the end, and every caller reaches the
\* finally block that releases (file-watcher.ts lines 357 and 435).
Fairness == \A c \in Calls : WF_vars(Step(c))

FairSpec == Spec /\ Fairness

-----------------------------------------------------------------------------
\* The promise chain implements the first-come first-served lock: waiting
\* for `current` is waiting for every earlier call on the palace.
Fcfs == INSTANCE FcfsLock WITH state <- pc

ImplementsFcfsLock == Fcfs!Spec

\* Mutual exclusion (file-watcher.ts lines 21-23): two handlers are never
\* inside the mutating section of the same palace.
MutualExclusion == Fcfs!MutualExclusion

\* Deleting the map entry never drops a chain somebody still depends on: as
\* long as a call on the palace has not released, the palace has an entry
\* and the entry is the last call made on it (lines 122-126).
EntryCoversChain ==
    \A c \in Calls :
        (pc[c] \in {"waiting", "critical"}) =>
            /\ chains[on[c]] # None
            /\ ticket[chains[on[c]]] = issued[on[c]]

\* No caller starves (lines 97-98): whoever asked is eventually inside,
\* whatever the calls before it did, as long as they release.
EveryCallEnters ==
    \A c \in Calls : pc[c] = "waiting" ~> pc[c] = "critical"

\* No leak (lines 122-123): once the calls on a palace are all over, its map
\* entry goes away, or a new call takes the palace.
EntryForgotten ==
    \A p \in Palaces :
        (\A c \in Calls : on[c] = p => pc[c] \in {"idle", "done"})
            ~> (chains[p] = None \/ \E c \in Calls : on[c] = p /\ pc[c] = "waiting")

\* Independent palaces (lines 95-98): a call alone on its palace can enter
\* at once, whatever the other palaces do.
PalacesIndependent ==
    \A c \in Calls :
        (/\ pc[c] = "waiting"
         /\ \A d \in Calls \ {c} : pc[d] # "idle" /\ on[d] = on[c] => d \in settled)
            => CurrentSettled(c)

=============================================================================
