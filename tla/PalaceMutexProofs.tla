------------------------- MODULE PalaceMutexProofs --------------------------
(***************************************************************************)
(* Proofs about PalaceMutex, for any set of calls and palaces.  The chain  *)
(* of promises is a linked list; the ticket of a call is its position in   *)
(* it, which turns every argument along the list into one about numbers.   *)
(***************************************************************************)
EXTENDS PalaceMutex, TLAPS

\* The calls made on c's palace before c.
Earlier(c) == {d \in Calls : pc[d] # "idle" /\ on[d] = on[c] /\ ticket[d] < ticket[c]}

\* A call that was made holds a ticket of its palace, and holds it alone.
TicketInv ==
    /\ \A c \in Calls : pc[c] # "idle" => ticket[c] \in 1..issued[on[c]]
    /\ \A c, d \in Calls :
          (/\ pc[c] # "idle" /\ pc[d] # "idle"
           /\ on[c] = on[d] /\ ticket[c] = ticket[d]) => c = d

\* Only finished calls settle, in the order of their tickets.
SettledInv ==
    /\ \A c \in settled : pc[c] = "done"
    /\ \A c \in settled : \A d \in Earlier(c) : d \in settled

\* The map entry of a palace is its last call; without an entry nothing is
\* left to wait for.
TailInv ==
    \A p \in Palaces :
        /\ chains[p] # None =>
              /\ pc[chains[p]] # "idle"
              /\ on[chains[p]] = p
              /\ ticket[chains[p]] = issued[p]
        /\ chains[p] = None =>
              \A c \in Calls : (pc[c] # "idle" /\ on[c] = p) => c \in settled

\* A call waits for the call just before it; once past its await, every
\* earlier call has settled.
LinkInv ==
    \A c \in Calls : pc[c] # "idle" =>
        /\ current[c] # None =>
              /\ pc[current[c]] # "idle"
              /\ on[current[c]] = on[c]
              /\ ticket[current[c]] = ticket[c] - 1
        /\ current[c] = None => \A d \in Earlier(c) : d \in settled
        /\ pc[c] # "waiting" => \A d \in Earlier(c) : d \in settled

IInv == TypeOK /\ TicketInv /\ SettledInv /\ TailInv /\ LinkInv

-----------------------------------------------------------------------------
\* Whoever may pass its await has only settled calls before it.
LEMMA CurrentSettledCoversEarlier ==
    ASSUME IInv, NEW c \in Calls, pc[c] # "idle", CurrentSettled(c)
    PROVE  \A d \in Earlier(c) : d \in settled
<1>1. CASE current[c] = None
  BY <1>1 DEF IInv, LinkInv
<1>2. CASE current[c] \in settled
  <2>1. current[c] \in Calls /\ current[c] # None
    BY <1>2, NoneAssumption DEF IInv, TypeOK
  <2> DEFINE k == current[c]
  <2>2. /\ pc[k] # "idle"
        /\ on[k] = on[c]
        /\ ticket[k] = ticket[c] - 1
    BY <2>1 DEF IInv, LinkInv
  <2> SUFFICES ASSUME NEW d \in Earlier(c) PROVE d \in settled
    OBVIOUS
  <2>3. d \in Calls /\ pc[d] # "idle" /\ on[d] = on[k] /\ ticket[d] <= ticket[k]
    BY <2>1, <2>2 DEF Earlier, IInv, TypeOK
  <2>4. CASE ticket[d] = ticket[k]
    BY <1>2, <2>1, <2>2, <2>3, <2>4 DEF IInv, TicketInv
  <2>5. CASE ticket[d] < ticket[k]
    BY <1>2, <2>3, <2>5 DEF Earlier, IInv, SettledInv
  <2>6. QED
    BY <2>1, <2>3, <2>4, <2>5 DEF IInv, TypeOK
<1>3. QED
  BY <1>1, <1>2 DEF CurrentSettled

-----------------------------------------------------------------------------
LEMMA InitInv == Init => IInv
BY PalacesAssumption, NoneAssumption
   DEF Init, IInv, TypeOK, PcState, TicketInv, SettledInv, TailInv, LinkInv, Earlier

LEMMA AcquireInv ==
    ASSUME IInv, NEW a \in Calls, NEW p \in Palaces, Acquire(a, p)
    PROVE  IInv'
<1> USE DEF Acquire
<1>1. TypeOK'
  BY DEF IInv, TypeOK, PcState
<1>2. \A c \in Calls : c # a =>
         /\ pc'[c] = pc[c] /\ on'[c] = on[c] /\ current'[c] = current[c]
         /\ ticket'[c] = ticket[c]
  BY DEF IInv, TypeOK
<1>3. /\ pc'[a] = "waiting" /\ on'[a] = p /\ current'[a] = chains[p]
      /\ ticket'[a] = issued[p] + 1
      /\ issued'[p] = issued[p] + 1
      /\ \A q \in Palaces : q # p => issued'[q] = issued[q] /\ chains'[q] = chains[q]
      /\ chains'[p] = a
      /\ pc[a] = "idle"
      /\ settled' = settled
  BY DEF IInv, TypeOK
<1>4. a \notin settled /\ \A c \in settled : c \in Calls /\ c # a
  BY <1>3 DEF IInv, SettledInv, TypeOK
<1>5. \A q \in Palaces : issued[q] \in Nat
  BY DEF IInv, TypeOK
<1>6. \A c \in Calls : on[c] \in Palaces /\ ticket[c] \in Nat
  BY DEF IInv, TypeOK
<1>7. \A c \in Calls : c # a /\ pc[c] # "idle" => Earlier(c)' = Earlier(c)
  <2> SUFFICES ASSUME NEW c \in Calls, c # a, pc[c] # "idle"
               PROVE  Earlier(c)' = Earlier(c)
    OBVIOUS
  <2>1. a \notin Earlier(c)
    BY <1>3 DEF Earlier
  <2>2. a \notin Earlier(c)'
    BY <1>2, <1>3, <1>5, <1>6 DEF Earlier, IInv, TicketInv
  <2>3. QED
    BY <2>1, <2>2, <1>2 DEF Earlier
<1>8. TicketInv'
  BY <1>2, <1>3, <1>5, <1>6 DEF IInv, TicketInv
<1>9. SettledInv'
  <2>1. \A c \in settled' : pc'[c] = "done"
    BY <1>2, <1>3, <1>4 DEF IInv, SettledInv
  <2>2. \A c \in settled' : \A d \in Earlier(c)' : d \in settled'
    BY <1>3, <1>4, <1>7 DEF IInv, SettledInv
  <2>3. QED
    BY <2>1, <2>2 DEF SettledInv
<1>10. TailInv'
  <2> SUFFICES ASSUME NEW q \in Palaces
               PROVE  /\ chains'[q] # None =>
                            /\ pc'[chains'[q]] # "idle"
                            /\ on'[chains'[q]] = q
                            /\ ticket'[chains'[q]] = issued'[q]
                      /\ chains'[q] = None =>
                            \A c \in Calls : (pc'[c] # "idle" /\ on'[c] = q) => c \in settled'
    BY DEF TailInv
  <2>1. CASE q = p
    BY <2>1, <1>3, NoneAssumption DEF IInv, TypeOK
  <2>2. CASE q # p
    <3>1. chains[q] \in Calls \cup {None} /\ (chains[q] # None => chains[q] # a)
      BY <1>3 DEF IInv, TypeOK, TailInv
    <3>2. QED
      BY <2>2, <3>1, <1>2, <1>3 DEF IInv, TailInv
  <2>3. QED
    BY <2>1, <2>2
<1>11. LinkInv'
  <2> SUFFICES ASSUME NEW c \in Calls, pc'[c] # "idle"
               PROVE  /\ current'[c] # None =>
                            /\ pc'[current'[c]] # "idle"
                            /\ on'[current'[c]] = on'[c]
                            /\ ticket'[current'[c]] = ticket'[c] - 1
                      /\ current'[c] = None => \A d \in Earlier(c)' : d \in settled'
                      /\ pc'[c] # "waiting" => \A d \in Earlier(c)' : d \in settled'
    BY DEF LinkInv
  <2>1. CASE c = a
    <3>1. CASE chains[p] = None
      <4>1. \A d \in Earlier(a)' : d \in settled
        <5> SUFFICES ASSUME NEW d \in Calls, d \in Earlier(a)' PROVE d \in settled
          BY DEF Earlier
        <5>1. d # a
          BY <1>3, <1>5 DEF Earlier
        <5>2. pc[d] # "idle" /\ on[d] = p
          BY <5>1, <1>2, <1>3 DEF Earlier
        <5>3. QED
          BY <5>2, <3>1 DEF IInv, TailInv
      <4>2. QED
        BY <2>1, <3>1, <4>1, <1>3
    <3>2. CASE chains[p] # None
      <4>1. chains[p] \in Calls /\ chains[p] # a
        BY <3>2, <1>3 DEF IInv, TypeOK, TailInv
      <4>2. QED
        BY <2>1, <3>2, <4>1, <1>2, <1>3, <1>5 DEF IInv, TailInv
    <3>3. QED
      BY <3>1, <3>2
  <2>2. CASE c # a
    <3>1. pc[c] # "idle" /\ Earlier(c)' = Earlier(c)
      BY <2>2, <1>2, <1>7
    <3>2. current[c] # None => current[c] \in Calls /\ current[c] # a
      BY <3>1, <1>3 DEF IInv, TypeOK, LinkInv
    <3>3. QED
      BY <2>2, <3>1, <3>2, <1>2, <1>3 DEF IInv, LinkInv
  <2>3. QED
    BY <2>1, <2>2
<1>12. QED
  BY <1>1, <1>8, <1>9, <1>10, <1>11 DEF IInv

\* Enter and Release only move one call forward; its earlier calls, all
\* settled, are never the ones that move.
LEMMA MoveInv ==
    ASSUME IInv, NEW c \in Calls, Enter(c) \/ Release(c)
    PROVE  IInv'
<1>1. /\ pc[c] \in {"waiting", "critical"}
      /\ \E s \in {"critical", "done"} : pc' = [pc EXCEPT ![c] = s]
      /\ UNCHANGED <<chains, on, current, settled, cleaned, ticket, issued>>
  BY DEF Enter, Release
<1>2. \A d \in Earlier(c) : d \in settled
  <2>1. CASE Enter(c)
    BY <2>1, CurrentSettledCoversEarlier DEF Enter
  <2>2. CASE Release(c)
    BY <2>2 DEF Release, IInv, LinkInv
  <2>3. QED
    BY <2>1, <2>2
<1>3. TypeOK'
  BY <1>1 DEF IInv, TypeOK, PcState
<1>4. \A d \in Calls : pc'[d] # "idle" <=> pc[d] # "idle"
  BY <1>1 DEF IInv, TypeOK
<1>5. \A d \in Calls : Earlier(d)' = Earlier(d)
  BY <1>1, <1>4 DEF Earlier
<1>6. TicketInv'
  BY <1>1, <1>4 DEF IInv, TicketInv
<1>7. SettledInv'
  <2>1. c \notin settled
    BY <1>1 DEF IInv, SettledInv
  <2>2. QED
    BY <2>1, <1>1, <1>5 DEF IInv, SettledInv, TypeOK
<1>8. TailInv'
  BY <1>1, <1>4 DEF IInv, TailInv, TypeOK
<1>9. LinkInv'
  <2>1. \A d \in Calls : d # c => pc'[d] = pc[d]
    BY <1>1 DEF IInv, TypeOK
  <2>2. QED
    BY <2>1, <1>1, <1>2, <1>4, <1>5, NoneAssumption DEF IInv, LinkInv, TypeOK
<1>10. QED
  BY <1>3, <1>6, <1>7, <1>8, <1>9 DEF IInv

LEMMA SettleInv ==
    ASSUME IInv, NEW c \in Calls, Settle(c)
    PROVE  IInv'
<1> USE DEF Settle
<1>1. \A d \in Earlier(c) : d \in settled
  BY CurrentSettledCoversEarlier
<1>2. \A d \in Calls : Earlier(d)' = Earlier(d)
  BY DEF Earlier
<1>3. SettledInv'
  BY <1>1, <1>2 DEF IInv, SettledInv, TypeOK
<1>4. TypeOK' /\ TicketInv' /\ TailInv'
  BY DEF IInv, TypeOK, TicketInv, TailInv
<1>5. LinkInv'
  BY <1>2 DEF IInv, LinkInv
<1>6. QED
  BY <1>3, <1>4, <1>5 DEF IInv

LEMMA CleanupInv ==
    ASSUME IInv, NEW c \in Calls, Cleanup(c)
    PROVE  IInv'
<1> USE DEF Cleanup
<1>1. \A d \in Calls : Earlier(d)' = Earlier(d)
  BY DEF Earlier
<1>2. TypeOK' /\ TicketInv' /\ SettledInv' /\ LinkInv'
  BY <1>1 DEF IInv, TypeOK, TicketInv, SettledInv, LinkInv
<1>3. TailInv'
  <2>1. CASE chains[on[c]] = c
    <3>1. /\ ticket[c] = issued[on[c]]
          /\ pc[c] # "idle"
      BY <2>1, NoneAssumption DEF IInv, TailInv, TypeOK
    <3>2. \A d \in Calls : (pc[d] # "idle" /\ on[d] = on[c]) => d \in settled
      <4> SUFFICES ASSUME NEW d \in Calls, pc[d] # "idle", on[d] = on[c], d # c
                   PROVE  d \in settled
        OBVIOUS
      <4>1. ticket[d] < ticket[c]
        <5>1. ticket[d] \in 1..issued[on[c]] /\ ticket[d] # ticket[c]
          BY <3>1 DEF IInv, TicketInv
        <5>2. issued[on[c]] \in Nat
          BY DEF IInv, TypeOK
        <5>3. QED
          BY <3>1, <5>1, <5>2
      <4>2. QED
        BY <4>1 DEF Earlier, IInv, SettledInv
    <3>3. QED
      BY <2>1, <3>2 DEF IInv, TailInv, TypeOK
  <2>2. CASE chains[on[c]] # c
    <3>1. chains' = chains
      BY <2>2 DEF IInv, TypeOK
    <3>2. QED
      BY <3>1 DEF IInv, TailInv
  <2>3. QED
    BY <2>1, <2>2
<1>4. QED
  BY <1>2, <1>3 DEF IInv

LEMMA StepInv == IInv /\ [Next]_vars => IInv'
<1> SUFFICES ASSUME IInv, [Next]_vars PROVE IInv'
  OBVIOUS
<1>1. ASSUME NEW c \in Calls, NEW p \in Palaces, Acquire(c, p) PROVE IInv'
  BY <1>1, AcquireInv
<1>2. ASSUME NEW c \in Calls, Enter(c) \/ Release(c) PROVE IInv'
  BY <1>2, MoveInv
<1>3. ASSUME NEW c \in Calls, Settle(c) PROVE IInv'
  BY <1>3, SettleInv
<1>4. ASSUME NEW c \in Calls, Cleanup(c) PROVE IInv'
  BY <1>4, CleanupInv
<1>5. CASE UNCHANGED vars
  BY <1>5 DEF vars, IInv, TypeOK, TicketInv, SettledInv, TailInv, LinkInv, Earlier
<1>6. QED
  BY <1>1, <1>2, <1>3, <1>4, <1>5 DEF Next, Step

-----------------------------------------------------------------------------
\* The inductive invariant holds of every behaviour of the promise chain.
THEOREM ChainInvariant == Spec => []IInv
<1>1. Init => IInv
  BY InitInv
<1>2. IInv /\ [Next]_vars => IInv'
  BY StepInv
<1>3. QED
  BY <1>1, <1>2, PTL DEF Spec

\* Type correctness of the mutex state.
THEOREM TypeCorrect == Spec => []TypeOK
<1>1. IInv => TypeOK
  BY DEF IInv
<1>2. QED
  BY <1>1, ChainInvariant, PTL

\* Two callers are never inside the section of one palace
\* (file-watcher.ts lines 21-23), for any number of calls and palaces.
THEOREM MutexExcludes == Spec => []MutualExclusion
<1>1. IInv => MutualExclusion
  <2> SUFFICES ASSUME IInv, NEW c \in Calls, NEW d \in Calls,
                      pc[c] = "critical", pc[d] = "critical", on[c] = on[d], c # d
               PROVE  FALSE
    BY DEF MutualExclusion, Fcfs!MutualExclusion
  <2>1. c \notin settled /\ d \notin settled
    BY DEF IInv, SettledInv
  <2>2. ticket[c] < ticket[d] \/ ticket[d] < ticket[c]
    BY DEF IInv, TypeOK, TicketInv
  <2>3. QED
    BY <2>1, <2>2 DEF Earlier, IInv, LinkInv
<1>2. QED
  BY <1>1, ChainInvariant, PTL

\* While a call is waiting or inside, its palace keeps a map entry, and the
\* entry is the last call made (lines 122-126).
THEOREM EntryKept == Spec => []EntryCoversChain
<1>1. IInv => EntryCoversChain
  <2> SUFFICES ASSUME IInv, NEW c \in Calls, pc[c] \in {"waiting", "critical"}
               PROVE  /\ chains[on[c]] # None
                      /\ ticket[chains[on[c]]] = issued[on[c]]
    BY DEF EntryCoversChain
  <2>1. on[c] \in Palaces /\ c \notin settled
    BY DEF IInv, TypeOK, SettledInv
  <2>2. QED
    BY <2>1 DEF IInv, TailInv
<1>2. QED
  BY <1>1, ChainInvariant, PTL

\* A call alone on its palace enters at once (lines 95-98): another palace's
\* chain is never in its way.
THEOREM PalacesDoNotBlock == Spec => []PalacesIndependent
<1>1. IInv => PalacesIndependent
  <2> SUFFICES ASSUME IInv, NEW c \in Calls, pc[c] = "waiting",
                      \A d \in Calls \ {c} : pc[d] # "idle" /\ on[d] = on[c] => d \in settled,
                      current[c] # None
               PROVE  current[c] \in settled
    BY DEF PalacesIndependent, CurrentSettled
  <2>1. /\ current[c] \in Calls
        /\ pc[current[c]] # "idle"
        /\ on[current[c]] = on[c]
        /\ ticket[current[c]] = ticket[c] - 1
    BY DEF IInv, TypeOK, LinkInv
  <2>2. current[c] # c
    BY <2>1 DEF IInv, TypeOK
  <2>3. QED
    BY <2>1, <2>2
<1>2. QED
  BY <1>1, ChainInvariant, PTL

-----------------------------------------------------------------------------
\* The promise chain implements the first-come first-served lock: Settle and
\* Cleanup stutter, every other step is the step of the same kind.
THEOREM ImplementsLock == Spec => ImplementsFcfsLock
<1>1. Init => Fcfs!Init
  BY DEF Init, Fcfs!Init
<1>2. IInv /\ [Next]_vars => [Fcfs!Next]_(Fcfs!lockVars)
  <2> SUFFICES ASSUME IInv, [Next]_vars
               PROVE  [Fcfs!Next]_(Fcfs!lockVars)
    OBVIOUS
  <2>1. ASSUME NEW c \in Calls, NEW p \in Palaces, Acquire(c, p)
        PROVE  Fcfs!Next
    BY <2>1 DEF Acquire, Fcfs!Request, Fcfs!Next
  <2>2. ASSUME NEW c \in Calls, Enter(c)
        PROVE  Fcfs!Next
    <3>1. \A d \in Fcfs!Earlier(c) : pc[d] = "done"
      BY <2>2, CurrentSettledCoversEarlier
         DEF Enter, Earlier, Fcfs!Earlier, IInv, SettledInv
    <3>2. QED
      BY <2>2, <3>1 DEF Enter, Fcfs!Grant, Fcfs!Next
  <2>3. ASSUME NEW c \in Calls, Release(c)
        PROVE  Fcfs!Next
    BY <2>3 DEF Release, Fcfs!Release, Fcfs!Next
  <2>4. ASSUME NEW c \in Calls, Settle(c) \/ Cleanup(c)
        PROVE  UNCHANGED Fcfs!lockVars
    BY <2>4 DEF Settle, Cleanup, Fcfs!lockVars
  <2>5. CASE UNCHANGED vars
    BY <2>5 DEF vars, Fcfs!lockVars
  <2>6. QED
    BY <2>1, <2>2, <2>3, <2>4, <2>5 DEF Next, Step
<1>3. QED
  BY <1>1, <1>2, ChainInvariant, PTL DEF Spec, ImplementsFcfsLock, Fcfs!Spec
=============================================================================
