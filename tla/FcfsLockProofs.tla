--------------------------- MODULE FcfsLockProofs ---------------------------
(***************************************************************************)
(* The ticket lock of FcfsLock excludes.  The facts are stated for one step *)
(* so that a module that uses the lock as a component can cite them for the *)
(* steps of its own.                                                        *)
(***************************************************************************)
EXTENDS FcfsLock, TLAPS

\* Every ticket of a palace has been issued, and to one call only.
TicketsUnique ==
    \A c \in Calls : state[c] # "idle" =>
        /\ ticket[c] <= issued[on[c]]
        /\ \A d \in Calls :
              (state[d] # "idle" /\ on[d] = on[c] /\ ticket[d] = ticket[c]) => c = d

\* Whoever asked before the holder is done.
EarlierDone ==
    \A c \in Calls : state[c] = "critical" => \A d \in Earlier(c) : state[d] = "done"

LockInv == TypeOK /\ TicketsUnique /\ EarlierDone

LEMMA LockInvInit == ASSUME Palaces # {}, Init PROVE LockInv
BY DEF Init, LockInv, TypeOK, TicketsUnique, EarlierDone, LockState

LEMMA LockInvStep == LockInv /\ [Next]_lockVars => LockInv'
<1> SUFFICES ASSUME LockInv, [Next]_lockVars
             PROVE  LockInv'
    OBVIOUS
<1> USE DEF LockInv, TypeOK, LockState
<1>1. ASSUME NEW c \in Calls, NEW p \in Palaces, Request(c, p)
      PROVE  LockInv'
  <2>1. TypeOK'
        BY <1>1 DEF Request
  <2>2. TicketsUnique'
        BY <1>1 DEF Request, TicketsUnique
  <2>3. EarlierDone'
    <3> SUFFICES ASSUME NEW d \in Calls, state'[d] = "critical",
                        NEW e \in Calls, state'[e] # "idle", on'[e] = on'[d],
                        ticket'[e] < ticket'[d]
                 PROVE  state'[e] = "done"
        BY DEF EarlierDone, Earlier
    <3>1. d # c /\ state[d] = "critical" /\ on'[d] = on[d] /\ ticket'[d] = ticket[d]
          BY <1>1 DEF Request
    <3>2. CASE e = c
          \* a fresh ticket is above every issued one
          BY <3>1, <3>2, <1>1 DEF Request, TicketsUnique
    <3>3. CASE e # c
          BY <3>1, <3>3, <1>1 DEF Request, EarlierDone, Earlier
    <3> QED BY <3>2, <3>3
  <2> QED BY <2>1, <2>2, <2>3
<1>2. ASSUME NEW c \in Calls, Grant(c)
      PROVE  LockInv'
      BY <1>2 DEF Grant, TicketsUnique, EarlierDone, Earlier
<1>3. ASSUME NEW c \in Calls, Release(c)
      PROVE  LockInv'
      BY <1>3 DEF Release, TicketsUnique, EarlierDone, Earlier
<1>4. CASE Abandon
      BY <1>4 DEF Abandon, TicketsUnique, EarlierDone, Earlier
<1>5. CASE UNCHANGED lockVars
      BY <1>5 DEF lockVars, TicketsUnique, EarlierDone, Earlier
<1> QED BY <1>1, <1>2, <1>3, <1>4, <1>5 DEF Next

LEMMA LockInvExcludes == LockInv => MutualExclusion
<1> SUFFICES ASSUME LockInv, NEW c \in Calls, NEW d \in Calls,
                    state[c] = "critical", state[d] = "critical", on[c] = on[d]
             PROVE  c = d
    BY DEF MutualExclusion
<1>1. ~(ticket[c] < ticket[d]) /\ ~(ticket[d] < ticket[c])
      BY DEF LockInv, EarlierDone, Earlier
<1>2. ticket[c] = ticket[d]
      BY <1>1 DEF LockInv, TypeOK
<1> QED BY <1>2 DEF LockInv, TicketsUnique

\* At most one call at a time is inside the section of a palace, for any number
\* of calls and palaces and across crashes.
THEOREM LockExcludes ==
    ASSUME Palaces # {}
    PROVE  Spec => []MutualExclusion
<1>0. Init => LockInv
      BY LockInvInit
<1>1. Spec => []LockInv
      BY <1>0, LockInvStep, PTL DEF Spec
<1> QED BY <1>1, LockInvExcludes, PTL

=============================================================================
