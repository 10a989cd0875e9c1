------------------------- MODULE FileWatcherProofs --------------------------
(***************************************************************************)
(* Proofs about FileWatcher, for any handlers, inscriptions, palaces and   *)
(* contents, and any number of edits, failures and crashes: types, mutual  *)
(* exclusion, a linear history, the write context, rows backed by the      *)
(* history and, at rest where nothing failed, in agreement with it.        *)
(***************************************************************************)
EXTENDS FileWatcher, FiniteSetTheorems, TLAPS

MutexP == INSTANCE FcfsLockProofs WITH Calls <- Handlers, state <- lock, on <- lockOn

LEMMA PalaceAtType ==
    ASSUME TypeOK, NEW h \in Handlers
    PROVE  PalaceAt(h) \in Palaces
BY PalaceOfAssumption DEF TypeOK, PalaceAt

LEMMA MissingType == Missing \in Row /\ Inscribed \in Row
BY OriginAssumption DEF Missing, Inscribed, Row, NoContent

-----------------------------------------------------------------------------
\* The lock's own view of a step of the watcher.

LEMMA LockStep == TypeOK /\ [Next]_vars => [MutexP!Next]_(MutexP!lockVars)
<1> SUFFICES ASSUME TypeOK, [Next]_vars
             PROVE  [MutexP!Next]_(MutexP!lockVars)
    OBVIOUS
<1> USE DEF MutexP!lockVars, lockVars, Untouched
<1>1. ASSUME NEW h \in Handlers, NEW p \in Palaces, Mutex!Request(h, p)
      PROVE  MutexP!Next
      BY <1>1 DEF Mutex!Request, MutexP!Request, MutexP!Next
<1>2. ASSUME NEW h \in Handlers, Mutex!Grant(h)
      PROVE  MutexP!Next
      BY <1>2 DEF Mutex!Grant, Mutex!Earlier, MutexP!Grant, MutexP!Earlier, MutexP!Next
<1>3. ASSUME NEW h \in Handlers, Leave(h)
      PROVE  MutexP!Next
      BY <1>3 DEF Leave, Mutex!Release, MutexP!Release, MutexP!Next
<1>4. CASE \E a \in Avatars, v \in Contents \cup {Gone} : Edit(a, v)
      BY <1>4 DEF Edit
<1>5. CASE \E f \in Traversals : RecordTraversal(f)
      BY <1>5 DEF RecordTraversal
<1>6. CASE \E h \in Handlers, a \in Avatars : OnFileChange(h, a)
      BY <1>6 DEF OnFileChange
<1>7. CASE \E h \in Handlers, a \in Avatars : OnFileDelete(h, a)
  <2>1. PICK h \in Handlers, a \in Avatars : OnFileDelete(h, a)
        BY <1>7
  <2>2. Mutex!Request(h, PalaceOf[a]) /\ PalaceOf[a] \in Palaces
        BY <2>1, PalaceOfAssumption DEF OnFileDelete
  <2> QED BY <2>2, <1>1
<1>8. ASSUME NEW h \in Handlers, HandlerStep(h)
      PROVE  [MutexP!Next]_(MutexP!lockVars)
  <2>1. CASE Check1(h)
        BY <2>1, <1>1, PalaceAtType DEF Check1
  <2>2. CASE Check2(h)
        BY <2>2, <1>1, PalaceAtType DEF Check2
  <2>3. CASE Enter(h)
        BY <2>3, <1>2 DEF Enter
  <2>4. CASE Fresh1(h) \/ Heads(h) \/ Sign(h) \/ Reembed(h) \/ SetSource(h)
        BY <2>4 DEF Fresh1, Heads, Sign, Reembed, SetSource
  <2>5. CASE Fresh2(h) \/ Embed(h) \/ Finish(h)
        BY <2>5, <1>3 DEF Fresh2, Embed, Finish
  <2>6. CASE DeleteEmbedding(h) \/ UpsertEmbedding(h)
        BY <2>6 DEF DeleteEmbedding, UpsertEmbedding, Drop, Recreate, Rejoin
  <2>7. CASE InsertTriple(h) \/ RecordAction(h) \/ UpdateInscription(h) \/ MarkOrphaned(h)
        BY <2>7 DEF InsertTriple, RecordAction, UpdateInscription, MarkOrphaned
  <2> QED BY <1>8, <2>1, <2>2, <2>3, <2>4, <2>5, <2>6, <2>7 DEF HandlerStep
<1>9. CASE \E h \in Handlers : FailStep(h)
      BY <1>9, <1>3 DEF FailStep
<1>10. CASE Crash
       BY <1>10 DEF Crash, Mutex!Abandon, MutexP!Abandon, MutexP!Next
<1>11. CASE UNCHANGED vars
       BY <1>11 DEF vars
<1> QED BY <1>4, <1>5, <1>6, <1>7, <1>8, <1>9, <1>10, <1>11 DEF Next

-----------------------------------------------------------------------------
\* Every handler is where its lock says: it waits and works only between its
\* Request and its Release, for the palace of its inscription.
LockCoupled ==
    \A h \in Handlers :
        /\ InSection(h) <=> lock[h] = "critical"
        /\ pc[h] = "waiting" <=> lock[h] = "waiting"
        /\ pc[h] \in {"idle"} \cup ReadSteps => lock[h] = "idle"
        /\ lock[h] \in {"waiting", "critical"} => lockOn[h] = PalaceAt(h)

LEMMA LockCoupledStep == TypeOK /\ LockCoupled /\ [Next]_vars => LockCoupled'
<1> SUFFICES ASSUME TypeOK, LockCoupled, [Next]_vars
             PROVE  LockCoupled'
    OBVIOUS
<1> USE DEF LockCoupled, InSection, PalaceAt, Go, Untouched, handlerVars, lockVars,
            ReadSteps, LockedSteps, ReembedSteps, WriteSteps, Mutex!TypeOK, Mutex!LockState
<1>0. /\ pc \in [Handlers -> Steps] /\ at \in [Handlers -> Avatars]
      /\ lock \in [Handlers -> Mutex!LockState] /\ lockOn \in [Handlers -> Palaces]
      BY DEF TypeOK
<1>1. CASE \E a \in Avatars, v \in Contents \cup {Gone} : Edit(a, v)
      BY <1>1 DEF Edit
<1>2. CASE \E f \in Traversals : RecordTraversal(f)
      BY <1>2 DEF RecordTraversal
<1>3. CASE \E h \in Handlers, a \in Avatars : OnFileChange(h, a)
      BY <1>0, <1>3 DEF OnFileChange
<1>4. CASE \E h \in Handlers, a \in Avatars : OnFileDelete(h, a)
      BY <1>0, <1>4 DEF OnFileDelete, Mutex!Request
<1>5. ASSUME NEW h \in Handlers, HandlerStep(h)
      PROVE  LockCoupled'
  <2>1. CASE Check1(h)
        BY <1>0, <2>1 DEF Check1, Mutex!Request
  <2>2. CASE Check2(h)
        BY <1>0, <2>2 DEF Check2, Mutex!Request, ForgetLocals
  <2>3. CASE Enter(h)
        BY <1>0, <2>3 DEF Enter, Mutex!Grant
  <2>4. CASE Fresh1(h) \/ Heads(h) \/ Sign(h) \/ Reembed(h) \/ SetSource(h)
        BY <1>0, <2>4 DEF Fresh1, Heads, Sign, Reembed, SetSource
  <2>5. CASE Fresh2(h) \/ Embed(h) \/ Finish(h)
        BY <1>0, <2>5 DEF Fresh2, Embed, Finish, Leave, Mutex!Release, ForgetLocals
  <2>6. CASE DeleteEmbedding(h) \/ UpsertEmbedding(h)
        BY <1>0, <2>6 DEF DeleteEmbedding, UpsertEmbedding, Drop, Recreate, Rejoin
  <2>7. CASE InsertTriple(h) \/ RecordAction(h) \/ UpdateInscription(h) \/ MarkOrphaned(h)
        BY <1>0, <2>7 DEF InsertTriple, RecordAction, UpdateInscription, MarkOrphaned
  <2> QED BY <1>5, <2>1, <2>2, <2>3, <2>4, <2>5, <2>6, <2>7 DEF HandlerStep
<1>6. CASE \E h \in Handlers : FailStep(h)
      BY <1>0, <1>6 DEF FailStep, Leave, Mutex!Release, ForgetLocals
<1>7. CASE Crash
      BY <1>0, <1>7 DEF Crash, Mutex!Abandon, EndSteps, Steps
<1>8. CASE UNCHANGED vars
      BY <1>8 DEF vars
<1> QED BY <1>1, <1>2, <1>3, <1>4, <1>5, <1>6, <1>7, <1>8 DEF Next

LEMMA SectionsExclude == LockCoupled /\ MutexP!LockInv => WritersExcluded
BY MutexP!LockInvExcludes DEF LockCoupled, WritersExcluded, MutexP!MutualExclusion

-----------------------------------------------------------------------------
\* Steps at which parents[h] holds what headHashes returned to h, and h has not
\* recorded its action.
AfterHeads == {"sign", "reembed", "triple", "link", "record"} \cup ReembedSteps

\* The oracle's history is linear, and the handler that is about to extend it
\* has its tip among the parents it will sign.
HistoryInv ==
    /\ \A x \in log : x.kind = "other" => x.parents = {}
    /\ OracleHistoryLinear
    /\ \A h \in Handlers : pc[h] \in AfterHeads =>
          \A x \in OracleTips(PalaceAt(h)) : x.fp \in parents[h]

\* What headHashes returns includes the tips of the oracle's own history.
LEMMA HeadsCoverTips ==
    ASSUME HistoryInv, NEW p \in Palaces, NEW x \in OracleTips(p)
    PROVE  x.fp \in HeadHashes(p)
BY DEF HistoryInv, OracleTips, HeadHashes

\* A step that leaves the log and every signed set of parents alone, and takes
\* no handler past headHashes, keeps the history.
LEMMA HistoryKept ==
    ASSUME HistoryInv, UNCHANGED log,
           \A h \in Handlers : pc'[h] \in AfterHeads =>
               /\ pc[h] \in AfterHeads
               /\ at'[h] = at[h]
               /\ parents'[h] = parents[h]
    PROVE  HistoryInv'
<1>1. \A p : OracleTips(p)' = OracleTips(p)
      BY DEF OracleTips
<1>2. OracleHistoryLinear'
      BY <1>1 DEF HistoryInv, OracleHistoryLinear
<1>3. ASSUME NEW h \in Handlers, pc'[h] \in AfterHeads
      PROVE  \A x \in OracleTips(PalaceAt(h))' : x.fp \in parents'[h]
      BY <1>1, <1>3 DEF HistoryInv, PalaceAt, OracleTips
<1> QED BY <1>2, <1>3 DEF HistoryInv

LEMMA HistoryStep ==
    TypeOK /\ WritersExcluded /\ HistoryInv /\ [Next]_vars => HistoryInv'
<1> SUFFICES ASSUME TypeOK, WritersExcluded, HistoryInv, [Next]_vars
             PROVE  HistoryInv'
    OBVIOUS
<1> USE DEF Go, Untouched, storeVars, handlerVars, AfterHeads, ReembedSteps
<1>0. /\ pc \in [Handlers -> Steps] /\ at \in [Handlers -> Avatars]
      /\ parents \in [Handlers -> SUBSET Fps]
      BY DEF TypeOK
<1>1. CASE \E a \in Avatars, v \in Contents \cup {Gone} : Edit(a, v)
      BY <1>1, HistoryKept DEF Edit
<1>2. CASE \E f \in Traversals : RecordTraversal(f)
  <2>1. PICK f \in Traversals : log' = log \cup {Foreign(f)}
        BY <1>2 DEF RecordTraversal
  <2>2. Foreign(f).kind = "other" /\ Foreign(f).parents = {}
        BY DEF Foreign
  <2>3. \A p : OracleTips(p)' = OracleTips(p)
        BY <2>1, <2>2 DEF OracleTips
  <2>4. UNCHANGED <<pc, at, parents>>
        BY <1>2 DEF RecordTraversal
  <2>5. OracleHistoryLinear'
        BY <2>3 DEF HistoryInv, OracleHistoryLinear
  <2>6. ASSUME NEW h \in Handlers, pc'[h] \in AfterHeads
        PROVE  \A x \in OracleTips(PalaceAt(h))' : x.fp \in parents'[h]
        BY <2>3, <2>4, <2>6 DEF HistoryInv, PalaceAt
  <2> QED BY <2>1, <2>2, <2>5, <2>6 DEF HistoryInv
<1>3. CASE \E h \in Handlers, a \in Avatars : OnFileChange(h, a)
      BY <1>0, <1>3, HistoryKept DEF OnFileChange
<1>4. CASE \E h \in Handlers, a \in Avatars : OnFileDelete(h, a)
      BY <1>0, <1>4, HistoryKept DEF OnFileDelete
<1>5. ASSUME NEW h \in Handlers, HandlerStep(h)
      PROVE  HistoryInv'
  <2>1. CASE Check1(h)
        BY <1>0, <2>1, HistoryKept DEF Check1
  <2>2. CASE Check2(h)
        BY <1>0, <2>2, HistoryKept DEF Check2, ForgetLocals
  <2>3. CASE Enter(h) \/ Fresh1(h)
        BY <1>0, <2>3, HistoryKept DEF Enter, Fresh1
  <2>4. CASE Fresh2(h) \/ Embed(h) \/ Finish(h)
        BY <1>0, <2>4, HistoryKept DEF Fresh2, Embed, Finish, Leave, ForgetLocals
  <2>5. CASE Heads(h)
    <3>1. /\ pc[h] = "heads" /\ UNCHANGED <<log, at>>
          /\ pc' = [pc EXCEPT ![h] = "sign"]
          /\ parents' = [parents EXCEPT ![h] = HeadHashes(PalaceAt(h))]
          BY <2>5 DEF Heads
    <3>2. \A p : OracleTips(p)' = OracleTips(p)
          BY <3>1 DEF OracleTips
    <3>3. OracleHistoryLinear'
          BY <3>2 DEF HistoryInv, OracleHistoryLinear
    <3>4. ASSUME NEW g \in Handlers, pc'[g] \in AfterHeads,
                 NEW x \in OracleTips(PalaceAt(g))'
          PROVE  x.fp \in parents'[g]
      <4>1. x \in OracleTips(PalaceAt(g))
            BY <3>1, <3>2 DEF PalaceAt
      <4>2. CASE g = h
            BY <1>0, <3>1, <4>1, <4>2, HeadsCoverTips, PalaceAtType
      <4>3. CASE g # h
            BY <1>0, <3>1, <3>4, <4>1, <4>3 DEF HistoryInv
      <4> QED BY <4>2, <4>3
    <3> QED BY <3>1, <3>3, <3>4 DEF HistoryInv
  <2>6. CASE Sign(h) \/ Reembed(h) \/ SetSource(h) \/ InsertTriple(h)
        BY <1>0, <2>6, HistoryKept DEF Sign, Reembed, SetSource, InsertTriple
  <2>7. CASE DeleteEmbedding(h) \/ UpsertEmbedding(h)
        BY <1>0, <2>7, HistoryKept DEF DeleteEmbedding, UpsertEmbedding, Drop, Recreate, Rejoin
  <2>8. CASE RecordAction(h)
    <3> DEFINE r == Signed(h)
    <3>1. /\ pc[h] = "record" /\ log' = log \cup {r} /\ UNCHANGED <<at, parents>>
          /\ pc' = [pc EXCEPT ![h] = IF kind[h] = "updated" THEN "update" ELSE "orphan"]
          BY <2>8 DEF RecordAction
    <3>2. /\ r.palace = PalaceAt(h) /\ r.kind # "other" /\ r.parents = parents[h]
          BY DEF Signed, TypeOK
    <3> HIDE DEF r
    <3>3. \A p : p # PalaceAt(h) => OracleTips(p)' = OracleTips(p)
          BY <3>1, <3>2 DEF OracleTips
    <3>4. \A x \in OracleTips(PalaceAt(h)) : x.fp \in r.parents
          BY <3>1, <3>2 DEF HistoryInv
    <3>5. \A x \in OracleTips(PalaceAt(h))' : x = r
      <4> SUFFICES ASSUME NEW x \in OracleTips(PalaceAt(h))', x # r
                   PROVE  FALSE
          OBVIOUS
      <4>1. PalaceAt(h)' = PalaceAt(h)
            BY <3>1 DEF PalaceAt
      <4>2. x \in OracleTips(PalaceAt(h)) /\ x.fp \notin r.parents
            BY <3>1, <3>2, <4>1 DEF OracleTips
      <4> QED BY <3>4, <4>2
    <3>6. OracleHistoryLinear'
      <4> SUFFICES ASSUME NEW p \in Palaces, NEW x \in OracleTips(p)', NEW y \in OracleTips(p)'
                   PROVE  x = y
          BY DEF OracleHistoryLinear
      <4>1. CASE p = PalaceAt(h)
            BY <3>1, <3>5, <4>1 DEF PalaceAt
      <4>2. CASE p # PalaceAt(h)
            BY <3>3, <4>2 DEF HistoryInv, OracleHistoryLinear
      <4> QED BY <4>1, <4>2
    <3>7. ASSUME NEW g \in Handlers, pc'[g] \in AfterHeads
          PROVE  \A x \in OracleTips(PalaceAt(g))' : x.fp \in parents'[g]
      <4>1. g # h /\ pc[g] \in AfterHeads
            BY <1>0, <3>1, <3>7
      <4>2. PalaceAt(g) # PalaceAt(h)
            BY <3>1, <4>1 DEF WritersExcluded, InSection, LockedSteps, WriteSteps
      <4>3. PalaceAt(g)' = PalaceAt(g) /\ OracleTips(PalaceAt(g))' = OracleTips(PalaceAt(g))
            BY <3>1, <3>3, <4>2 DEF PalaceAt
      <4> QED BY <3>1, <4>1, <4>3 DEF HistoryInv
    <3> QED BY <3>1, <3>2, <3>6, <3>7 DEF HistoryInv
  <2>9. CASE UpdateInscription(h) \/ MarkOrphaned(h)
        BY <1>0, <2>9, HistoryKept DEF UpdateInscription, MarkOrphaned
  <2> QED BY <1>5, <2>1, <2>2, <2>3, <2>4, <2>5, <2>6, <2>7, <2>8, <2>9 DEF HandlerStep
<1>6. CASE \E h \in Handlers : FailStep(h)
      BY <1>0, <1>6, HistoryKept DEF FailStep, Leave, ForgetLocals
<1>7. CASE Crash
      BY <1>0, <1>7, HistoryKept DEF Crash, EndSteps, Steps
<1>8. CASE UNCHANGED vars
      BY <1>8, HistoryKept DEF vars
<1> QED BY <1>1, <1>2, <1>3, <1>4, <1>5, <1>6, <1>7, <1>8 DEF Next

-----------------------------------------------------------------------------
LEMMA RowType ==
    ASSUME NEW r \in Row, NEW emb \in Contents \cup {NoContent}, NEW src \in Contents,
           NEW b \in BOOLEAN, NEW c \in BOOLEAN, NEW n \in Nat
    PROVE  /\ [r EXCEPT !.emb = emb, !.contains = b, !.livesIn = c] \in Row
           /\ [r EXCEPT !.contains = b, !.livesIn = c] \in Row
           /\ [r EXCEPT !.src = src] \in Row
           /\ [r EXCEPT !.src = src, !.rev = n] \in Row
           /\ [r EXCEPT !.orphaned = b] \in Row
BY DEF Row

LEMMA LockTypeStep == MutexP!TypeOK /\ [MutexP!Next]_(MutexP!lockVars) => MutexP!TypeOK'
BY DEF MutexP!TypeOK, MutexP!Next, MutexP!lockVars, MutexP!Request, MutexP!Grant,
       MutexP!Release, MutexP!Abandon, MutexP!LockState

LEMMA TypeStep == TypeOK /\ [Next]_vars => TypeOK'
<1> SUFFICES ASSUME TypeOK, [Next]_vars
             PROVE  TypeOK'
    OBVIOUS
<1> USE DEF Go, storeVars, handlerVars, envVars
<1>0. Mutex!TypeOK'
      BY LockStep, LockTypeStep
      DEF TypeOK, Mutex!TypeOK, MutexP!TypeOK, Mutex!LockState, MutexP!LockState
<1>1. CASE \E a \in Avatars, v \in Contents \cup {Gone} : Edit(a, v)
      BY <1>0, <1>1, BoundsAssumption DEF Edit, TypeOK
<1>2. CASE \E f \in Traversals : RecordTraversal(f)
  <2>1. \A f \in Traversals : Foreign(f) \in Action
        BY PalaceOfAssumption DEF Foreign, Action, Fps, NoContent
  <2> QED BY <1>0, <1>2, <2>1 DEF RecordTraversal, TypeOK
<1>3. CASE \E h \in Handlers, a \in Avatars : OnFileChange(h, a)
      BY <1>0, <1>3 DEF OnFileChange, TypeOK, Steps, ReadSteps, EndSteps
<1>4. CASE \E h \in Handlers, a \in Avatars : OnFileDelete(h, a)
      BY <1>0, <1>4 DEF OnFileDelete, TypeOK, Steps
<1>5. ASSUME NEW h \in Handlers, Leave(h), UNCHANGED <<row, kg, log>>,
             pc' \in [Handlers -> Steps], disk' = disk, edits' = edits,
             faults' \in 0..MaxFaults
      PROVE  TypeOK'
      BY <1>0, <1>5, MissingType, OriginAssumption
      DEF Leave, ForgetLocals, TypeOK
<1>6. ASSUME NEW h \in Handlers, HandlerStep(h)
      PROVE  TypeOK'
  <2> USE DEF Steps, ReadSteps, LockedSteps, ReembedSteps, WriteSteps, EndSteps, Untouched
  <2>0. /\ at[h] \in Avatars /\ row[at[h]] \in Row /\ saved[h] \in Row /\ seen[h] \in Row
        /\ bytes[h] \in Contents /\ PalaceAt(h) \in Palaces
        BY PalaceAtType DEF TypeOK
  <2>1. CASE Check1(h)
        BY <1>0, <2>0, <2>1 DEF Check1, TypeOK
  <2>2. CASE Check2(h)
        BY <1>0, <2>0, <2>2, MissingType, OriginAssumption DEF Check2, ForgetLocals, TypeOK
  <2>3. CASE Enter(h)
        BY <1>0, <2>3 DEF Enter, TypeOK
  <2>4. CASE Fresh1(h)
        BY <1>0, <2>0, <2>4 DEF Fresh1, TypeOK
  <2>5. CASE Fresh2(h) \/ Embed(h) \/ Finish(h)
    <3>1. CASE Leave(h) /\ UNCHANGED <<row, kg, log, disk, edits, faults>>
          BY <1>5, <2>5, <3>1 DEF Fresh2, Embed, Finish, TypeOK
    <3>2. CASE UNCHANGED <<storeVars, handlerVars, envVars>>
          BY <1>0, <2>5, <3>2 DEF Fresh2, Embed, Finish, TypeOK
    <3> QED BY <2>5, <3>1, <3>2 DEF Fresh2, Embed, Finish
  <2>6. CASE Heads(h)
    <3>1. HeadHashes(PalaceAt(h)) \in SUBSET Fps
          BY DEF HeadHashes, TypeOK, Action
    <3> QED BY <1>0, <2>6, <3>1 DEF Heads, TypeOK
  <2>7. CASE Sign(h)
        BY <1>0, <2>0, <2>7 DEF Sign, TypeOK
  <2>8. CASE Reembed(h)
        BY <1>0, <2>8 DEF Reembed, TypeOK
  <2>9. ASSUME NEW from, NEW to \in Steps, Drop(h, from, to)
        PROVE  TypeOK'
        BY <1>0, <2>0, <2>9, MissingType DEF Drop, TypeOK
  <2>10. ASSUME NEW from, NEW to \in Steps, NEW emb \in Contents \cup {NoContent},
                Recreate(h, from, to, emb)
         PROVE  TypeOK'
         BY <1>0, <2>0, <2>10, RowType DEF Recreate, TypeOK
  <2>11. ASSUME NEW from, NEW to \in Steps, NEW c \in BOOLEAN, NEW l \in BOOLEAN,
                Rejoin(h, from, to, c, l)
         PROVE  TypeOK'
    <3> DEFINE b1 == row[at[h]].contains \/ (c /\ saved[h].contains)
               b2 == row[at[h]].livesIn \/ (l /\ saved[h].livesIn)
    <3>1. row' = [row EXCEPT ![at[h]] = [row[at[h]] EXCEPT !.contains = b1, !.livesIn = b2]]
          BY <2>0, <2>11 DEF Rejoin, TypeOK
    <3>2. b1 \in BOOLEAN /\ b2 \in BOOLEAN
          BY <2>0 DEF Row
    <3> HIDE DEF b1, b2
    <3>3. row' \in [Avatars -> Row]
          BY <2>0, <3>1, <3>2, RowType DEF TypeOK
    <3> QED BY <1>0, <2>11, <3>3 DEF Rejoin, TypeOK
  <2>12. CASE DeleteEmbedding(h)
         BY <2>9, <2>10, <2>11, <2>12 DEF DeleteEmbedding
  <2>13. CASE UpsertEmbedding(h)
         BY <2>0, <2>9, <2>10, <2>11, <2>13 DEF UpsertEmbedding
  <2>14. CASE SetSource(h)
    <3>1. row' = [row EXCEPT ![at[h]] = [row[at[h]] EXCEPT !.src = bytes[h]]]
          BY <2>14 DEF SetSource
    <3>2. row' \in [Avatars -> Row]
          BY <2>0, <3>1, RowType DEF TypeOK
    <3> QED BY <1>0, <2>14, <3>2 DEF SetSource, TypeOK
  <2>15. CASE InsertTriple(h)
         BY <1>0, <2>0, <2>15 DEF InsertTriple, TypeOK
  <2>16. CASE RecordAction(h)
    <3>1. Signed(h) \in Action
          BY <2>0 DEF Signed, Action, Fps, TypeOK
    <3> QED BY <1>0, <2>16, <3>1 DEF RecordAction, TypeOK
  <2>17. CASE UpdateInscription(h)
    <3>1. seen[h].rev + 1 \in Nat
          BY <2>0 DEF Row
    <3>2. row' \in [Avatars -> Row]
      <4>1. CASE row[at[h]].present
        <5>1. row' = [row EXCEPT ![at[h]] =
                         [row[at[h]] EXCEPT !.src = bytes[h], !.rev = seen[h].rev + 1]]
              BY <2>0, <2>17, <4>1 DEF UpdateInscription, TypeOK
        <5> QED BY <2>0, <3>1, <5>1, RowType DEF TypeOK
      <4>2. CASE ~row[at[h]].present
            BY <2>17, <4>2 DEF UpdateInscription, TypeOK
      <4> QED BY <4>1, <4>2
    <3> QED BY <1>0, <2>17, <3>2 DEF UpdateInscription, TypeOK
  <2>18. CASE MarkOrphaned(h)
    <3>1. row' = [row EXCEPT ![at[h]] = [row[at[h]] EXCEPT !.orphaned = row[at[h]].present]]
          BY <2>18 DEF MarkOrphaned
    <3>2. row[at[h]].present \in BOOLEAN
          BY <2>0 DEF Row
    <3>3. row' \in [Avatars -> Row]
          BY <2>0, <3>1, <3>2, RowType DEF TypeOK
    <3> QED BY <1>0, <2>18, <3>3 DEF MarkOrphaned, TypeOK
  <2> QED BY <1>6, <2>1, <2>2, <2>3, <2>4, <2>5, <2>6, <2>7, <2>8, <2>12, <2>13,
             <2>14, <2>15, <2>16, <2>17, <2>18 DEF HandlerStep
<1>7. CASE \E h \in Handlers : FailStep(h)
  <2>1. PICK h \in Handlers : FailStep(h)
        BY <1>7
  <2>2. faults' \in 0..MaxFaults /\ pc' \in [Handlers -> Steps]
        BY <2>1, BoundsAssumption DEF FailStep, TypeOK, Steps, EndSteps
  <2> QED BY <1>5, <2>1, <2>2 DEF FailStep
<1>8. CASE Crash
      BY <1>0, <1>8, MissingType, OriginAssumption, BoundsAssumption
      DEF Crash, TypeOK, Steps, EndSteps
<1>9. CASE UNCHANGED vars
      BY <1>0, <1>9 DEF vars, TypeOK
<1> QED BY <1>1, <1>2, <1>3, <1>4, <1>6, <1>7, <1>8, <1>9 DEF Next

-----------------------------------------------------------------------------
\* The inductive invariant: mutual exclusion of the sections follows from the
\* lock's own invariant and the coupling, and the history from the exclusion.
IInv == TypeOK /\ MutexP!LockInv /\ LockCoupled /\ HistoryInv

LEMMA IInvInit == Init => IInv
<1> SUFFICES ASSUME Init
             PROVE  IInv
    OBVIOUS
<1>1. MutexP!Init
      BY DEF Init, Mutex!Init, MutexP!Init
<1>2. MutexP!LockInv
      BY <1>1, AvatarsAssumption, MutexP!LockInvInit
<1>3. TypeOK
  <2>1. Mutex!TypeOK
        BY <1>2 DEF MutexP!LockInv, MutexP!TypeOK, Mutex!TypeOK, MutexP!LockState, Mutex!LockState
  <2>2. log \in SUBSET Action
        BY PalaceOfAssumption DEF Init, Foreign, Action, Fps, NoContent
  <2> QED BY <2>1, <2>2, MissingType, OriginAssumption, AvatarsAssumption, BoundsAssumption
             DEF Init, TypeOK, Steps
<1>4. LockCoupled
      BY DEF Init, Mutex!Init, LockCoupled, InSection, LockedSteps, WriteSteps, ReembedSteps
<1>5. HistoryInv
  <2>1. \A x \in log : x.kind = "other" /\ x.parents = {}
        BY DEF Init, Foreign
  <2>2. \A p : OracleTips(p) = {}
        BY <2>1 DEF OracleTips
  <2> QED BY <2>1, <2>2 DEF HistoryInv, OracleHistoryLinear
<1> QED BY <1>2, <1>3, <1>4, <1>5 DEF IInv

LEMMA IInvStep == IInv /\ [Next]_vars => IInv'
<1> SUFFICES ASSUME IInv, [Next]_vars
             PROVE  IInv'
    OBVIOUS
<1>1. TypeOK'
      BY TypeStep DEF IInv
<1>2. MutexP!LockInv'
      BY LockStep, MutexP!LockInvStep DEF IInv
<1>3. LockCoupled'
      BY LockCoupledStep DEF IInv
<1>4. HistoryInv'
      BY SectionsExclude, HistoryStep DEF IInv
<1> QED BY <1>1, <1>2, <1>3, <1>4 DEF IInv

THEOREM WatcherInvariant == Spec => []IInv
BY IInvInit, IInvStep, PTL DEF Spec

\* Every variable of the watcher keeps its type.
THEOREM WatcherTypeCorrect == Spec => []TypeOK
<1>1. IInv => TypeOK
      BY DEF IInv
<1> QED BY <1>1, WatcherInvariant, PTL

\* At most one handler per palace is between its lock and its release, whatever
\* fails or crashes.
THEOREM WatcherExcludes == Spec => []WritersExcluded
<1>1. IInv => WritersExcluded
      BY SectionsExclude DEF IInv
<1> QED BY <1>1, WatcherInvariant, PTL

\* The oracle's history of a palace never forks, for any number of handlers,
\* failures, crashes and actions of the server.
THEOREM WatcherHistoryLinear == Spec => []OracleHistoryLinear
<1>1. IInv => OracleHistoryLinear
      BY DEF IInv, HistoryInv
<1> QED BY <1>1, WatcherInvariant, PTL

-----------------------------------------------------------------------------
\* The write context, when the store holds a single palace.

\* The context is the holder's own while it writes, the custodian's otherwise,
\* and what the holder will put back is the custodian's.
ContextInv ==
    /\ ContextRestored
    /\ \A h \in Handlers : pc[h] \in WriteSteps => prior[h] = Default

LEMMA ContextStep ==
    ASSUME \A p, q \in Palaces : p = q
    PROVE  TypeOK /\ WritersExcluded /\ ContextInv /\ [Next]_vars => ContextInv'
<1> SUFFICES ASSUME TypeOK, WritersExcluded, ContextInv, [Next]_vars
             PROVE  ContextInv'
    OBVIOUS
<1> USE DEF Go, Untouched, storeVars, handlerVars, ContextInv, ContextRestored,
            WriteSteps, ReembedSteps
<1>0. /\ pc \in [Handlers -> Steps] /\ prior \in [Handlers -> Palaces \cup {Default}]
      BY DEF TypeOK
<1>1. \A g, h \in Handlers : InSection(g) /\ InSection(h) => g = h
      BY PalaceAtType DEF WritersExcluded
<1>2. ASSUME NEW h \in Handlers, Leave(h), NEW to \in EndSteps, InSection(h),
             pc' = [pc EXCEPT ![h] = to]
      PROVE  ContextInv'
      BY <1>0, <1>1, <1>2 DEF Leave, ForgetLocals, InSection, LockedSteps, EndSteps
<1>3. CASE \E a \in Avatars, v \in Contents \cup {Gone} : Edit(a, v)
      BY <1>3 DEF Edit
<1>4. CASE \E f \in Traversals : RecordTraversal(f)
      BY <1>4 DEF RecordTraversal
<1>5. CASE \E h \in Handlers, a \in Avatars : OnFileChange(h, a) \/ OnFileDelete(h, a)
      BY <1>0, <1>5 DEF OnFileChange, OnFileDelete
<1>6. ASSUME NEW h \in Handlers, HandlerStep(h)
      PROVE  ContextInv'
  <2>1. CASE Check1(h) \/ Check2(h)
        BY <1>0, <2>1 DEF Check1, Check2, ForgetLocals
  <2>2. CASE Enter(h) \/ Fresh1(h) \/ Heads(h)
        BY <1>0, <2>2 DEF Enter, Fresh1, Heads
  <2>3. CASE Fresh2(h) \/ Embed(h) \/ Finish(h)
    <3>1. \/ /\ Go(h, "fresh2", "embed") \/ Go(h, "embed", "heads")
             /\ UNCHANGED <<storeVars, handlerVars>>
          \/ /\ Leave(h)
             /\ \E to \in EndSteps, from \in {"fresh2", "embed", "finish"} : Go(h, from, to)
          BY <2>3 DEF Fresh2, Embed, Finish, EndSteps
    <3>2. CASE /\ Go(h, "fresh2", "embed") \/ Go(h, "embed", "heads")
               /\ UNCHANGED <<storeVars, handlerVars>>
          BY <1>0, <3>2
    <3>3. CASE /\ Leave(h)
               /\ \E to \in EndSteps, from \in {"fresh2", "embed", "finish"} : Go(h, from, to)
          BY <1>2, <3>3 DEF InSection, LockedSteps
    <3> QED BY <3>1, <3>2, <3>3
  <2>4. CASE Sign(h)
        BY <1>0, <1>1, <2>4 DEF Sign, InSection, LockedSteps
  <2>5. CASE Reembed(h) \/ SetSource(h) \/ InsertTriple(h)
        BY <1>0, <2>5 DEF Reembed, SetSource, InsertTriple
  <2>6. CASE DeleteEmbedding(h) \/ UpsertEmbedding(h)
        BY <1>0, <2>6 DEF DeleteEmbedding, UpsertEmbedding, Drop, Recreate, Rejoin
  <2>7. CASE RecordAction(h) \/ UpdateInscription(h) \/ MarkOrphaned(h)
        BY <1>0, <2>7 DEF RecordAction, UpdateInscription, MarkOrphaned
  <2> QED BY <1>6, <2>1, <2>2, <2>3, <2>4, <2>5, <2>6, <2>7 DEF HandlerStep
<1>7. CASE \E h \in Handlers : FailStep(h)
      BY <1>2, <1>7 DEF FailStep, InSection, LockedSteps, EndSteps
<1>8. CASE Crash
      BY <1>0, <1>8 DEF Crash, EndSteps, Steps
<1>9. CASE UNCHANGED vars
      BY <1>9 DEF vars
<1> QED BY <1>3, <1>4, <1>5, <1>6, <1>7, <1>8, <1>9 DEF Next

\* On a store of one palace every handler leaves the custodian's write context
\* behind, however it ends.  With two palaces this is false.
THEOREM OnePalaceContextRestored ==
    ASSUME \A p, q \in Palaces : p = q
    PROVE  Spec => []ContextRestored
<1>1. Init => ContextInv
      BY DEF Init, ContextInv, ContextRestored, WriteSteps, ReembedSteps
<1>2. IInv /\ ContextInv /\ [Next]_vars => ContextInv'
      BY ContextStep, SectionsExclude DEF IInv
<1>3. ContextInv => ContextRestored
      BY DEF ContextInv
<1> QED BY <1>1, <1>2, <1>3, WatcherInvariant, PTL DEF Spec

-----------------------------------------------------------------------------
\* Metadata is backed by signed actions.  No exclusion is needed: what a handler
\* read may be old, but actions only accumulate, and each handler's own is new.

Count(a) == Cardinality(Updates(a))

\* The revision and the orphan mark of a row of avatar a, stored or in memory.
Backed(r, a) == r.rev <= Count(a) /\ (r.orphaned => Orphanings(a) # {})

\* A handler that has not recorded its action.
Unrecorded(h) == pc[h] \notin {"update", "orphan", "finish"} \cup EndSteps

BackedInv ==
    /\ \A a \in Avatars : IsFiniteSet(Updates(a)) /\ Backed(row[a], a)
    /\ \A h \in Handlers :
          /\ Backed(seen[h], at[h]) /\ Backed(saved[h], at[h])
          /\ Unrecorded(h) => \A x \in log : x.fp # h
          /\ pc[h] = "idle" => seen[h] = Missing /\ saved[h] = Missing
          /\ pc[h] = "update" => seen[h].rev < Count(at[h])
          /\ pc[h] = "orphan" => Orphanings(at[h]) # {}

LEMMA CountNat == ASSUME NEW a, IsFiniteSet(Updates(a)) PROVE Count(a) \in Nat
BY FS_CardinalityType DEF Count

LEMMA MissingBacked ==
    ASSUME NEW a, IsFiniteSet(Updates(a)) PROVE Backed(Missing, a)
BY CountNat DEF Missing, Backed

\* A step that records no action, writes to rows only what is backed, and takes no
\* handler to the steps after its action.
LEMMA BackedKept ==
    ASSUME TypeOK, BackedInv, UNCHANGED log, at' \in [Handlers -> Avatars],
           \A a \in Avatars : row'[a] = row[a] \/ Backed(row'[a], a),
           \A h \in Handlers :
               /\ seen'[h] = Missing \/ (at'[h] = at[h] /\ Backed(seen'[h], at[h]))
               /\ saved'[h] = Missing \/ (at'[h] = at[h] /\ Backed(saved'[h], at[h]))
               /\ Unrecorded(h)' => Unrecorded(h)
               /\ pc'[h] = "idle" => seen'[h] = Missing /\ saved'[h] = Missing
               /\ pc'[h] \in {"update", "orphan"} =>
                     pc[h] = pc'[h] /\ at'[h] = at[h] /\ seen'[h] = seen[h]
    PROVE  BackedInv'
<1>1. \A a : Updates(a)' = Updates(a) /\ Orphanings(a)' = Orphanings(a)
      BY DEF Updates, Orphanings
<1>3. \A a : Count(a)' = Count(a)
      BY <1>1 DEF Count
<1>4. \A a \in Avatars : IsFiniteSet(Updates(a)) /\ Backed(Missing, a) /\ Backed(row[a], a)
      BY MissingBacked DEF BackedInv
<1>5. ASSUME NEW a \in Avatars PROVE IsFiniteSet(Updates(a))' /\ Backed(row[a], a)'
  <2>1. Backed(row'[a], a)
        BY <1>4
  <2> QED BY <1>1, <1>3, <1>4, <2>1 DEF Backed
<1>6. ASSUME NEW h \in Handlers
      PROVE  /\ Backed(seen[h], at[h])' /\ Backed(saved[h], at[h])'
             /\ Unrecorded(h)' => \A x \in log' : x.fp # h
             /\ pc'[h] = "idle" => seen'[h] = Missing /\ saved'[h] = Missing
             /\ pc'[h] = "update" => seen'[h].rev < Count(at[h])'
             /\ pc'[h] = "orphan" => Orphanings(at[h])' # {}
  <2>1. Backed(seen'[h], at'[h]) /\ Backed(saved'[h], at'[h])
        BY <1>4
  <2>2. Backed(seen[h], at[h])' /\ Backed(saved[h], at[h])'
        BY <1>1, <1>3, <2>1 DEF Backed
  <2>3. pc'[h] = "update" => seen'[h].rev < Count(at[h])'
        BY <1>3 DEF BackedInv
  <2>4. pc'[h] = "orphan" => Orphanings(at[h])' # {}
        BY <1>1 DEF BackedInv
  <2> QED BY <2>2, <2>3, <2>4 DEF BackedInv
<1> QED BY <1>5, <1>6 DEF BackedInv

\* A recorded action is one more.
LEMMA RecordBacked ==
    ASSUME TypeOK, BackedInv, NEW h \in Handlers, RecordAction(h)
    PROVE  BackedInv'
<1> USE DEF Go
<1> DEFINE s == Signed(h)
<1>1. /\ pc[h] = "record" /\ log' = log \cup {s}
      /\ pc' = [pc EXCEPT ![h] = IF kind[h] = "updated" THEN "update" ELSE "orphan"]
      /\ UNCHANGED <<row, seen, saved, at, kind>>
      BY DEF RecordAction, handlerVars
<1>2. /\ pc \in [Handlers -> Steps] /\ kind[h] \in {"updated", "orphaned"}
      /\ at \in [Handlers -> Avatars] /\ seen \in [Handlers -> Row] /\ saved \in [Handlers -> Row]
      /\ row \in [Avatars -> Row]
      BY DEF TypeOK
<1>3. s.fp = h /\ s.kind = kind[h] /\ s.target = at[h]
      BY DEF Signed
<1>4. s \notin log
      BY <1>1, <1>3 DEF BackedInv, Unrecorded, EndSteps
<1> HIDE DEF s
<1>5. \A a : /\ Updates(a)' = IF kind[h] = "updated" /\ a = at[h] THEN Updates(a) \cup {s}
                              ELSE Updates(a)
             /\ Orphanings(a)' = IF kind[h] = "orphaned" /\ a = at[h] THEN Orphanings(a) \cup {s}
                                 ELSE Orphanings(a)
      BY <1>1, <1>3 DEF Updates, Orphanings
<1>6. ASSUME NEW a \in Avatars
      PROVE  /\ IsFiniteSet(Updates(a)') /\ Count(a) \in Nat
             /\ Count(a)' = IF kind[h] = "updated" /\ a = at[h] THEN Count(a) + 1 ELSE Count(a)
             /\ Orphanings(a) \subseteq Orphanings(a)'
  <2>1. IsFiniteSet(Updates(a)) /\ s \notin Updates(a)
        BY <1>4 DEF BackedInv, Updates
  <2>2. IsFiniteSet(Updates(a) \cup {s})
        /\ Cardinality(Updates(a) \cup {s}) = Cardinality(Updates(a)) + 1
        BY <2>1, FS_AddElement
  <2>3. Count(a) \in Nat
        BY <2>1, CountNat
  <2>4. CASE kind[h] = "updated" /\ a = at[h]
        BY <1>5, <2>2, <2>3, <2>4 DEF Count
  <2>5. CASE ~(kind[h] = "updated" /\ a = at[h])
        BY <1>5, <2>1, <2>3, <2>5 DEF Count
  <2> QED BY <2>4, <2>5
<1>7. ASSUME NEW a \in Avatars, NEW r \in Row, Backed(r, a)
      PROVE  r.rev <= Count(a)' /\ (r.orphaned => Orphanings(a)' # {})
      BY <1>6, <1>7 DEF Backed, Row
<1>8. \A a \in Avatars : IsFiniteSet(Updates(a))' /\ Backed(row[a], a)'
      BY <1>1, <1>2, <1>6, <1>7 DEF BackedInv, Backed
<1>9. ASSUME NEW g \in Handlers
      PROVE  /\ Backed(seen[g], at[g])' /\ Backed(saved[g], at[g])'
             /\ Unrecorded(g)' => \A x \in log' : x.fp # g
             /\ pc'[g] = "idle" => seen'[g] = Missing /\ saved'[g] = Missing
             /\ pc'[g] = "update" => seen'[g].rev < Count(at[g])'
             /\ pc'[g] = "orphan" => Orphanings(at[g])' # {}
  <2>1. Backed(seen[g], at[g])' /\ Backed(saved[g], at[g])'
        BY <1>1, <1>2, <1>7 DEF BackedInv, Backed
  <2>2. CASE g = h
    <3>1. ~Unrecorded(h)' /\ pc'[h] # "idle"
          BY <1>1, <1>2 DEF Unrecorded
    <3>2. ASSUME pc'[h] = "update" PROVE seen'[h].rev < Count(at[h])'
      <4>1. kind[h] = "updated"
            BY <1>1, <1>2, <3>2
      <4>2. Count(at[h])' = Count(at[h]) + 1 /\ Count(at[h]) \in Nat
            BY <1>1, <1>2, <1>6, <4>1
      <4>3. seen[h].rev <= Count(at[h]) /\ seen[h].rev \in Nat
            BY <1>2 DEF BackedInv, Backed, Row
      <4> QED BY <1>1, <4>2, <4>3
    <3>3. ASSUME pc'[h] = "orphan" PROVE Orphanings(at[h])' # {}
      <4>1. kind[h] = "orphaned"
            BY <1>1, <1>2, <3>3
      <4>2. Orphanings(at[h])' = Orphanings(at[h]) \cup {s}
            BY <1>1, <1>5, <4>1
      <4> QED BY <4>2
    <3> QED BY <2>1, <2>2, <3>1, <3>2, <3>3
  <2>3. CASE g # h
    <3>1. pc'[g] = pc[g]
          BY <1>1, <1>2, <2>3
    <3>2. Unrecorded(g)' => \A x \in log' : x.fp # g
          BY <1>1, <1>3, <2>3, <3>1 DEF BackedInv, Unrecorded
    <3>3. ASSUME pc'[g] = "update" PROVE seen'[g].rev < Count(at[g])'
      <4>1. seen[g].rev < Count(at[g]) /\ seen[g].rev \in Nat
            BY <1>2, <3>1, <3>3 DEF BackedInv, Row
      <4>2. Count(at[g])' \in {Count(at[g]), Count(at[g]) + 1} /\ Count(at[g]) \in Nat
            BY <1>1, <1>2, <1>6
      <4> QED BY <1>1, <4>1, <4>2
    <3>4. ASSUME pc'[g] = "orphan" PROVE Orphanings(at[g])' # {}
      <4>1. Orphanings(at[g]) # {}
            BY <3>1, <3>4 DEF BackedInv
      <4>2. Orphanings(at[g]) \subseteq Orphanings(at[g])'
            BY <1>1, <1>2, <1>5
      <4> QED BY <4>1, <4>2
    <3>5. pc'[g] = "idle" => seen'[g] = Missing /\ saved'[g] = Missing
          BY <1>1, <3>1 DEF BackedInv
    <3> QED BY <2>1, <3>2, <3>3, <3>4, <3>5
  <2> QED BY <2>2, <2>3
<1> QED BY <1>8, <1>9 DEF BackedInv

LEMMA BackedStep == TypeOK /\ TypeOK' /\ BackedInv /\ [Next]_vars => BackedInv'
<1> SUFFICES ASSUME TypeOK, TypeOK', BackedInv, [Next]_vars
             PROVE  BackedInv'
    OBVIOUS
<1> USE DEF Go, Untouched, storeVars, handlerVars
<1>0. /\ pc \in [Handlers -> Steps] /\ at \in [Handlers -> Avatars]
      /\ at' \in [Handlers -> Avatars] /\ row \in [Avatars -> Row]
      /\ seen \in [Handlers -> Row] /\ saved \in [Handlers -> Row]
      BY DEF TypeOK
<1>1. /\ \A a \in Avatars : Backed(row[a], a)
      /\ \A h \in Handlers : /\ Backed(seen[h], at[h]) /\ Backed(saved[h], at[h])
                             /\ Backed(row[at[h]], at[h])
                             /\ pc[h] = "idle" => seen[h] = Missing /\ saved[h] = Missing
      BY <1>0 DEF BackedInv
<1>2. \A a \in Avatars : Backed(Missing, a)
      BY MissingBacked DEF BackedInv
\* One handler moves on, and neither to the steps after its action nor from them.
<1>3. ASSUME NEW h \in Handlers, NEW to \in Steps, pc' = [pc EXCEPT ![h] = to],
             UNCHANGED log, to \notin {"idle", "update", "orphan"},
             Unrecorded(h) \/ to \in {"finish"} \cup EndSteps,
             pc[h] = "idle" \/ at' = at,
             \A g \in Handlers \ {h} : UNCHANGED <<at[g], seen[g], saved[g]>>,
             seen'[h] \in {seen[h], row[at[h]], Missing},
             saved'[h] \in {saved[h], row[at[h]], Missing},
             pc[h] = "idle" => UNCHANGED <<seen, saved>>,
             \A a \in Avatars : row'[a] = row[a] \/ Backed(row'[a], a)
      PROVE  BackedInv'
  <2>1. /\ pc'[h] = to /\ \A g \in Handlers \ {h} : pc'[g] = pc[g]
        BY <1>0, <1>3
  <2>2. ASSUME NEW g \in Handlers
        PROVE  /\ seen'[g] = Missing \/ (at'[g] = at[g] /\ Backed(seen'[g], at[g]))
               /\ saved'[g] = Missing \/ (at'[g] = at[g] /\ Backed(saved'[g], at[g]))
               /\ Unrecorded(g)' => Unrecorded(g)
               /\ pc'[g] = "idle" => seen'[g] = Missing /\ saved'[g] = Missing
               /\ pc'[g] \in {"update", "orphan"} =>
                     pc[g] = pc'[g] /\ at'[g] = at[g] /\ seen'[g] = seen[g]
    <3>1. CASE g = h
      <4>1. /\ seen'[h] = Missing \/ (at'[h] = at[h] /\ Backed(seen'[h], at[h]))
            /\ saved'[h] = Missing \/ (at'[h] = at[h] /\ Backed(saved'[h], at[h]))
            BY <1>0, <1>1, <1>2, <1>3
      <4>2. Unrecorded(h)' => Unrecorded(h)
            BY <1>3, <2>1 DEF Unrecorded
      <4> QED BY <1>3, <2>1, <3>1, <4>1, <4>2
    <3>2. CASE g # h
      <4>1. pc'[g] = pc[g] /\ UNCHANGED <<at[g], seen[g], saved[g]>>
            BY <1>3, <2>1, <3>2
      <4> QED BY <1>1, <4>1 DEF Unrecorded
    <3> QED BY <3>1, <3>2
  <2> QED BY <1>0, <1>3, <2>2, BackedKept
<1>4. CASE \E a \in Avatars, v \in Contents \cup {Gone} : Edit(a, v)
      BY <1>0, <1>1, <1>4, BackedKept DEF Edit, Unrecorded
<1>5. CASE \E f \in Traversals : RecordTraversal(f)
  <2>1. PICK f \in Traversals : log' = log \cup {Foreign(f)}
        BY <1>5 DEF RecordTraversal
  <2>2. Foreign(f).kind = "other" /\ Foreign(f).fp \notin Handlers
        BY FpAssumption DEF Foreign
  <2>3. \A a : Updates(a)' = Updates(a) /\ Orphanings(a)' = Orphanings(a)
        BY <2>1, <2>2 DEF Updates, Orphanings
  <2>4. UNCHANGED <<row, pc, at, seen, saved>>
        BY <1>5 DEF RecordTraversal
  <2>5. \A a : Count(a)' = Count(a)
        BY <2>3 DEF Count
  <2> QED BY <2>1, <2>2, <2>3, <2>4, <2>5 DEF BackedInv, Backed, Unrecorded
<1>6. CASE \E h \in Handlers, a \in Avatars : OnFileChange(h, a) \/ OnFileDelete(h, a)
  <2>1. PICK h \in Handlers, a \in Avatars : OnFileChange(h, a) \/ OnFileDelete(h, a)
        BY <1>6
  <2>2. PICK to \in {"unreadable", "check1", "waiting"} : pc' = [pc EXCEPT ![h] = to]
        BY <2>1 DEF OnFileChange, OnFileDelete
  <2>3. /\ pc[h] = "idle" /\ at' = [at EXCEPT ![h] = a] /\ UNCHANGED <<row, log, seen, saved>>
        BY <2>1 DEF OnFileChange, OnFileDelete
  <2> QED BY <1>0, <1>3, <2>2, <2>3 DEF Unrecorded, Steps, EndSteps, ReadSteps
<1>7. ASSUME NEW h \in Handlers, HandlerStep(h)
      PROVE  BackedInv'
  <2>1. CASE Check1(h)
    <3>1. PICK to \in {"check2", "waiting"} : pc' = [pc EXCEPT ![h] = to]
          BY <2>1 DEF Check1
    <3>2. /\ pc[h] = "check1" /\ UNCHANGED <<row, log, at, saved>>
          /\ seen' = seen \/ seen' = [seen EXCEPT ![h] = row[at[h]]]
          BY <2>1 DEF Check1
    <3> QED BY <1>0, <1>3, <3>1, <3>2 DEF Unrecorded, Steps, EndSteps, ReadSteps
  <2>2. CASE Check2(h)
    <3>1. PICK to \in {"threw", "noop", "waiting"} : pc' = [pc EXCEPT ![h] = to]
          BY <2>2 DEF Check2
    <3>2. /\ pc[h] = "check2" /\ UNCHANGED <<row, log, at>>
          /\ seen' = seen \/ seen' = [seen EXCEPT ![h] = Missing]
          /\ saved' = saved \/ saved' = [saved EXCEPT ![h] = Missing]
          BY <2>2 DEF Check2, ForgetLocals
    <3> QED BY <1>0, <1>3, <3>1, <3>2 DEF Unrecorded, Steps, EndSteps, ReadSteps
  <2>3. CASE Enter(h) \/ Heads(h) \/ Sign(h) \/ Reembed(h) \/ InsertTriple(h)
    <3>1. PICK to \in {"fresh1", "heads", "sign", "reembed", "record", "triple", "drop1", "link"} :
             pc' = [pc EXCEPT ![h] = to]
          BY <2>3 DEF Enter, Heads, Sign, Reembed, InsertTriple
    <3>2. pc[h] \in {"waiting", "heads", "sign", "reembed", "triple", "link"}
          BY <2>3 DEF Enter, Heads, Sign, Reembed, InsertTriple
    <3>3. UNCHANGED <<row, log, at, seen, saved>>
          BY <2>3 DEF Enter, Heads, Sign, Reembed, InsertTriple
    <3> QED BY <1>0, <1>3, <3>1, <3>2, <3>3
            DEF Unrecorded, Steps, EndSteps, LockedSteps, WriteSteps, ReembedSteps
  <2>4. CASE Fresh1(h)
    <3>1. PICK to \in {"fresh2", "embed"} : pc' = [pc EXCEPT ![h] = to]
          BY <2>4 DEF Fresh1
    <3>2. /\ pc[h] = "fresh1" /\ UNCHANGED <<row, log, at, saved>>
          /\ seen' = [seen EXCEPT ![h] = row[at[h]]]
          BY <2>4 DEF Fresh1
    <3> QED BY <1>0, <1>3, <3>1, <3>2 DEF Unrecorded, Steps, EndSteps, LockedSteps
  <2>5. CASE Fresh2(h) \/ Embed(h) \/ Finish(h)
    <3>1. PICK to \in {"embed", "heads", "threw", "unreachable", "done"} :
             /\ pc' = [pc EXCEPT ![h] = to]
             /\ pc[h] \in {"fresh2", "embed"} \/ to = "done"
          BY <2>5 DEF Fresh2, Embed, Finish
    <3>2. /\ pc[h] # "idle" /\ UNCHANGED <<row, log, at>>
          /\ seen' = seen \/ seen' = [seen EXCEPT ![h] = Missing]
          /\ saved' = saved \/ saved' = [saved EXCEPT ![h] = Missing]
          BY <2>5 DEF Fresh2, Embed, Finish, Leave, ForgetLocals
    <3> QED BY <1>0, <1>3, <3>1, <3>2 DEF Unrecorded, Steps, EndSteps, LockedSteps
  <2>6. CASE DeleteEmbedding(h) \/ UpsertEmbedding(h) \/ SetSource(h)
    <3>1. PICK to \in ReembedSteps \cup {"triple"} : pc' = [pc EXCEPT ![h] = to]
          BY <2>6 DEF DeleteEmbedding, UpsertEmbedding, SetSource, Drop, Recreate, Rejoin,
                      ReembedSteps
    <3>2. /\ pc[h] \in ReembedSteps /\ UNCHANGED <<log, at, seen>>
          /\ saved' = saved \/ saved' = [saved EXCEPT ![h] = row[at[h]]]
          BY <2>6 DEF DeleteEmbedding, UpsertEmbedding, SetSource, Drop, Recreate, Rejoin,
                      ReembedSteps
    <3>3. /\ \A a \in Avatars \ {at[h]} : row'[a] = row[a]
          /\ \/ row'[at[h]] = Missing
             \/ row'[at[h]].rev \in {row[at[h]].rev} /\ row'[at[h]].orphaned = row[at[h]].orphaned
             \/ row'[at[h]].rev \in {saved[h].rev} /\ row'[at[h]].orphaned = saved[h].orphaned
      <4> DEFINE R == /\ \A a \in Avatars \ {at[h]} : row'[a] = row[a]
                      /\ \/ row'[at[h]] = Missing
                         \/ row'[at[h]].rev \in {row[at[h]].rev}
                            /\ row'[at[h]].orphaned = row[at[h]].orphaned
                         \/ row'[at[h]].rev \in {saved[h].rev}
                            /\ row'[at[h]].orphaned = saved[h].orphaned
      <4>0. at[h] \in Avatars /\ row[at[h]] \in Row /\ saved[h] \in Row
            BY <1>0
      <4>1. ASSUME NEW f, NEW t, Drop(h, f, t) PROVE R
            BY <1>0, <4>1 DEF Drop
      <4>2. ASSUME NEW f, NEW t, NEW e, Recreate(h, f, t, e) PROVE R
        <5>1. row' = [row EXCEPT ![at[h]] =
                        [saved[h] EXCEPT !.emb = e, !.contains = FALSE, !.livesIn = FALSE]]
              BY <4>2 DEF Recreate
        <5> QED BY <1>0, <4>0, <5>1 DEF Row
      <4>3. ASSUME NEW f, NEW t, NEW b, NEW l, Rejoin(h, f, t, b, l) PROVE R
        <5>1. row' = [row EXCEPT ![at[h]].contains = (@ \/ (b /\ saved[h].contains)),
                                 ![at[h]].livesIn = (@ \/ (l /\ saved[h].livesIn))]
              BY <4>3 DEF Rejoin
        <5> QED BY <1>0, <4>0, <5>1 DEF Row
      <4>4. ASSUME SetSource(h) PROVE R
        <5>1. row' = [row EXCEPT ![at[h]].src = bytes[h]]
              BY <4>4 DEF SetSource
        <5> QED BY <1>0, <4>0, <5>1 DEF Row
      <4> HIDE DEF R
      <4>5. ASSUME DeleteEmbedding(h) PROVE R
            BY <4>1, <4>2, <4>3, <4>5 DEF DeleteEmbedding
      <4>6. ASSUME UpsertEmbedding(h) PROVE R
            BY <4>1, <4>2, <4>3, <4>6 DEF UpsertEmbedding
      <4>7. R
            BY <2>6, <4>4, <4>5, <4>6
      <4> QED BY <4>7 DEF R
    <3>4. \A a \in Avatars : row'[a] = row[a] \/ Backed(row'[a], a)
          BY <1>0, <1>1, <1>2, <3>3 DEF Backed
    <3>5. /\ pc[h] # "idle" /\ Unrecorded(h)
          /\ to \in Steps /\ to \notin {"idle", "update", "orphan"}
          BY <3>1, <3>2 DEF Unrecorded, Steps, EndSteps, WriteSteps, ReembedSteps
    <3>6. /\ \A g \in Handlers \ {h} : UNCHANGED <<at[g], seen[g], saved[g]>>
          /\ seen'[h] = seen[h] /\ saved'[h] \in {saved[h], row[at[h]]}
          BY <1>0, <3>2
    <3> QED BY <1>3, <3>1, <3>2, <3>4, <3>5, <3>6
  <2>7. CASE RecordAction(h)
        BY <2>7, RecordBacked
  <2>8. CASE UpdateInscription(h)
    <3>1. /\ pc[h] = "update" /\ pc' = [pc EXCEPT ![h] = "finish"]
          /\ UNCHANGED <<log, at, seen, saved>>
          BY <2>8 DEF UpdateInscription
    <3>2. /\ \A a \in Avatars \ {at[h]} : row'[a] = row[a]
          /\ \/ row'[at[h]] = row[at[h]]
             \/ row'[at[h]].rev = seen[h].rev + 1 /\ row'[at[h]].orphaned = row[at[h]].orphaned
          BY <1>0, <2>8 DEF UpdateInscription, Row
    <3>3. seen[h].rev + 1 <= Count(at[h])
      <4>1. seen[h].rev < Count(at[h]) /\ IsFiniteSet(Updates(at[h]))
            BY <1>0, <3>1 DEF BackedInv
      <4>2. Count(at[h]) \in Nat /\ seen[h].rev \in Nat
            BY <1>0, <4>1, CountNat DEF Row
      <4> QED BY <4>1, <4>2
    <3>4. \A a \in Avatars : row'[a] = row[a] \/ Backed(row'[a], a)
          BY <1>0, <1>1, <3>2, <3>3 DEF Backed
    <3> QED BY <1>0, <1>3, <3>1, <3>4 DEF Steps, WriteSteps
  <2>9. CASE MarkOrphaned(h)
    <3>1. /\ pc[h] = "orphan" /\ pc' = [pc EXCEPT ![h] = "finish"]
          /\ UNCHANGED <<log, at, seen, saved>>
          BY <2>9 DEF MarkOrphaned
    <3>2. /\ \A a \in Avatars \ {at[h]} : row'[a] = row[a]
          /\ row'[at[h]].rev = row[at[h]].rev
          BY <1>0, <2>9 DEF MarkOrphaned, Row
    <3>3. Orphanings(at[h]) # {}
          BY <3>1 DEF BackedInv
    <3>4. \A a \in Avatars : row'[a] = row[a] \/ Backed(row'[a], a)
          BY <1>0, <1>1, <3>2, <3>3 DEF Backed
    <3> QED BY <1>0, <1>3, <3>1, <3>4 DEF Steps, WriteSteps
  <2> QED BY <1>7, <2>1, <2>2, <2>3, <2>4, <2>5, <2>6, <2>7, <2>8, <2>9 DEF HandlerStep
<1>8. CASE \E h \in Handlers : FailStep(h)
  <2>1. PICK h \in Handlers : FailStep(h)
        BY <1>8
  <2>2. /\ pc' = [pc EXCEPT ![h] = "threw"] /\ pc[h] # "idle" /\ UNCHANGED <<row, log, at>>
        /\ seen' = [seen EXCEPT ![h] = Missing] /\ saved' = [saved EXCEPT ![h] = Missing]
        BY <2>1 DEF FailStep, Leave, ForgetLocals, LockedSteps, WriteSteps, ReembedSteps
  <2> QED BY <1>0, <1>3, <2>2 DEF Steps, EndSteps
<1>9. CASE Crash
  <2>1. /\ UNCHANGED <<row, log, at>>
        /\ \A h \in Handlers : /\ seen'[h] = Missing /\ saved'[h] = Missing
                               /\ pc'[h] \in {"idle"} \cup EndSteps
                               /\ Unrecorded(h)' => Unrecorded(h)
        BY <1>0, <1>9 DEF Crash, Unrecorded, EndSteps
  <2> QED BY <1>0, <2>1, BackedKept DEF EndSteps
<1>10. CASE UNCHANGED vars
       BY <1>0, <1>1, <1>10, BackedKept DEF vars, Unrecorded
<1> QED BY <1>4, <1>5, <1>6, <1>7, <1>8, <1>9, <1>10 DEF Next

LEMMA BackedInvariant == Spec => []BackedInv
<1>1. Init => BackedInv
  <2> SUFFICES ASSUME Init PROVE BackedInv
      OBVIOUS
  <2>1. \A x \in log : x.kind = "other" /\ x.fp \notin Handlers
        BY FpAssumption DEF Init, Foreign
  <2>2. \A a : Updates(a) = {}
        BY <2>1 DEF Updates
  <2>3. ASSUME NEW a
        PROVE IsFiniteSet(Updates(a)) /\ Backed(Missing, a) /\ Backed(Inscribed, a)
    <3>1. IsFiniteSet(Updates(a)) /\ Count(a) = 0
          BY <2>2, FS_EmptySet DEF Count
    <3> QED BY <3>1 DEF Backed, Missing, Inscribed
  <2>4. \A h \in Handlers : /\ Backed(seen[h], at[h]) /\ Backed(saved[h], at[h])
                            /\ seen[h] = Missing /\ saved[h] = Missing /\ pc[h] = "idle"
        BY <2>3 DEF Init
  <2>5. \A a \in Avatars : row[a] = Inscribed
        BY DEF Init
  <2> QED BY <2>1, <2>3, <2>4, <2>5 DEF BackedInv
<1>2. IInv /\ BackedInv /\ [Next]_vars => BackedInv'
      BY BackedStep, IInvStep DEF IInv
<1> QED BY <1>1, <1>2, WatcherInvariant, PTL DEF Spec

\* Whatever throws or crashes, a revision never counts more updates than the
\* oracle signed and recorded, and no inscription is marked orphaned without the
\* action that says so.
THEOREM WatcherMetadataBacked == Spec => []MetadataBacked
<1>1. BackedInv => MetadataBacked
      BY DEF BackedInv, Backed, Count, MetadataBacked
<1> QED BY <1>1, BackedInvariant, PTL

-----------------------------------------------------------------------------
(***************************************************************************)
(* Inscriptions at rest.  Where nothing failed, the row of an inscription  *)
(* says what the signed history says whenever no handler of its palace is  *)
(* in its section.  Two things carry that: what is left to do to the row,  *)
(* by the place of the handler that is at it (Placed), and that the lock   *)
(* serves in order, so that the update with the highest ticket is the last *)
(* one recorded (SignersServed).                                           *)
(***************************************************************************)

\* The last update of avatar a: the one whose handler had the highest ticket.
Latest(a, x) == x \in Updates(a) /\ \A y \in Updates(a) : ticket[y.fp] <= ticket[x.fp]

\* Whoever signed an action has entered the section of its palace, before
\* everybody who is still to leave it; and signed no other.
SignersServed ==
    /\ \A x \in log : x.kind # "other" =>
          /\ x.fp \in Handlers /\ lock[x.fp] \in {"critical", "done"}
          /\ lockOn[x.fp] = PalaceOf[x.target]
          /\ \A g \in Handlers \ {x.fp} :
                lock[g] \in {"waiting", "critical"} /\ lockOn[g] = PalaceOf[x.target] =>
                    ticket[x.fp] < ticket[g]
    /\ \A x, y \in log : x.kind # "other" /\ y.kind # "other" /\ x.fp = y.fp => x = y

AuditInv ==
    /\ SignersServed
    /\ \A a \in Avatars : Updates(a) # {} => \E x \in Updates(a) : Latest(a, x)

\* What the history says of an inscription.
Ledger(a) == [hash |-> AuditedHash(a), rev |-> Cardinality(Updates(a)),
              orphaned |-> Orphanings(a) # {}]

Joined(r) == r.contains /\ r.livesIn

\* A row that says what the ledger l says, its embedding apart; all of it.
Counted(r, l)  == r.present /\ r.rev = l.rev /\ (r.orphaned <=> l.orphaned)
Embedded(r, v) == r.src = v /\ r.emb = v
Bare(r, l)     == Counted(r, l) /\ Joined(r) /\ r.src = l.hash
Agrees(r, l)   == Bare(r, l) /\ r.emb = l.hash

\* A node created again with the columns that were read, its edges still to come.
Copies(r, s) ==
    /\ r.present = s.present /\ r.src = s.src /\ r.rev = s.rev /\ r.orphaned = s.orphaned

UpdateSteps == {"fresh1", "fresh2", "embed", "reembed", "triple", "link", "update"} \cup ReembedSteps

\* Where a handler is, what the row of its inscription is to what the ledger says.
Placed(place, knd, r, sn, sv, b, l) ==
    /\ place \in UpdateSteps => knd = "updated"
    /\ place = "orphan" => knd = "orphaned"
    /\ place \in {"fresh1", "fresh2", "embed", "heads", "sign", "reembed", "drop1", "finish"} =>
          Agrees(r, l)
    /\ /\ place \in (UpdateSteps \ {"fresh1", "update"}) \cup {"heads", "sign", "record"}
       /\ knd = "updated"
       => sn.rev = l.rev
    /\ place \in {"create1", "contain1", "home1"} => Agrees(sv, l)
    /\ place \in {"create2", "contain2", "home2"} => Bare(sv, l)
    /\ place \in {"contain1", "home1", "contain2", "home2"} => Copies(r, sv)
    /\ place \in {"home1", "home2"} => r.contains
    /\ place = "drop2" => Bare(r, l)
    /\ place \in {"contain2", "home2", "setsrc"} => r.emb = b
    /\ place = "setsrc" => Bare(r, l)
    /\ place \in {"triple", "link", "record"} /\ knd = "updated" =>
          Counted(r, l) /\ Joined(r) /\ Embedded(r, b)
    /\ place = "record" /\ knd = "orphaned" => Agrees(r, l)
    /\ place = "update" =>
          /\ r.present /\ (r.orphaned <=> l.orphaned) /\ Joined(r) /\ Embedded(r, b)
          /\ b = l.hash /\ sn.rev + 1 = l.rev
    /\ place = "orphan" =>
          r.present /\ r.rev = l.rev /\ l.orphaned /\ Joined(r) /\ Embedded(r, l.hash)

PlacedAt(h) == Placed(pc[h], kind[h], row[at[h]], seen[h], saved[h], bytes[h], Ledger(at[h]))

RestInv ==
    /\ \A a \in Avatars :
          (\A h \in Handlers : InSection(h) => at[h] # a) => Agrees(row[a], Ledger(a))
    /\ \A h \in Handlers : InSection(h) => PlacedAt(h)

\* The triple of an inscription is being linked, or it is linked once an update
\* of it is to be recorded.
TripleInv ==
    /\ \A a \in Avatars : /\ Updates(a) # {} => kg[a] = "linked"
                          /\ kg[a] = "node" => \E h \in Handlers : pc[h] = "link" /\ at[h] = a
    /\ \A h \in Handlers : /\ pc[h] = "link" => kg[at[h]] = "node"
                           /\ pc[h] = "record" /\ kind[h] = "updated" => kg[at[h]] = "linked"
-----------------------------------------------------------------------------
\* Only recordAction and the server's traversals add to the log.
LEMMA LogMoves ==
    ASSUME [Next]_vars
    PROVE  \/ log' = log
           \/ \E f \in Traversals : log' = log \cup {Foreign(f)}
           \/ \E h \in Handlers : RecordAction(h)
<1>1. CASE \E a \in Avatars, v \in Contents \cup {Gone} : Edit(a, v)
      BY <1>1 DEF Edit, storeVars
<1>2. CASE \E f \in Traversals : RecordTraversal(f)
      BY <1>2 DEF RecordTraversal
<1>3. CASE \E h \in Handlers, a \in Avatars : OnFileChange(h, a) \/ OnFileDelete(h, a)
      BY <1>3 DEF OnFileChange, OnFileDelete, storeVars
<1>4. ASSUME NEW h \in Handlers, HandlerStep(h)
      PROVE  log' = log \/ RecordAction(h)
  <2>1. CASE Check1(h) \/ Check2(h) \/ Enter(h) \/ Fresh1(h) \/ Fresh2(h) \/ Embed(h) \/ Heads(h)
        BY <2>1 DEF Check1, Check2, Enter, Fresh1, Fresh2, Embed, Heads, storeVars
  <2>2. CASE Sign(h) \/ Reembed(h) \/ DeleteEmbedding(h) \/ UpsertEmbedding(h) \/ SetSource(h)
        BY <2>2 DEF Sign, Reembed, DeleteEmbedding, UpsertEmbedding, SetSource, Drop, Recreate,
                    Rejoin, storeVars
  <2>3. CASE InsertTriple(h) \/ UpdateInscription(h) \/ MarkOrphaned(h) \/ Finish(h)
        BY <2>3 DEF InsertTriple, UpdateInscription, MarkOrphaned, Finish
  <2> QED BY <1>4, <2>1, <2>2, <2>3 DEF HandlerStep
<1>5. CASE \E h \in Handlers : FailStep(h)
      BY <1>5 DEF FailStep
<1>6. CASE Crash
      BY <1>6 DEF Crash
<1>7. CASE UNCHANGED vars
      BY <1>7 DEF vars, storeVars
<1> QED BY <1>1, <1>2, <1>3, <1>4, <1>5, <1>6, <1>7 DEF Next

\* A step of the lock takes nobody back before a signer, and gives no second
\* ticket to one.
LEMMA SignersKept ==
    ASSUME TypeOK, MutexP!LockInv, SignersServed, [MutexP!Next]_(MutexP!lockVars),
           \A x \in log' : x.kind = "other" \/ x \in log
    PROVE  SignersServed' /\ \A x \in log : x.kind = "other" \/ ticket'[x.fp] = ticket[x.fp]
<1> USE DEF MutexP!LockInv, MutexP!TypeOK, MutexP!LockState
<1>1. ASSUME NEW x \in log, x.kind # "other"
      PROVE  /\ x.fp \in Handlers /\ lock'[x.fp] \in {"critical", "done"}
             /\ lockOn'[x.fp] = PalaceOf[x.target] /\ ticket'[x.fp] = ticket[x.fp]
             /\ \A g \in Handlers \ {x.fp} :
                   lock'[g] \in {"waiting", "critical"} /\ lockOn'[g] = PalaceOf[x.target] =>
                       ticket'[x.fp] < ticket'[g]
  <2> DEFINE s == x.fp
             p == PalaceOf[x.target]
  <2>1. /\ s \in Handlers /\ lock[s] \in {"critical", "done"} /\ lockOn[s] = p
        /\ ticket[s] <= issued[p] /\ ticket[s] \in Nat
        /\ \A g \in Handlers \ {s} : lock[g] \in {"waiting", "critical"} /\ lockOn[g] = p =>
                                         ticket[s] < ticket[g]
        BY <1>1 DEF SignersServed, MutexP!TicketsUnique
  <2> HIDE DEF s, p
  <2> SUFFICES /\ lock'[s] \in {"critical", "done"} /\ lockOn'[s] = p /\ ticket'[s] = ticket[s]
               /\ \A g \in Handlers \ {s} :
                     lock'[g] \in {"waiting", "critical"} /\ lockOn'[g] = p => ticket'[s] < ticket'[g]
      BY <2>1 DEF s, p
  <2>2. CASE \E c \in Handlers, o \in Palaces : MutexP!Request(c, o)
        BY <2>1, <2>2 DEF MutexP!Request
  <2>3. CASE \E c \in Handlers : MutexP!Grant(c)
        BY <2>1, <2>3 DEF MutexP!Grant
  <2>4. CASE \E c \in Handlers : MutexP!Release(c)
        BY <2>1, <2>4 DEF MutexP!Release
  <2>5. CASE MutexP!Abandon
        BY <2>1, <2>5 DEF MutexP!Abandon
  <2>6. CASE UNCHANGED MutexP!lockVars
        BY <2>1, <2>6 DEF MutexP!lockVars
  <2> QED BY <2>2, <2>3, <2>4, <2>5, <2>6 DEF MutexP!Next
<1>2. \A x, y \in log' : x.kind # "other" /\ y.kind # "other" /\ x.fp = y.fp => x = y
      BY DEF SignersServed
<1> QED BY <1>1, <1>2 DEF SignersServed

\* Whoever records its action is inside, so everybody of its palace who is not
\* done asked later.
LEMMA SignersRecord ==
    ASSUME TypeOK, MutexP!LockInv, LockCoupled, BackedInv, SignersServed,
           NEW h \in Handlers, RecordAction(h)
    PROVE  SignersServed'
<1>1. /\ pc[h] = "record" /\ log' = log \cup {Signed(h)} /\ UNCHANGED <<lock, lockOn, ticket>>
      BY DEF RecordAction, Go, lockVars
<1>2. /\ lock[h] = "critical" /\ lockOn[h] = PalaceAt(h)
      BY <1>1 DEF LockCoupled, InSection, WriteSteps
<1>3. \A x \in log : x.fp # h
      BY <1>1 DEF BackedInv, Unrecorded, EndSteps
<1>4. Signed(h).fp = h /\ Signed(h).target = at[h] /\ PalaceAt(h) = PalaceOf[at[h]]
      BY DEF Signed, PalaceAt
<1>5. ASSUME NEW g \in Handlers \ {h}, lock[g] \in {"waiting", "critical"}, lockOn[g] = PalaceAt(h)
      PROVE  ticket[h] < ticket[g]
  <2>1. ~(ticket[g] < ticket[h])
        BY <1>2, <1>5 DEF MutexP!LockInv, MutexP!EarlierDone, MutexP!Earlier
  <2>2. ticket[g] # ticket[h]
        BY <1>2, <1>5 DEF MutexP!LockInv, MutexP!TicketsUnique
  <2> QED BY <2>1, <2>2 DEF MutexP!LockInv, MutexP!TypeOK
<1> QED BY <1>1, <1>2, <1>3, <1>4, <1>5 DEF SignersServed

\* There is one last update, and the hash it names is the audited one.
LEMMA HashOfLatest ==
    MutexP!LockInv /\ SignersServed =>
        \A a \in Avatars : \A x : Latest(a, x) => AuditedHash(a) = x.hash
<1> SUFFICES ASSUME MutexP!LockInv, SignersServed, NEW a \in Avatars, NEW x, Latest(a, x)
             PROVE  AuditedHash(a) = x.hash
    OBVIOUS
<1> DEFINE Last(z) == \A y \in Updates(a) : ticket[y.fp] <= ticket[z.fp]
           c == CHOOSE z \in Updates(a) : Last(z)
<1>1. x \in Updates(a) /\ Last(x)
      BY DEF Latest
<1>2. c \in Updates(a) /\ Last(c)
      BY <1>1
<1>3. AuditedHash(a) = c.hash
      BY <1>1 DEF AuditedHash
<1> HIDE DEF c
<1>4. x.fp \in Handlers /\ c.fp \in Handlers /\ ticket[x.fp] = ticket[c.fp]
  <2>1. x.fp \in Handlers /\ c.fp \in Handlers
        BY <1>1, <1>2 DEF SignersServed, Updates
  <2>2. ticket[x.fp] <= ticket[c.fp] /\ ticket[c.fp] <= ticket[x.fp]
        BY <1>1, <1>2
  <2> QED BY <2>1, <2>2 DEF MutexP!LockInv, MutexP!TypeOK
<1>5. /\ lock[x.fp] # "idle" /\ lock[c.fp] # "idle" /\ lockOn[x.fp] = lockOn[c.fp]
      /\ x \in log /\ c \in log /\ x.kind # "other" /\ c.kind # "other"
      BY <1>1, <1>2 DEF SignersServed, Updates
<1>6. x.fp = c.fp
      BY <1>4, <1>5 DEF MutexP!LockInv, MutexP!TicketsUnique
<1>7. x = c
      BY <1>5, <1>6 DEF SignersServed
<1> QED BY <1>3, <1>7

\* The same of the next state.
LEMMA HashOfNext ==
    (MutexP!LockInv /\ SignersServed =>
        \A a \in Avatars : \A x : Latest(a, x) => AuditedHash(a) = x.hash)'
BY HashOfLatest, PTL

\* What the argument needs of the state, besides the row itself.
RestFacts ==
    /\ TypeOK /\ MutexP!LockInv /\ LockCoupled /\ WritersExcluded
    /\ BackedInv /\ AuditInv

\* The actions of an inscription stay, and so do their tickets: so does what its
\* ledger says.
LEMMA LedgerKept ==
    ASSUME RestFacts, MutexP!LockInv', SignersServed', NEW a \in Avatars,
           \A x \in log : x.kind = "other" \/ ticket'[x.fp] = ticket[x.fp],
           Updates(a)' = Updates(a), Orphanings(a)' = Orphanings(a)
    PROVE  Ledger(a)' = Ledger(a) /\ (Updates(a)' # {} => \E x \in Updates(a)' : Latest(a, x)')
<1>1. \A x \in Updates(a) : ticket'[x.fp] = ticket[x.fp]
      BY DEF Updates
<1>2. AuditedHash(a)' = AuditedHash(a) /\ (Updates(a)' # {} => \E x \in Updates(a)' : Latest(a, x)')
  <2>1. CASE Updates(a) = {}
        BY <2>1 DEF AuditedHash
  <2>2. CASE Updates(a) # {}
    <3>1. PICK x \in Updates(a) : Latest(a, x)
          BY <2>2 DEF RestFacts, AuditInv
    <3>2. Latest(a, x)'
          BY <1>1, <3>1 DEF Latest
    <3>3. AuditedHash(a) = x.hash
          BY <3>1, HashOfLatest DEF RestFacts, AuditInv
    <3>4. AuditedHash(a)' = x.hash
          BY <3>2, HashOfNext
    <3> QED BY <3>1, <3>2, <3>3, <3>4
  <2> QED BY <2>1, <2>2
<1> QED BY <1>2 DEF Ledger

\* A step that records no action leaves every ledger as it is.
LEMMA LedgersKept ==
    ASSUME RestFacts, IInv', [Next]_vars,
           log' = log \/ \E f \in Traversals : log' = log \cup {Foreign(f)}
    PROVE  /\ AuditInv'
           /\ \A a \in Avatars : /\ Ledger(a)' = Ledger(a)
                                 /\ Updates(a)' = Updates(a) /\ Orphanings(a)' = Orphanings(a)
<1>2. \A f : Foreign(f).kind = "other"
      BY DEF Foreign
<1>3. (\A x \in log' : x.kind = "other" \/ x \in log)
      /\ \A a : Updates(a)' = Updates(a) /\ Orphanings(a)' = Orphanings(a)
      BY <1>2 DEF Updates, Orphanings
<1>4. [MutexP!Next]_(MutexP!lockVars)
      BY LockStep DEF RestFacts
<1>5. SignersServed' /\ \A x \in log : x.kind = "other" \/ ticket'[x.fp] = ticket[x.fp]
      BY <1>3, <1>4, SignersKept DEF RestFacts, AuditInv
<1>6. \A a \in Avatars : /\ Ledger(a)' = Ledger(a)
                         /\ Updates(a)' # {} => \E x \in Updates(a)' : Latest(a, x)'
      BY <1>3, <1>5, LedgerKept DEF IInv
<1> QED BY <1>3, <1>5, <1>6 DEF AuditInv

\* The recorded action is the last of its inscription: the ledger of an update
\* names its content and counts it; that of an orphaning says so.
LEMMA LedgerRecords ==
    ASSUME RestFacts, IInv', NEW h \in Handlers, RecordAction(h)
    PROVE  /\ AuditInv'
           /\ \A a \in Avatars \ {at[h]} : Ledger(a)' = Ledger(a) /\ Updates(a)' = Updates(a)
           /\ \A a \in Avatars : a = at[h] /\ kind[h] = "updated" =>
                 Ledger(a)' = [hash |-> bytes[h], rev |-> Ledger(a).rev + 1,
                               orphaned |-> Ledger(a).orphaned]
           /\ \A a \in Avatars : a = at[h] /\ kind[h] = "orphaned" =>
                 /\ Ledger(a)' = [hash |-> Ledger(a).hash, rev |-> Ledger(a).rev, orphaned |-> TRUE]
                 /\ Updates(a)' = Updates(a)
<1>0. PICK s, b : s = Signed(h) /\ b = at[h]
      OBVIOUS
<1>1. /\ pc[h] = "record" /\ log' = log \cup {s} /\ UNCHANGED <<lock, lockOn, ticket>>
      /\ b \in Avatars /\ kind[h] \in {"updated", "orphaned"}
      BY <1>0 DEF RecordAction, Go, lockVars, RestFacts, TypeOK
<1>2. /\ s.fp = h /\ s.target = b /\ s.kind = kind[h] /\ (kind[h] = "updated" => s.hash = bytes[h])
      BY <1>0 DEF Signed
<1>3. SignersServed' /\ MutexP!LockInv'
      BY SignersRecord DEF RestFacts, AuditInv, IInv
<1>4. /\ lock[h] = "critical" /\ lockOn[h] = PalaceOf[b] /\ \A x \in log : x.fp # h
      BY <1>0, <1>1 DEF RestFacts, LockCoupled, InSection, WriteSteps, BackedInv, Unrecorded, EndSteps, PalaceAt
<1>5. s \notin log
      BY <1>2, <1>4
<1>6. \A a : /\ Updates(a)' = IF kind[h] = "updated" /\ a = b THEN Updates(a) \cup {s} ELSE Updates(a)
             /\ Orphanings(a)' = IF kind[h] = "orphaned" /\ a = b THEN Orphanings(a) \cup {s}
                                 ELSE Orphanings(a)
      BY <1>1, <1>2 DEF Updates, Orphanings
<1>7. ASSUME NEW a \in Avatars, a # b \/ kind[h] = "orphaned"
      PROVE  /\ Updates(a)' = Updates(a) /\ AuditedHash(a)' = AuditedHash(a)
             /\ Updates(a)' # {} => \E x \in Updates(a)' : Latest(a, x)'
  <2>1. Updates(a)' = Updates(a)
        BY <1>1, <1>6, <1>7
  <2>2. CASE Updates(a) = {}
        BY <2>1, <2>2 DEF AuditedHash
  <2>3. CASE Updates(a) # {}
    <3>1. PICK x \in Updates(a) : Latest(a, x)
          BY <2>3 DEF RestFacts, AuditInv
    <3>2. Latest(a, x)'
          BY <1>1, <2>1, <3>1 DEF Latest
    <3>3. AuditedHash(a) = x.hash /\ AuditedHash(a)' = x.hash
          BY <1>3, <3>1, <3>2, HashOfLatest, HashOfNext DEF RestFacts, AuditInv
    <3> QED BY <2>1, <3>1, <3>2, <3>3
  <2> QED BY <2>2, <2>3
<1>8. ASSUME kind[h] = "updated"
      PROVE  /\ s \in Updates(b)' /\ Latest(b, s)' /\ AuditedHash(b)' = bytes[h]
             /\ Cardinality(Updates(b))' = Cardinality(Updates(b)) + 1
             /\ Orphanings(b)' = Orphanings(b)
  <2>1. Updates(b)' = Updates(b) \cup {s} /\ Orphanings(b)' = Orphanings(b)
        BY <1>6, <1>8
  <2>2. ASSUME NEW y \in Updates(b) PROVE ticket[y.fp] <= ticket[h]
    <3>1. y \in log /\ y.kind # "other" /\ y.target = b
          BY DEF Updates
    <3>2. y.fp \in Handlers /\ ticket[y.fp] < ticket[h]
          BY <1>4, <3>1 DEF RestFacts, AuditInv, SignersServed
    <3> QED BY <3>2 DEF RestFacts, MutexP!LockInv, MutexP!TypeOK
  <2>3. ticket[h] \in Nat
        BY DEF RestFacts, MutexP!LockInv, MutexP!TypeOK
  <2>4. s \in Updates(b)' /\ Latest(b, s)'
        BY <1>1, <1>2, <2>1, <2>2, <2>3 DEF Latest
  <2>5. AuditedHash(b)' = bytes[h]
        BY <1>1, <1>2, <1>3, <1>8, <2>4, HashOfNext
  <2>6. s \notin Updates(b) /\ IsFiniteSet(Updates(b))
        BY <1>1, <1>5 DEF RestFacts, BackedInv, Updates
  <2>7. Cardinality(Updates(b) \cup {s}) = Cardinality(Updates(b)) + 1
        BY <2>6, FS_AddElement
  <2> QED BY <2>1, <2>4, <2>5, <2>7
<1>9. AuditInv'
      BY <1>1, <1>3, <1>7, <1>8 DEF AuditInv
<1>10. \A a \in Avatars \ {b} : Ledger(a)' = Ledger(a) /\ Updates(a)' = Updates(a)
      BY <1>6, <1>7 DEF Ledger
<1>11. kind[h] = "updated" =>
          Ledger(b)' = [hash |-> bytes[h], rev |-> Ledger(b).rev + 1, orphaned |-> Ledger(b).orphaned]
      BY <1>8 DEF Ledger
<1>12. kind[h] = "orphaned" =>
          /\ Ledger(b)' = [hash |-> Ledger(b).hash, rev |-> Ledger(b).rev, orphaned |-> TRUE]
          /\ Updates(b)' = Updates(b)
  <2> SUFFICES ASSUME kind[h] = "orphaned"
               PROVE  /\ Ledger(b)' = [hash |-> Ledger(b).hash, rev |-> Ledger(b).rev, orphaned |-> TRUE]
                      /\ Updates(b)' = Updates(b)
      OBVIOUS
  <2>1. /\ Updates(b)' = Updates(b) /\ AuditedHash(b)' = AuditedHash(b) /\ (Orphanings(b)' # {}) = TRUE
        BY <1>1, <1>6, <1>7
  <2> QED BY <2>1 DEF Ledger
<1> QED BY <1>0, <1>9, <1>10, <1>11, <1>12

-----------------------------------------------------------------------------
\* A handler that stays outside its section changes nothing that counts.
LEMMA RestOutside ==
    ASSUME TypeOK, RestInv, UNCHANGED row, \A a \in Avatars : Ledger(a)' = Ledger(a),
           \A g \in Handlers :
               /\ InSection(g)' <=> InSection(g)
               /\ InSection(g) => UNCHANGED <<pc[g], kind[g], at[g], seen[g], saved[g], bytes[g]>>
    PROVE  RestInv'
<1>1. \A g \in Handlers : at[g] \in Avatars
      BY DEF TypeOK
<1>2. ASSUME NEW g \in Handlers, InSection(g)'
      PROVE  PlacedAt(g)'
      BY <1>1, <1>2 DEF RestInv, PlacedAt
<1>3. ASSUME NEW a \in Avatars, \A g \in Handlers : InSection(g)' => at'[g] # a
      PROVE  Agrees(row'[a], Ledger(a)')
      BY <1>3 DEF RestInv
<1> QED BY <1>2, <1>3 DEF RestInv

\* A handler enters, works in or leaves its section: the row it is at is its own.
LEMMA RestMoves ==
    ASSUME TypeOK, WritersExcluded, WritersExcluded', RestInv, NEW h \in Handlers, NEW to \in Steps,
           pc' = [pc EXCEPT ![h] = to], UNCHANGED <<kind, at>>,
           \A g \in Handlers \ {h} : UNCHANGED <<seen[g], saved[g], bytes[g]>>,
           \A a \in Avatars \ {at[h]} : row'[a] = row[a] /\ Ledger(a)' = Ledger(a),
           InSection(h) \/ to \in LockedSteps,
           to \in LockedSteps \cup WriteSteps =>
               Placed(to, kind[h], row'[at[h]], seen'[h], saved'[h], bytes'[h], Ledger(at[h])'),
           to \notin LockedSteps \cup WriteSteps => Agrees(row'[at[h]], Ledger(at[h])')
    PROVE  RestInv'
<1>1. /\ \A g \in Handlers : at[g] \in Avatars
      /\ pc'[h] = to /\ \A g \in Handlers \ {h} : pc'[g] = pc[g]
      BY DEF TypeOK
<1>2. /\ InSection(h)' <=> to \in LockedSteps \cup WriteSteps
      /\ \A g \in Handlers \ {h} : InSection(g)' <=> InSection(g)
      BY <1>1 DEF InSection
<1>3. ASSUME NEW g \in Handlers \ {h}, InSection(g)
      PROVE  at[g] # at[h]
      BY <1>2, <1>3 DEF WritersExcluded, PalaceAt
<1>4. ASSUME NEW g \in Handlers, InSection(g)'
      PROVE  PlacedAt(g)'
  <2>1. CASE g = h
        BY <1>1, <1>2, <1>4, <2>1 DEF PlacedAt
  <2>2. CASE g # h
        BY <1>1, <1>2, <1>3, <1>4, <2>2 DEF RestInv, PlacedAt
  <2> QED BY <2>1, <2>2
<1>5. ASSUME NEW a \in Avatars, \A g \in Handlers : InSection(g)' => at'[g] # a
      PROVE  Agrees(row'[a], Ledger(a)')
  <2>1. CASE a = at[h]
        BY <1>2, <1>5, <2>1
  <2>2. CASE a # at[h]
        BY <1>2, <1>5, <2>2 DEF RestInv
  <2> QED BY <2>1, <2>2
<1> QED BY <1>4, <1>5 DEF RestInv


\* The same of a step that records nothing.
LEMMA RestGoes ==
    ASSUME RestFacts, IInv', [Next]_vars, RestInv, log' = log, NEW h \in Handlers, NEW to \in Steps,
           pc' = [pc EXCEPT ![h] = to], UNCHANGED <<kind, at>>,
           \A g \in Handlers \ {h} : UNCHANGED <<seen[g], saved[g], bytes[g]>>,
           \A a \in Avatars \ {at[h]} : row'[a] = row[a],
           InSection(h) \/ to \in LockedSteps,
           to \in LockedSteps \cup WriteSteps =>
               Placed(to, kind[h], row'[at[h]], seen'[h], saved'[h], bytes'[h], Ledger(at[h])),
           to \notin LockedSteps \cup WriteSteps => Agrees(row'[at[h]], Ledger(at[h]))
    PROVE  RestInv'
<1>1. /\ TypeOK /\ WritersExcluded /\ WritersExcluded' /\ at[h] \in Avatars
  <2>1. (LockCoupled /\ MutexP!LockInv => WritersExcluded)'
        BY SectionsExclude, PTL
  <2> QED BY <2>1 DEF RestFacts, IInv, TypeOK
<1>2. \A a \in Avatars : Ledger(a)' = Ledger(a)
      BY LedgersKept
<1>3. Ledger(at[h])' = Ledger(at[h])
      BY <1>1, <1>2
<1> QED BY <1>1, <1>2, <1>3, RestMoves

\* A handler that enters finds the row at rest.
LEMMA RestEnters ==
    ASSUME RestFacts, IInv', [Next]_vars, RestInv, NEW h \in Handlers, Enter(h)
    PROVE  RestInv'
<1> DEFINE to == IF kind[h] = "updated" THEN "fresh1" ELSE "heads"
           l == Ledger(at[h])
<1>1. /\ pc[h] = "waiting" /\ pc' = [pc EXCEPT ![h] = to]
      /\ UNCHANGED <<row, log, kind, at, seen, saved, bytes>>
      /\ at[h] \in Avatars /\ kind[h] \in {"updated", "orphaned"} /\ pc \in [Handlers -> Steps]
      BY DEF Enter, Go, storeVars, handlerVars, RestFacts, TypeOK
<1>2. to \in {"fresh1", "heads"} /\ to \in Steps /\ to \in LockedSteps
      BY DEF Steps, LockedSteps
<1>3. ASSUME NEW g \in Handlers, InSection(g)
      PROVE  at[g] # at[h]
  <2>1. g # h
        BY <1>1, <1>3 DEF InSection, LockedSteps, WriteSteps, ReembedSteps
  <2>2. InSection(g)' /\ InSection(h)'
        BY <1>1, <1>2, <1>3, <2>1 DEF InSection
  <2>3. (LockCoupled /\ MutexP!LockInv => WritersExcluded)'
        BY SectionsExclude, PTL
  <2>4. PalaceAt(g)' # PalaceAt(h)'
        BY <2>1, <2>2, <2>3 DEF IInv, WritersExcluded
  <2> QED BY <1>1, <2>4 DEF PalaceAt
<1>4. Agrees(row[at[h]], l)
      BY <1>1, <1>3 DEF RestInv
<1> HIDE DEF l
<1>5. kind[h] # "updated" => to = "heads"
      OBVIOUS
<1>6. kind[h] = "updated" => to = "fresh1"
      OBVIOUS
<1> HIDE DEF to
<1>7. Placed(to, kind[h], row[at[h]], seen[h], saved[h], bytes[h], l)
      BY <1>1, <1>2, <1>4, <1>5, <1>6 DEF Placed, UpdateSteps, ReembedSteps
<1> QED BY <1>1, <1>2, <1>7, RestGoes DEF l

\* What a handler in its section knows of its row.
LEMMA RestPlaced ==
    ASSUME RestFacts, RestInv, NEW h \in Handlers, pc[h] \in LockedSteps \cup WriteSteps
    PROVE  /\ Placed(pc[h], kind[h], row[at[h]], seen[h], saved[h], bytes[h], Ledger(at[h]))
           /\ InSection(h) /\ at[h] \in Avatars /\ row[at[h]] \in Row /\ saved[h] \in Row
           /\ seen[h] \in Row /\ kind[h] \in {"updated", "orphaned"}
BY DEF RestInv, PlacedAt, InSection, RestFacts, TypeOK

\* Reading the row, the palace's heads, and the service's answer.
LEMMA RestReads ==
    ASSUME RestFacts, IInv', [Next]_vars, RestInv, NEW h \in Handlers,
           Fresh1(h) \/ Fresh2(h) \/ Embed(h) \/ Heads(h) \/ Sign(h)
    PROVE  RestInv'
<1> DEFINE r == row[at[h]]
           l == Ledger(at[h])
<1>0. /\ pc[h] \in {"fresh1", "fresh2", "embed", "heads", "sign"}
      /\ pc[h] \in LockedSteps \cup WriteSteps
      BY DEF Fresh1, Fresh2, Embed, Heads, Sign, Go, LockedSteps
<1>1. /\ Placed(pc[h], kind[h], r, seen[h], saved[h], bytes[h], l) /\ InSection(h)
      /\ seen \in [Handlers -> Row] /\ kind[h] \in {"updated", "orphaned"}
      BY <1>0, RestPlaced DEF RestFacts, TypeOK
<1>2. Agrees(r, l) /\ r.present
      BY <1>0, <1>1 DEF Placed, Agrees, Bare, Counted
<1>3. UNCHANGED <<row, log, kind, at>>
      BY DEF Fresh1, Fresh2, Embed, Heads, Sign, Untouched, storeVars, handlerVars, Leave, ForgetLocals
<1> HIDE DEF r, l
<1>4. ASSUME NEW to \in {"threw", "unreachable"}, pc' = [pc EXCEPT ![h] = to], ForgetLocals(h)
      PROVE  RestInv'
  <2>1. to \in Steps /\ to \notin LockedSteps \cup WriteSteps
        BY DEF Steps, EndSteps, LockedSteps, WriteSteps, ReembedSteps
  <2>2. \A g \in Handlers \ {h} : UNCHANGED <<seen[g], saved[g], bytes[g]>>
        BY <1>4 DEF ForgetLocals, RestFacts, TypeOK
  <2> QED BY <1>1, <1>2, <1>3, <1>4, <2>1, <2>2, RestGoes DEF r, l
<1>5. ASSUME NEW to \in {"fresh2", "embed", "heads", "sign", "reembed", "record"},
             pc' = [pc EXCEPT ![h] = to], UNCHANGED <<saved, bytes>>,
             \A g \in Handlers \ {h} : UNCHANGED seen[g],
             Placed(to, kind[h], r, seen'[h], saved[h], bytes[h], l)
      PROVE  RestInv'
  <2>1. to \in Steps /\ to \in LockedSteps \cup WriteSteps
        BY DEF Steps, LockedSteps, WriteSteps
  <2> QED BY <1>1, <1>3, <1>5, <2>1, RestGoes DEF r, l
<1>6. CASE Fresh1(h)
  <2>1. /\ pc[h] = "fresh1" /\ pc' = [pc EXCEPT ![h] = "fresh2"] /\ UNCHANGED <<saved, bytes>>
        /\ seen'[h] = r /\ \A g \in Handlers \ {h} : UNCHANGED seen[g]
        BY <1>1, <1>2, <1>6 DEF Fresh1, Go, r
  <2>2. r.rev = l.rev
        BY <1>2 DEF Agrees, Bare, Counted
  <2>3. Placed("fresh2", kind[h], r, r, saved[h], bytes[h], l)
        BY <1>1, <1>2, <2>1, <2>2 DEF Placed, UpdateSteps, ReembedSteps
  <2> QED BY <1>5, <2>1, <2>3
<1>7. CASE Fresh2(h)
  <2>1. CASE pc' = [pc EXCEPT ![h] = "embed"] /\ UNCHANGED handlerVars
    <3>1. pc[h] = "fresh2"
          BY <1>7 DEF Fresh2, Go
    <3>2. Placed("embed", kind[h], r, seen[h], saved[h], bytes[h], l)
          BY <1>1, <1>2, <3>1 DEF Placed, UpdateSteps, ReembedSteps
    <3> QED BY <1>5, <2>1, <3>2 DEF handlerVars
  <2>2. CASE pc' = [pc EXCEPT ![h] = "threw"] /\ Leave(h)
        BY <1>4, <2>2 DEF Leave
  <2> QED BY <1>7, <2>1, <2>2 DEF Fresh2, Go
<1>8. CASE Embed(h)
  <2>1. CASE pc' = [pc EXCEPT ![h] = "heads"] /\ UNCHANGED handlerVars
    <3>1. pc[h] = "embed"
          BY <1>8 DEF Embed, Go
    <3>2. Placed("heads", kind[h], r, seen[h], saved[h], bytes[h], l)
          BY <1>1, <1>2, <3>1 DEF Placed, UpdateSteps, ReembedSteps
    <3> QED BY <1>5, <2>1, <3>2 DEF handlerVars
  <2>2. CASE (\E to \in {"unreachable", "threw"} : pc' = [pc EXCEPT ![h] = to]) /\ Leave(h)
        BY <1>4, <2>2 DEF Leave
  <2> QED BY <1>8, <2>1, <2>2 DEF Embed, Go
<1>9. CASE Heads(h)
  <2>1. /\ pc[h] = "heads" /\ pc' = [pc EXCEPT ![h] = "sign"] /\ UNCHANGED <<seen, saved, bytes>>
        BY <1>9 DEF Heads, Go
  <2>2. Placed("sign", kind[h], r, seen[h], saved[h], bytes[h], l)
        BY <1>1, <1>2, <2>1 DEF Placed, UpdateSteps, ReembedSteps
  <2> QED BY <1>5, <2>1, <2>2
<1>10. CASE Sign(h)
  <2>1. /\ pc[h] = "sign" /\ UNCHANGED <<seen, saved, bytes>>
        /\ pc' = [pc EXCEPT ![h] = IF kind[h] = "updated" THEN "reembed" ELSE "record"]
        BY <1>10 DEF Sign, Go
  <2>2. CASE kind[h] = "updated"
    <3>1. Placed("reembed", kind[h], r, seen[h], saved[h], bytes[h], l)
          BY <1>1, <1>2, <2>1, <2>2 DEF Placed, UpdateSteps, ReembedSteps
    <3> QED BY <1>5, <2>1, <2>2, <3>1
  <2>3. CASE kind[h] # "updated"
    <3>1. Placed("record", kind[h], r, seen[h], saved[h], bytes[h], l)
          BY <1>1, <1>2, <2>1, <2>3 DEF Placed, UpdateSteps, ReembedSteps
    <3> QED BY <1>5, <2>1, <2>3, <3>1
  <2> QED BY <2>2, <2>3
<1> QED BY <1>6, <1>7, <1>8, <1>9, <1>10

\* The steps that only move on, or leave with the row at rest.
LEMMA RestPasses ==
    ASSUME RestFacts, IInv', [Next]_vars, RestInv, NEW h \in Handlers,
           Reembed(h) \/ InsertTriple(h) \/ Finish(h)
    PROVE  RestInv'
<1> DEFINE r == row[at[h]]
           l == Ledger(at[h])
<1>0. /\ pc[h] \in {"reembed", "triple", "link", "finish"}
      /\ pc[h] \in LockedSteps \cup WriteSteps
      BY DEF Reembed, InsertTriple, Finish, Go, WriteSteps
<1>1. /\ Placed(pc[h], kind[h], r, seen[h], saved[h], bytes[h], l) /\ InSection(h)
      /\ kind[h] \in {"updated", "orphaned"}
      BY <1>0, RestPlaced
<1>2. UNCHANGED <<row, log, kind, at>>
      BY DEF Reembed, InsertTriple, Finish, storeVars, handlerVars, Leave, ForgetLocals
<1> HIDE DEF r, l
<1>3. ASSUME NEW to \in {"triple", "drop1", "link", "record"}, pc' = [pc EXCEPT ![h] = to],
             UNCHANGED <<seen, saved, bytes>>,
             Placed(to, kind[h], r, seen[h], saved[h], bytes[h], l)
      PROVE  RestInv'
  <2>1. to \in Steps /\ to \in LockedSteps \cup WriteSteps
        BY DEF Steps, WriteSteps, ReembedSteps
  <2> QED BY <1>1, <1>2, <1>3, <2>1, RestGoes DEF r, l
<1>4. CASE Reembed(h)
  <2>1. /\ pc[h] = "reembed" /\ UNCHANGED <<seen, saved, bytes>>
        /\ pc' = [pc EXCEPT ![h] = IF ~r.present \/ r.src = bytes[h] THEN "triple" ELSE "drop1"]
        BY <1>4 DEF Reembed, Go, handlerVars, r
  <2>2. Agrees(r, l) /\ r.present /\ r.src = l.hash /\ r.emb = l.hash
        BY <1>1, <2>1 DEF Placed, Agrees, Bare, Counted
  <2>3. CASE r.src = bytes[h]
    <3>1. Placed("triple", kind[h], r, seen[h], saved[h], bytes[h], l)
          BY <1>1, <2>1, <2>2, <2>3
          DEF Placed, UpdateSteps, ReembedSteps, Agrees, Bare, Embedded
    <3> QED BY <1>3, <2>1, <2>3, <3>1
  <2>4. CASE r.src # bytes[h]
    <3>1. Placed("drop1", kind[h], r, seen[h], saved[h], bytes[h], l)
          BY <1>1, <2>1, <2>2 DEF Placed, UpdateSteps, ReembedSteps
    <3> QED BY <1>3, <2>1, <2>2, <2>4, <3>1
  <2> QED BY <2>3, <2>4
<1>5. CASE InsertTriple(h)
  <2>1. /\ pc[h] \in {"triple", "link"} /\ UNCHANGED <<seen, saved, bytes>>
        BY <1>5 DEF InsertTriple, Go, handlerVars
  <2>2. PICK to \in {"link", "record"} : pc' = [pc EXCEPT ![h] = to]
        BY <1>5 DEF InsertTriple, Go
  <2>3. /\ kind[h] = "updated" /\ Counted(r, l) /\ Joined(r) /\ Embedded(r, bytes[h])
        /\ seen[h].rev = l.rev
        BY <1>1, <2>1 DEF Placed, UpdateSteps
  <2>4. Placed(to, kind[h], r, seen[h], saved[h], bytes[h], l)
        BY <2>3 DEF Placed, UpdateSteps, ReembedSteps
  <2> QED BY <1>3, <2>1, <2>2, <2>4
<1>6. CASE Finish(h)
  <2>1. /\ pc[h] = "finish" /\ pc' = [pc EXCEPT ![h] = "done"] /\ ForgetLocals(h)
        BY <1>6 DEF Finish, Go, Leave
  <2>2. Agrees(r, l)
        BY <1>1, <2>1 DEF Placed
  <2>3. "done" \in Steps /\ "done" \notin LockedSteps \cup WriteSteps
        BY DEF Steps, EndSteps, LockedSteps, WriteSteps, ReembedSteps
  <2>4. \A g \in Handlers \ {h} : UNCHANGED <<seen[g], saved[g], bytes[g]>>
        BY <2>1 DEF ForgetLocals, RestFacts, TypeOK
  <2> QED BY <1>1, <1>2, <2>1, <2>2, <2>3, <2>4, RestGoes DEF r, l
<1> QED BY <1>4, <1>5, <1>6

\* What Recreate makes of a row.
LEMMA RowRecreated ==
    ASSUME NEW s \in Row, NEW e, NEW x,
           x = [s EXCEPT !.emb = e, !.contains = FALSE, !.livesIn = FALSE]
    PROVE  Copies(x, s) /\ x.emb = e
BY DEF Row, Copies

\* reembed drops the row and creates it again, twice: with the columns that were
\* read, then with the new embedding, and each time joins it to what it was.
LEMMA RestReembeds ==
    ASSUME RestFacts, IInv', [Next]_vars, RestInv, NEW h \in Handlers,
           DeleteEmbedding(h) \/ UpsertEmbedding(h) \/ SetSource(h)
    PROVE  RestInv'
<1> DEFINE r == row[at[h]]
           s == saved[h]
           l == Ledger(at[h])
<1>0. /\ pc[h] \in ReembedSteps /\ pc[h] \in LockedSteps \cup WriteSteps
      BY DEF DeleteEmbedding, UpsertEmbedding, SetSource, Drop, Recreate, Rejoin, Go, WriteSteps,
             ReembedSteps
<1>1. /\ Placed(pc[h], kind[h], r, seen[h], s, bytes[h], l) /\ InSection(h)
      /\ r \in Row /\ s \in Row /\ at[h] \in Avatars /\ row \in [Avatars -> Row]
      /\ saved \in [Handlers -> Row]
      BY <1>0, RestPlaced DEF RestFacts, TypeOK
<1>2. /\ UNCHANGED <<log, kind, at, seen, bytes>>
      BY DEF DeleteEmbedding, UpsertEmbedding, SetSource, Drop, Recreate, Rejoin, Untouched
<1>3. kind[h] = "updated" /\ seen[h].rev = l.rev
      BY <1>0, <1>1 DEF Placed, UpdateSteps, ReembedSteps
<1> HIDE DEF l
<1>4. ASSUME NEW to \in ReembedSteps \cup {"triple"}, pc' = [pc EXCEPT ![h] = to],
             \A g \in Handlers \ {h} : UNCHANGED saved[g],
             \A a \in Avatars \ {at[h]} : row'[a] = row[a],
             Placed(to, "updated", row'[at[h]], seen[h], saved'[h], bytes[h], l)
      PROVE  RestInv'
  <2>1. to \in Steps /\ to \in LockedSteps \cup WriteSteps
        BY DEF Steps, WriteSteps, ReembedSteps
  <2> QED BY <1>1, <1>2, <1>3, <1>4, <2>1, RestGoes DEF l
<1>5. ASSUME NEW from, NEW to, Drop(h, from, to)
      PROVE  /\ pc[h] = from /\ pc' = [pc EXCEPT ![h] = to] /\ saved'[h] = r
             /\ \A g \in Handlers \ {h} : UNCHANGED saved[g]
             /\ \A a \in Avatars \ {at[h]} : row'[a] = row[a]
      BY <1>1, <1>5 DEF Drop, Go
<1>6. ASSUME NEW from, NEW to, NEW e, Recreate(h, from, to, e)
      PROVE  /\ pc[h] = from /\ pc' = [pc EXCEPT ![h] = to] /\ UNCHANGED saved
             /\ \A a \in Avatars \ {at[h]} : row'[a] = row[a]
             /\ Copies(row'[at[h]], s) /\ row'[at[h]].emb = e
  <2>1. row' = [row EXCEPT ![at[h]] =
                   [s EXCEPT !.emb = e, !.contains = FALSE, !.livesIn = FALSE]]
        BY <1>6 DEF Recreate
  <2>2. row'[at[h]] = [s EXCEPT !.emb = e, !.contains = FALSE, !.livesIn = FALSE]
        BY <1>1, <2>1
  <2>3. Copies(row'[at[h]], s) /\ row'[at[h]].emb = e
        BY <1>1, <2>2, RowRecreated
  <2> QED BY <1>1, <1>6, <2>1, <2>3 DEF Recreate, Go
<1>7. ASSUME NEW from, NEW to, NEW b \in BOOLEAN, NEW c \in BOOLEAN, Rejoin(h, from, to, b, c)
      PROVE  /\ pc[h] = from /\ pc' = [pc EXCEPT ![h] = to] /\ UNCHANGED saved
             /\ \A a \in Avatars \ {at[h]} : row'[a] = row[a]
             /\ row'[at[h]].present = r.present /\ row'[at[h]].src = r.src
             /\ row'[at[h]].rev = r.rev /\ row'[at[h]].orphaned = r.orphaned
             /\ row'[at[h]].emb = r.emb
             /\ row'[at[h]].contains = (r.contains \/ (b /\ s.contains))
             /\ row'[at[h]].livesIn = (r.livesIn \/ (c /\ s.livesIn))
  <2>1. PICK t, u : t = r /\ u = s
        OBVIOUS
  <2>2. row' = [row EXCEPT ![at[h]].contains = (@ \/ (b /\ u.contains)),
                           ![at[h]].livesIn = (@ \/ (c /\ u.livesIn))]
        BY <1>7, <2>1 DEF Rejoin
  <2>3. PICK y, z : y = (t.contains \/ (b /\ u.contains)) /\ z = (t.livesIn \/ (c /\ u.livesIn))
        OBVIOUS
  <2>4. y \in BOOLEAN /\ z \in BOOLEAN /\ t \in Row /\ u \in Row
        BY <1>1, <2>1, <2>3 DEF Row
  <2>5. PICK m, q : m = [t EXCEPT !.contains = y] /\ q = [row EXCEPT ![at[h]] = m]
        OBVIOUS
  <2>6. row' = [q EXCEPT ![at[h]] = [q[at[h]] EXCEPT !.livesIn = z]]
        BY <2>1, <2>2, <2>3, <2>5
  <2>7. q \in [Avatars -> Row] /\ q[at[h]] = m /\ m \in Row
        BY <1>1, <2>4, <2>5 DEF Row
  <2>8. row'[at[h]] = [m EXCEPT !.livesIn = z]
        BY <1>1, <2>6, <2>7
  <2>9. [m EXCEPT !.livesIn = z] = [t EXCEPT !.contains = y, !.livesIn = z]
        BY <2>4, <2>5 DEF Row
  <2>10. /\ \A a \in Avatars \ {at[h]} : row'[a] = row[a]
         /\ pc[h] = from /\ pc' = [pc EXCEPT ![h] = to] /\ UNCHANGED saved
        BY <1>1, <1>7, <2>2 DEF Rejoin, Go
  <2>11. PICK j : j = row'[at[h]]
         OBVIOUS
  <2>12. j = [t EXCEPT !.contains = y, !.livesIn = z]
         BY <2>8, <2>9, <2>11
  <2>13. /\ j.present = t.present /\ j.src = t.src /\ j.rev = t.rev
         /\ j.orphaned = t.orphaned /\ j.emb = t.emb /\ j.contains = y /\ j.livesIn = z
         BY <2>4, <2>12 DEF Row
  <2> QED BY <2>1, <2>3, <2>10, <2>11, <2>13
<1> HIDE DEF r, s
<1>8. CASE DeleteEmbedding(h)
  <2>1. CASE Drop(h, "drop1", "create1")
    <3>1. Placed("create1", "updated", row'[at[h]], seen[h], r, bytes[h], l)
          BY <1>1, <1>3, <1>5, <2>1 DEF Placed, UpdateSteps, ReembedSteps
    <3> QED BY <1>4, <1>5, <2>1, <3>1 DEF ReembedSteps
  <2>2. CASE Recreate(h, "create1", "contain1", NoContent)
    <3>1. Placed("contain1", "updated", row'[at[h]], seen[h], s, bytes[h], l)
          BY <1>1, <1>3, <1>6, <2>2 DEF Placed, UpdateSteps, ReembedSteps
    <3> QED BY <1>4, <1>6, <2>2, <3>1 DEF ReembedSteps, s
  <2>3. CASE Rejoin(h, "contain1", "home1", TRUE, FALSE)
    <3>1. s.contains
          BY <1>1, <1>7, <2>3 DEF Placed, Agrees, Bare, Joined
    <3>2. Placed("home1", "updated", row'[at[h]], seen[h], s, bytes[h], l)
          BY <1>1, <1>3, <1>7, <2>3, <3>1 DEF Placed, UpdateSteps, ReembedSteps, Copies
    <3> QED BY <1>4, <1>7, <2>3, <3>2 DEF ReembedSteps, s
  <2>4. CASE Rejoin(h, "home1", "drop2", FALSE, TRUE)
    <3>1. Bare(row'[at[h]], l)
          BY <1>1, <1>7, <2>4 DEF Placed, Agrees, Bare, Counted, Joined, Copies
    <3>2. Placed("drop2", "updated", row'[at[h]], seen[h], s, bytes[h], l)
          BY <1>1, <1>3, <3>1 DEF Placed, UpdateSteps, ReembedSteps
    <3> QED BY <1>4, <1>7, <2>4, <3>2 DEF ReembedSteps, s
  <2> QED BY <1>8, <2>1, <2>2, <2>3, <2>4 DEF DeleteEmbedding
<1>9. CASE UpsertEmbedding(h)
  <2>1. CASE Drop(h, "drop2", "create2")
    <3>1. Placed("create2", "updated", row'[at[h]], seen[h], r, bytes[h], l)
          BY <1>1, <1>3, <1>5, <2>1 DEF Placed, UpdateSteps, ReembedSteps
    <3> QED BY <1>4, <1>5, <2>1, <3>1 DEF ReembedSteps
  <2>2. CASE Recreate(h, "create2", "contain2", bytes[h])
    <3>1. Placed("contain2", "updated", row'[at[h]], seen[h], s, bytes[h], l)
          BY <1>1, <1>3, <1>6, <2>2 DEF Placed, UpdateSteps, ReembedSteps
    <3> QED BY <1>4, <1>6, <2>2, <3>1 DEF ReembedSteps, s
  <2>3. CASE Rejoin(h, "contain2", "home2", TRUE, FALSE)
    <3>1. s.contains
          BY <1>1, <1>7, <2>3 DEF Placed, Bare, Joined
    <3>2. Placed("home2", "updated", row'[at[h]], seen[h], s, bytes[h], l)
          BY <1>1, <1>3, <1>7, <2>3, <3>1 DEF Placed, UpdateSteps, ReembedSteps, Copies
    <3> QED BY <1>4, <1>7, <2>3, <3>2 DEF ReembedSteps, s
  <2>4. CASE Rejoin(h, "home2", "setsrc", FALSE, TRUE)
    <3>1. Bare(row'[at[h]], l) /\ row'[at[h]].emb = bytes[h]
          BY <1>1, <1>7, <2>4 DEF Placed, Bare, Counted, Joined, Copies
    <3>2. Placed("setsrc", "updated", row'[at[h]], seen[h], s, bytes[h], l)
          BY <1>1, <1>3, <3>1 DEF Placed, UpdateSteps, ReembedSteps
    <3> QED BY <1>4, <1>7, <2>4, <3>2 DEF ReembedSteps, s
  <2> QED BY <1>9, <2>1, <2>2, <2>3, <2>4 DEF UpsertEmbedding
<1>10. CASE SetSource(h)
  <2>1. /\ pc[h] = "setsrc" /\ pc' = [pc EXCEPT ![h] = "triple"] /\ UNCHANGED saved
        /\ row' = [row EXCEPT ![at[h]].src = bytes[h]]
        BY <1>10 DEF SetSource, Go
  <2>2. /\ row'[at[h]] = [r EXCEPT !.src = bytes[h]]
        /\ \A a \in Avatars \ {at[h]} : row'[a] = row[a]
        BY <1>1, <2>1 DEF r
  <2>3. Bare(r, l) /\ r.emb = bytes[h]
        BY <1>1, <2>1 DEF Placed
  <2>4. Counted(row'[at[h]], l) /\ Joined(row'[at[h]]) /\ Embedded(row'[at[h]], bytes[h])
        BY <1>1, <2>2, <2>3 DEF Bare, Counted, Joined, Embedded, Row
  <2>5. Placed("triple", "updated", row'[at[h]], seen[h], s, bytes[h], l)
        BY <1>3, <2>4 DEF Placed, UpdateSteps, ReembedSteps
  <2> QED BY <1>4, <2>1, <2>2, <2>5 DEF s
<1> QED BY <1>8, <1>9, <1>10

\* A handler in its section goes on; its own ledger may change.
LEMMA RestLeads ==
    ASSUME RestFacts, IInv', RestInv, NEW h \in Handlers, NEW to \in Steps,
           pc' = [pc EXCEPT ![h] = to], UNCHANGED <<kind, at, seen, saved, bytes, row>>,
           \A a \in Avatars \ {at[h]} : Ledger(a)' = Ledger(a),
           InSection(h), to \in LockedSteps \cup WriteSteps,
           Placed(to, kind[h], row'[at[h]], seen'[h], saved'[h], bytes'[h], Ledger(at[h])')
    PROVE  RestInv'
<1>1. (LockCoupled /\ MutexP!LockInv => WritersExcluded)'
      BY SectionsExclude, PTL
<1> QED BY <1>1, RestMoves DEF RestFacts, IInv

\* The action is recorded, and then what it says is written.
LEMMA RestRecords ==
    ASSUME RestFacts, IInv', [Next]_vars, RestInv, NEW h \in Handlers,
           RecordAction(h) \/ UpdateInscription(h) \/ MarkOrphaned(h)
    PROVE  RestInv'
<1> DEFINE r == row[at[h]]
           l == Ledger(at[h])
<1>0. /\ pc[h] \in {"record", "update", "orphan"} /\ pc[h] \in LockedSteps \cup WriteSteps
      BY DEF RecordAction, UpdateInscription, MarkOrphaned, Go, WriteSteps
<1>1. /\ Placed(pc[h], kind[h], r, seen[h], saved[h], bytes[h], l) /\ InSection(h)
      /\ r \in Row /\ seen[h] \in Row /\ at[h] \in Avatars /\ row \in [Avatars -> Row]
      /\ kind[h] \in {"updated", "orphaned"}
      BY <1>0, RestPlaced DEF RestFacts, TypeOK
<1>2. UNCHANGED <<kind, at, seen, saved, bytes>>
      BY DEF RecordAction, UpdateInscription, MarkOrphaned, handlerVars
<1> HIDE DEF r
<1>3. CASE RecordAction(h)
  <2> DEFINE to == IF kind[h] = "updated" THEN "update" ELSE "orphan"
  <2>1. /\ pc[h] = "record" /\ pc' = [pc EXCEPT ![h] = to] /\ UNCHANGED row
        BY <1>3 DEF RecordAction, Go
  <2>2. /\ \A a \in Avatars \ {at[h]} : Ledger(a)' = Ledger(a)
        /\ \A a \in Avatars : a = at[h] /\ kind[h] = "updated" =>
              Ledger(a)' = [hash |-> bytes[h], rev |-> Ledger(a).rev + 1,
                            orphaned |-> Ledger(a).orphaned]
        /\ \A a \in Avatars : a = at[h] /\ kind[h] = "orphaned" =>
              Ledger(a)' = [hash |-> Ledger(a).hash, rev |-> Ledger(a).rev, orphaned |-> TRUE]
        BY <1>3, LedgerRecords
  <2>3. PICK b \in Avatars : b = at[h]
        BY <1>1
  <2>4. CASE kind[h] = "updated"
    <3>1. /\ Counted(r, l) /\ Joined(r) /\ Embedded(r, bytes[h]) /\ seen[h].rev = l.rev
          BY <1>1, <2>1, <2>4 DEF Placed
    <3> DEFINE m == [hash |-> bytes[h], rev |-> l.rev + 1, orphaned |-> l.orphaned]
    <3>2. Ledger(b)' = m
          BY <2>2, <2>3, <2>4
    <3>3. Placed("update", "updated", r, seen[h], saved[h], bytes[h], m)
          BY <3>1 DEF Placed, UpdateSteps, ReembedSteps, Counted
    <3>4. to = "update" /\ to \in Steps /\ to \in LockedSteps \cup WriteSteps
          BY <2>4 DEF Steps, WriteSteps
    <3> HIDE DEF m, to
    <3>5. Placed(to, kind[h], row'[at[h]], seen'[h], saved'[h], bytes'[h], Ledger(at[h])')
          BY <1>2, <2>1, <2>3, <2>4, <3>2, <3>3, <3>4 DEF r
    <3> QED BY <1>1, <1>2, <2>1, <2>2, <3>4, <3>5, RestLeads
  <2>5. CASE kind[h] = "orphaned"
    <3>1. Agrees(r, l)
          BY <1>1, <2>1, <2>5 DEF Placed
    <3> DEFINE m == [hash |-> l.hash, rev |-> l.rev, orphaned |-> TRUE]
    <3>2. Ledger(b)' = m
          BY <2>2, <2>3, <2>5
    <3>3. Placed("orphan", "orphaned", r, seen[h], saved[h], bytes[h], m)
          BY <3>1 DEF Placed, UpdateSteps, ReembedSteps, Agrees, Bare, Counted, Embedded
    <3>4. to = "orphan" /\ to \in Steps /\ to \in LockedSteps \cup WriteSteps
          BY <2>5 DEF Steps, WriteSteps
    <3> HIDE DEF m, to
    <3>5. Placed(to, kind[h], row'[at[h]], seen'[h], saved'[h], bytes'[h], Ledger(at[h])')
          BY <1>2, <2>1, <2>3, <2>5, <3>2, <3>3, <3>4 DEF r
    <3> QED BY <1>1, <1>2, <2>1, <2>2, <3>4, <3>5, RestLeads
  <2> QED BY <1>1, <2>4, <2>5
<1> HIDE DEF l
<1>4. ASSUME log' = log, pc' = [pc EXCEPT ![h] = "finish"], Agrees(row'[at[h]], l),
             \A a \in Avatars \ {at[h]} : row'[a] = row[a]
      PROVE  RestInv'
  <2>1. "finish" \in Steps /\ "finish" \in LockedSteps \cup WriteSteps
        BY DEF Steps, WriteSteps
  <2>2. Placed("finish", kind[h], row'[at[h]], seen[h], saved[h], bytes[h], l)
        BY <1>4 DEF Placed, UpdateSteps, ReembedSteps
  <2> QED BY <1>1, <1>2, <1>4, <2>1, <2>2, RestGoes DEF l
<1>5. CASE UpdateInscription(h)
  <2>1. /\ pc[h] = "update" /\ pc' = [pc EXCEPT ![h] = "finish"] /\ log' = log
        /\ row' = IF r.present
                  THEN [row EXCEPT ![at[h]].src = bytes[h], ![at[h]].rev = seen[h].rev + 1]
                  ELSE row
        BY <1>5 DEF UpdateInscription, Go, r
  <2>2. /\ r.present /\ (r.orphaned <=> l.orphaned) /\ Joined(r) /\ Embedded(r, bytes[h])
        /\ bytes[h] = l.hash /\ seen[h].rev + 1 = l.rev
        BY <1>1, <2>1 DEF Placed
  <2>3. /\ row'[at[h]] = [r EXCEPT !.src = bytes[h], !.rev = seen[h].rev + 1]
        /\ \A a \in Avatars \ {at[h]} : row'[a] = row[a]
        BY <1>1, <2>1, <2>2 DEF r
  <2>4. Agrees(row'[at[h]], l)
        BY <1>1, <2>2, <2>3 DEF Agrees, Bare, Counted, Joined, Embedded, Row
  <2> QED BY <1>4, <2>1, <2>3, <2>4
<1>6. CASE MarkOrphaned(h)
  <2>1. /\ pc[h] = "orphan" /\ pc' = [pc EXCEPT ![h] = "finish"] /\ log' = log
        /\ row' = [row EXCEPT ![at[h]].orphaned = r.present]
        BY <1>6 DEF MarkOrphaned, Go, r
  <2>2. r.present /\ r.rev = l.rev /\ l.orphaned /\ Joined(r) /\ Embedded(r, l.hash)
        BY <1>1, <2>1 DEF Placed
  <2>3. /\ row'[at[h]] = [r EXCEPT !.orphaned = r.present]
        /\ \A a \in Avatars \ {at[h]} : row'[a] = row[a]
        BY <1>1, <2>1 DEF r
  <2>4. Agrees(row'[at[h]], l)
        BY <1>1, <2>2, <2>3 DEF Agrees, Bare, Counted, Joined, Embedded, Row
  <2> QED BY <1>4, <2>1, <2>3, <2>4
<1> QED BY <1>3, <1>5, <1>6

\* A failure counts, and the count never falls.
LEMMA FaultsRise == TypeOK /\ [Next]_vars /\ faults' = 0 => faults = 0
<1> SUFFICES ASSUME TypeOK, [Next]_vars, faults' = 0
             PROVE  faults = 0
    OBVIOUS
<1>0. faults \in Nat
      BY BoundsAssumption DEF TypeOK
<1>1. \A h \in Handlers : ~FailStep(h)
      BY <1>0 DEF FailStep
<1>2. ~Crash
      BY <1>0 DEF Crash
<1>3. CASE \/ \E a \in Avatars, v \in Contents \cup {Gone} : Edit(a, v)
           \/ \E f \in Traversals : RecordTraversal(f)
           \/ \E h \in Handlers, a \in Avatars : OnFileChange(h, a) \/ OnFileDelete(h, a)
           \/ UNCHANGED vars
      BY <1>3 DEF Edit, RecordTraversal, OnFileChange, OnFileDelete, vars, envVars
<1>4. ASSUME NEW h \in Handlers, HandlerStep(h)
      PROVE  faults' = faults
  <2>1. CASE Check1(h) \/ Check2(h) \/ Enter(h) \/ Fresh1(h) \/ Fresh2(h) \/ Embed(h) \/ Heads(h)
        BY <2>1 DEF Check1, Check2, Enter, Fresh1, Fresh2, Embed, Heads, Untouched, envVars
  <2>2. CASE Sign(h) \/ Reembed(h) \/ DeleteEmbedding(h) \/ UpsertEmbedding(h) \/ SetSource(h)
        BY <2>2 DEF Sign, Reembed, DeleteEmbedding, UpsertEmbedding, SetSource, Drop, Recreate,
                    Rejoin, Untouched, envVars
  <2>3. CASE InsertTriple(h) \/ RecordAction(h) \/ UpdateInscription(h) \/ MarkOrphaned(h) \/ Finish(h)
        BY <2>3 DEF InsertTriple, RecordAction, UpdateInscription, MarkOrphaned, Finish, envVars
  <2> QED BY <1>4, <2>1, <2>2, <2>3 DEF HandlerStep
<1> QED BY <1>1, <1>2, <1>3, <1>4 DEF Next

\* Every step that is no failure keeps rows and ledgers together.
LEMMA RestStep ==
    ASSUME RestFacts, IInv', [Next]_vars, RestInv, faults' = 0
    PROVE  RestInv'
<1>0. /\ \A h \in Handlers : ~FailStep(h)
      /\ ~Crash
  <2>1. faults \in Nat
        BY BoundsAssumption DEF RestFacts, TypeOK
  <2> QED BY <2>1 DEF FailStep, Crash
<1>1. TypeOK /\ pc \in [Handlers -> Steps] /\ \A h \in Handlers : at[h] \in Avatars
      BY DEF RestFacts, TypeOK
<1>2. ASSUME UNCHANGED <<row, pc, kind, at, seen, saved, bytes>>,
             log' = log \/ \E f \in Traversals : log' = log \cup {Foreign(f)}
      PROVE  RestInv'
      BY <1>1, <1>2, LedgersKept, RestOutside DEF InSection
<1>3. ASSUME NEW h \in Handlers, NEW to, pc' = [pc EXCEPT ![h] = to],
             pc[h] \notin LockedSteps \cup WriteSteps, to \notin LockedSteps \cup WriteSteps,
             UNCHANGED <<row, log>>,
             \A g \in Handlers \ {h} : UNCHANGED <<kind[g], at[g], seen[g], saved[g], bytes[g]>>
      PROVE  RestInv'
  <2>1. \A g \in Handlers \ {h} : pc'[g] = pc[g]
        BY <1>1, <1>3
  <2>2. ~InSection(h) /\ ~InSection(h)' /\ \A g \in Handlers \ {h} : InSection(g)' <=> InSection(g)
        BY <1>1, <1>3, <2>1 DEF InSection
  <2>3. \A a \in Avatars : Ledger(a)' = Ledger(a)
        BY <1>3, LedgersKept
  <2> QED BY <1>1, <1>3, <2>1, <2>2, <2>3, RestOutside
<1>4. CASE \E a \in Avatars, v \in Contents \cup {Gone} : Edit(a, v)
      BY <1>2, <1>4 DEF Edit, storeVars, handlerVars
<1>5. CASE \E f \in Traversals : RecordTraversal(f)
      BY <1>2, <1>5 DEF RecordTraversal, handlerVars
<1>6. CASE \E h \in Handlers, a \in Avatars : OnFileChange(h, a) \/ OnFileDelete(h, a)
  <2>1. PICK h \in Handlers, a \in Avatars : OnFileChange(h, a) \/ OnFileDelete(h, a)
        BY <1>6
  <2>2. PICK to \in {"unreadable", "check1", "waiting"} : pc' = [pc EXCEPT ![h] = to]
        BY <2>1 DEF OnFileChange, OnFileDelete, Go
  <2>3. /\ pc[h] = "idle" /\ UNCHANGED <<row, log, seen, saved>>
        /\ at' = [at EXCEPT ![h] = a]
        /\ kind' = [kind EXCEPT ![h] = "updated"] \/ kind' = [kind EXCEPT ![h] = "orphaned"]
        /\ bytes' = bytes \/ bytes' = [bytes EXCEPT ![h] = disk[a]]
        BY <2>1 DEF OnFileChange, OnFileDelete, Go, storeVars
  <2>4. \A g \in Handlers \ {h} : UNCHANGED <<kind[g], at[g], seen[g], saved[g], bytes[g]>>
        BY <2>3 DEF RestFacts, TypeOK
  <2>5. "idle" \notin LockedSteps \cup WriteSteps /\ to \notin LockedSteps \cup WriteSteps
        BY DEF LockedSteps, WriteSteps, ReembedSteps
  <2> QED BY <1>3, <2>2, <2>3, <2>4, <2>5
<1>7. ASSUME NEW h \in Handlers, Check1(h) \/ Check2(h)
      PROVE  RestInv'
  <2>1. PICK to \in {"check2", "waiting", "threw", "noop"} : pc' = [pc EXCEPT ![h] = to]
        BY <1>7 DEF Check1, Check2, Go
  <2>2. /\ pc[h] \in {"check1", "check2"} /\ UNCHANGED <<row, log, kind, at>>
        BY <1>7 DEF Check1, Check2, Go, storeVars, handlerVars, ForgetLocals
  <2>3. \A g \in Handlers \ {h} : UNCHANGED <<seen[g], saved[g], bytes[g]>>
        BY <1>7 DEF Check1, Check2, handlerVars, ForgetLocals, RestFacts, TypeOK
  <2>4. pc[h] \notin LockedSteps \cup WriteSteps /\ to \notin LockedSteps \cup WriteSteps
        BY <2>2 DEF LockedSteps, WriteSteps, ReembedSteps
  <2> QED BY <1>3, <2>1, <2>2, <2>3, <2>4
<1>8. ASSUME NEW h \in Handlers, HandlerStep(h)
      PROVE  RestInv'
      BY <1>7, <1>8, RestEnters, RestReads, RestPasses, RestReembeds, RestRecords DEF HandlerStep
<1>9. CASE UNCHANGED vars
      BY <1>2, <1>9 DEF vars, storeVars, handlerVars
<1> QED BY <1>0, <1>4, <1>5, <1>6, <1>8, <1>9 DEF Next

-----------------------------------------------------------------------------
\* The triple of an inscription.

LEMMA TripleKept ==
    ASSUME TypeOK, TripleInv, UNCHANGED kg,
           \A a \in Avatars : Updates(a)' # {} => Updates(a) # {},
           \A h \in Handlers :
               /\ pc'[h] = "link" <=> pc[h] = "link"
               /\ pc'[h] = "record" => pc[h] = "record" \/ kind'[h] # "updated"
               /\ pc[h] \in {"link", "record"} => UNCHANGED <<at[h], kind[h]>>
    PROVE  TripleInv'
<1>1. \A a \in Avatars : /\ Updates(a)' # {} => kg'[a] = "linked"
                         /\ kg'[a] = "node" => \E h \in Handlers : pc'[h] = "link" /\ at'[h] = a
      BY DEF TripleInv
<1>2. \A h \in Handlers : /\ pc'[h] = "link" => kg'[at'[h]] = "node"
                          /\ pc'[h] = "record" /\ kind'[h] = "updated" => kg'[at'[h]] = "linked"
      BY DEF TripleInv
<1> QED BY <1>1, <1>2 DEF TripleInv

\* A handler that takes a step with nothing to do with the triple or the log.
LEMMA TriplePasses ==
    ASSUME TypeOK, TripleInv, UNCHANGED <<kg, at, kind>>,
           \A a \in Avatars : Updates(a)' # {} => Updates(a) # {},
           NEW h \in Handlers, NEW to, pc' = [pc EXCEPT ![h] = to], pc[h] # "link", to # "link",
           to = "record" => kind[h] # "updated"
    PROVE  TripleInv'
<1>1. pc'[h] = to /\ \A g \in Handlers \ {h} : pc'[g] = pc[g]
      BY DEF TypeOK
<1> QED BY <1>1, TripleKept

\* The node and then its edge: nobody else of the palace is at it meanwhile.
LEMMA TripleInserts ==
    ASSUME TypeOK, WritersExcluded, TripleInv, log' = log, NEW h \in Handlers, InsertTriple(h)
    PROVE  TripleInv'
<1>0. PICK b : b = at[h]
      OBVIOUS
<1>1. /\ UNCHANGED <<at, kind>> /\ b \in Avatars /\ kg \in [Avatars -> {"absent", "node", "linked"}]
      /\ pc \in [Handlers -> Steps] /\ pc[h] \in {"triple", "link"} /\ \A g \in Handlers : at[g] \in Avatars
      BY <1>0 DEF InsertTriple, Go, handlerVars, TypeOK
<1>2. \A a \in Avatars : Updates(a)' = Updates(a)
      BY DEF Updates
<1>3. ASSUME NEW g \in Handlers, pc[g] \in {"link", "record"}, at[g] = b
      PROVE  g = h
      BY <1>0, <1>1, <1>3 DEF WritersExcluded, InSection, PalaceAt, WriteSteps
<1>4. CASE kg[b] # "absent" /\ Go(h, "triple", "record") /\ UNCHANGED kg
  <2>1. kg[b] = "linked"
        BY <1>1, <1>3, <1>4 DEF TripleInv, Go
  <2>2. pc[h] = "triple" /\ pc'[h] = "record" /\ \A g \in Handlers \ {h} : pc'[g] = pc[g]
        BY <1>1, <1>4 DEF Go
  <2>3. \A a \in Avatars : kg[a] = "node" => \E g \in Handlers : pc'[g] = "link" /\ at'[g] = a
        BY <1>1, <2>2 DEF TripleInv
  <2>4. \A g \in Handlers : /\ pc'[g] = "link" => kg[at[g]] = "node"
                            /\ pc'[g] = "record" /\ kind[g] = "updated" => kg[at[g]] = "linked"
        BY <1>0, <2>1, <2>2 DEF TripleInv
  <2> QED BY <1>1, <1>2, <1>4, <2>3, <2>4 DEF TripleInv
<1>5. CASE kg[b] = "absent" /\ Go(h, "triple", "link") /\ kg' = [kg EXCEPT ![b] = "node"]
  <2>1. pc[h] = "triple" /\ pc'[h] = "link" /\ \A g \in Handlers \ {h} : pc'[g] = pc[g]
        BY <1>1, <1>5 DEF Go
  <2>2. kg'[b] = "node" /\ \A a \in Avatars \ {b} : kg'[a] = kg[a]
        BY <1>1, <1>5
  <2>3. Updates(b) = {}
        BY <1>1, <1>5 DEF TripleInv
  <2>4. \A a \in Avatars : kg'[a] = "node" => \E g \in Handlers : pc'[g] = "link" /\ at'[g] = a
        BY <1>0, <1>1, <2>1, <2>2 DEF TripleInv
  <2>5. \A g \in Handlers : /\ pc'[g] = "link" => kg'[at[g]] = "node"
                            /\ pc'[g] = "record" /\ kind[g] = "updated" => kg'[at[g]] = "linked"
        BY <1>0, <1>1, <1>3, <2>1, <2>2 DEF TripleInv
  <2>6. \A a \in Avatars : Updates(a)' # {} => kg'[a] = "linked"
        BY <1>2, <2>2, <2>3 DEF TripleInv
  <2> QED BY <1>1, <2>4, <2>5, <2>6 DEF TripleInv
<1>6. CASE Go(h, "link", "record") /\ kg' = [kg EXCEPT ![b] = "linked"]
  <2>1. pc[h] = "link" /\ pc'[h] = "record" /\ \A g \in Handlers \ {h} : pc'[g] = pc[g]
        BY <1>1, <1>6 DEF Go
  <2>2. kg'[b] = "linked" /\ \A a \in Avatars \ {b} : kg'[a] = kg[a]
        BY <1>1, <1>6
  <2>3. \A a \in Avatars : kg'[a] = "node" => \E g \in Handlers : pc'[g] = "link" /\ at'[g] = a
        BY <1>0, <1>1, <2>1, <2>2 DEF TripleInv
  <2>4. \A g \in Handlers : /\ pc'[g] = "link" => kg'[at[g]] = "node"
                            /\ pc'[g] = "record" /\ kind[g] = "updated" => kg'[at[g]] = "linked"
        BY <1>0, <1>1, <1>3, <2>1, <2>2 DEF TripleInv
  <2>5. \A a \in Avatars : Updates(a)' # {} => kg'[a] = "linked"
        BY <1>2, <2>2 DEF TripleInv
  <2> QED BY <1>1, <2>3, <2>4, <2>5 DEF TripleInv
<1> QED BY <1>0, <1>4, <1>5, <1>6 DEF InsertTriple

\* Every step that is no failure keeps triples and updates together.
LEMMA TripleStep ==
    ASSUME RestFacts, IInv', [Next]_vars, TripleInv, faults' = 0
    PROVE  TripleInv'
<1>0. /\ \A h \in Handlers : ~FailStep(h)
      /\ ~Crash
  <2>1. faults \in Nat
        BY BoundsAssumption DEF RestFacts, TypeOK
  <2> QED BY <2>1 DEF FailStep, Crash
<1>1. /\ TypeOK /\ WritersExcluded /\ pc \in [Handlers -> Steps]
      /\ \A h \in Handlers : at[h] \in Avatars /\ kind[h] \in {"updated", "orphaned"}
      BY DEF RestFacts, TypeOK
<1>2. (log' = log \/ \E f \in Traversals : log' = log \cup {Foreign(f)}) =>
         \A a \in Avatars : Updates(a)' # {} => Updates(a) # {}
      BY LedgersKept
<1>3. CASE \/ \E a \in Avatars, v \in Contents \cup {Gone} : Edit(a, v)
           \/ \E f \in Traversals : RecordTraversal(f)
           \/ UNCHANGED vars
      BY <1>1, <1>2, <1>3, TripleKept DEF Edit, RecordTraversal, vars, storeVars, handlerVars
<1>4. CASE \E h \in Handlers, a \in Avatars : OnFileChange(h, a) \/ OnFileDelete(h, a)
  <2>1. PICK h \in Handlers, a \in Avatars : OnFileChange(h, a) \/ OnFileDelete(h, a)
        BY <1>4
  <2>2. PICK to \in {"unreadable", "check1", "waiting"} : pc' = [pc EXCEPT ![h] = to]
        BY <2>1 DEF OnFileChange, OnFileDelete, Go
  <2>3. /\ pc[h] = "idle" /\ UNCHANGED <<kg, log>>
        /\ at' = [at EXCEPT ![h] = a]
        /\ kind' = [kind EXCEPT ![h] = "updated"] \/ kind' = [kind EXCEPT ![h] = "orphaned"]
        BY <2>1 DEF OnFileChange, OnFileDelete, Go, storeVars
  <2>4. \A g \in Handlers \ {h} : UNCHANGED <<kind[g], at[g], pc[g]>>
        BY <1>1, <2>2, <2>3 DEF TypeOK
  <2>5. pc'[h] = to
        BY <1>1, <2>2
  <2> QED BY <1>1, <1>2, <2>3, <2>4, <2>5, TripleKept
<1>5. ASSUME NEW h \in Handlers, HandlerStep(h)
      PROVE  TripleInv'
  <2>1. ASSUME UNCHANGED <<kg, log, at, kind>>, pc[h] # "link",
               \E to : pc' = [pc EXCEPT ![h] = to] /\ to # "link" /\ (to = "record" => kind[h] # "updated")
        PROVE  TripleInv'
        BY <1>1, <1>2, <2>1, TriplePasses
  <2>2. CASE Check1(h) \/ Check2(h) \/ Enter(h) \/ Fresh1(h) \/ Fresh2(h) \/ Embed(h) \/ Heads(h)
    <3>1. CASE Check1(h) \/ Check2(h)
          BY <2>1, <3>1 DEF Check1, Check2, Untouched, Go, Leave, ForgetLocals, storeVars, handlerVars
    <3>2. CASE Fresh1(h) \/ Fresh2(h)
          BY <2>1, <3>2 DEF Fresh1, Fresh2, Untouched, Go, Leave, ForgetLocals,
                            storeVars, handlerVars
    <3>3. CASE Embed(h)
          BY <2>1, <3>3 DEF Embed, Go, Leave, ForgetLocals, storeVars, handlerVars
    <3>4. CASE Heads(h) \/ Enter(h)
      <4>1. /\ UNCHANGED <<kg, log, at, kind>>
            /\ \/ Go(h, "heads", "sign")
               \/ Go(h, "waiting", "fresh1") \/ Go(h, "waiting", "heads")
            BY <3>4 DEF Heads, Enter, Untouched, storeVars, handlerVars
      <4> QED BY <2>1, <4>1 DEF Go
    <3> QED BY <2>2, <3>1, <3>2, <3>3, <3>4
  <2>3. CASE Sign(h) \/ Reembed(h) \/ DeleteEmbedding(h) \/ UpsertEmbedding(h) \/ SetSource(h)
    <3>1. CASE Sign(h) \/ Reembed(h) \/ SetSource(h)
          BY <2>1, <3>1 DEF Sign, Reembed, SetSource, Untouched, Go, storeVars, handlerVars
    <3>2. /\ \A from, to : Drop(h, from, to) =>
                Go(h, from, to) /\ UNCHANGED <<kg, log, at, kind>>
          /\ \A from, to, emb : Recreate(h, from, to, emb) =>
                Go(h, from, to) /\ UNCHANGED <<kg, log, at, kind>>
          /\ \A from, to, c, l : Rejoin(h, from, to, c, l) =>
                Go(h, from, to) /\ UNCHANGED <<kg, log, at, kind>>
          BY DEF Drop, Recreate, Rejoin, Untouched
    <3>3. CASE DeleteEmbedding(h) \/ UpsertEmbedding(h)
      <4>1. /\ UNCHANGED <<kg, log, at, kind>>
            /\ \/ Go(h, "drop1", "create1") \/ Go(h, "create1", "contain1")
               \/ Go(h, "contain1", "home1") \/ Go(h, "home1", "drop2")
               \/ Go(h, "drop2", "create2") \/ Go(h, "create2", "contain2")
               \/ Go(h, "contain2", "home2") \/ Go(h, "home2", "setsrc")
            BY <3>2, <3>3 DEF DeleteEmbedding, UpsertEmbedding
      <4> QED BY <2>1, <4>1 DEF Go
    <3> QED BY <2>3, <3>1, <3>3
  <2>4. CASE UpdateInscription(h) \/ MarkOrphaned(h) \/ Finish(h)
    <3>1. /\ UNCHANGED <<kg, log, at, kind>>
          /\ Go(h, "update", "finish") \/ Go(h, "orphan", "finish") \/ Go(h, "finish", "done")
          BY <2>4 DEF UpdateInscription, MarkOrphaned, Finish, Leave, ForgetLocals, handlerVars
    <3> QED BY <2>1, <3>1 DEF Go
  <2>5. CASE InsertTriple(h)
        BY <1>1, <2>5, TripleInserts DEF InsertTriple
  <2>6. CASE RecordAction(h)
    <3>1. PICK to \in {"update", "orphan"} : pc' = [pc EXCEPT ![h] = to]
          BY <2>6 DEF RecordAction, Go
    <3>2. /\ pc[h] = "record" /\ UNCHANGED <<kg, at, kind>>
          BY <2>6 DEF RecordAction, Go, handlerVars
    <3>3. \A a \in Avatars : Updates(a)' = Updates(a) \/ kg[a] = "linked"
      <4>1. /\ \A a \in Avatars \ {at[h]} : Updates(a)' = Updates(a)
            /\ \A a \in Avatars : a = at[h] /\ kind[h] = "orphaned" => Updates(a)' = Updates(a)
            BY <2>6, LedgerRecords
      <4>2. kind[h] = "updated" => kg[at[h]] = "linked"
            BY <3>2 DEF TripleInv
      <4> QED BY <1>1, <4>1, <4>2
    <3>4. pc'[h] = to /\ \A g \in Handlers \ {h} : pc'[g] = pc[g]
          BY <1>1, <3>1
    <3>5. \A a \in Avatars : /\ Updates(a)' # {} => kg'[a] = "linked"
                             /\ kg'[a] = "node" => \E g \in Handlers : pc'[g] = "link" /\ at'[g] = a
          BY <3>2, <3>3, <3>4 DEF TripleInv
    <3>6. \A g \in Handlers : /\ pc'[g] = "link" => kg'[at'[g]] = "node"
                              /\ pc'[g] = "record" /\ kind'[g] = "updated" => kg'[at'[g]] = "linked"
          BY <3>2, <3>4 DEF TripleInv
    <3> QED BY <3>5, <3>6 DEF TripleInv
  <2> QED BY <1>5, <2>2, <2>3, <2>4, <2>5, <2>6 DEF HandlerStep
<1> QED BY <1>0, <1>3, <1>4, <1>5 DEF Next

-----------------------------------------------------------------------------
LEMMA AuditStep ==
    ASSUME RestFacts, IInv', [Next]_vars
    PROVE  AuditInv'
BY LogMoves, LedgersKept, LedgerRecords

LEMMA RestFactsInvariant == Spec => []RestFacts
<1>1. Init => AuditInv
  <2> SUFFICES ASSUME Init PROVE AuditInv
      OBVIOUS
  <2>1. \A x \in log : x.kind = "other"
        BY DEF Init, Foreign
  <2>2. \A a : Updates(a) = {}
        BY <2>1 DEF Updates
  <2> QED BY <2>1, <2>2 DEF AuditInv, SignersServed
<1>2. IInv /\ BackedInv /\ AuditInv => RestFacts
      BY SectionsExclude DEF RestFacts, IInv
<1>3. IInv /\ BackedInv /\ AuditInv /\ [Next]_vars => AuditInv'
      BY <1>2, IInvStep, AuditStep
<1> QED BY <1>1, <1>2, <1>3, WatcherInvariant, BackedInvariant, PTL DEF Spec

\* As long as nothing failed.
LEMMA RestInvariant == Spec => [](faults = 0 => RestInv /\ TripleInv)
<1>1. Init => RestInv /\ TripleInv
  <2> SUFFICES ASSUME Init PROVE RestInv /\ TripleInv
      OBVIOUS
  <2>1. \A x \in log : x.kind = "other"
        BY DEF Init, Foreign
  <2>2. \A a : Updates(a) = {} /\ Orphanings(a) = {}
        BY <2>1 DEF Updates, Orphanings
  <2>3. \A a : Ledger(a) = [hash |-> Origin, rev |-> 0, orphaned |-> FALSE]
        BY <2>2, FS_EmptySet DEF Ledger, AuditedHash
  <2>4. \A a \in Avatars : row[a] = Inscribed /\ kg[a] = "absent"
        BY DEF Init
  <2>5. \A a \in Avatars : Agrees(row[a], Ledger(a))
        BY <2>3, <2>4 DEF Agrees, Bare, Counted, Joined, Inscribed
  <2>6. \A h \in Handlers : pc[h] = "idle" /\ ~InSection(h)
        BY DEF Init, InSection, LockedSteps, WriteSteps, ReembedSteps
  <2> QED BY <2>2, <2>4, <2>5, <2>6 DEF RestInv, TripleInv
<1>2. RestFacts /\ IInv /\ [Next]_vars /\ (faults = 0 => RestInv /\ TripleInv) =>
          (faults = 0 => RestInv /\ TripleInv)'
  <2> SUFFICES ASSUME RestFacts, IInv, [Next]_vars, faults = 0 => RestInv /\ TripleInv, faults' = 0
               PROVE  RestInv' /\ TripleInv'
      OBVIOUS
  <2>1. faults = 0
        BY FaultsRise DEF RestFacts
  <2>2. IInv'
        BY IInvStep
  <2> QED BY <2>1, <2>2, RestStep, TripleStep
<1> QED BY <1>1, <1>2, WatcherInvariant, RestFactsInvariant, PTL DEF Spec

\* Where nothing failed, an inscription whose palace nobody is writing agrees with
\* its signed history: the source and the embedding are those of the last update
\* recorded, the revision counts the updates, the orphan mark has its action.
THEOREM WatcherRestAgrees == Spec => []RestAgrees
<1>1. (faults = 0 => RestInv /\ TripleInv) => RestAgrees
  <2> SUFFICES ASSUME RestInv, NEW a \in Avatars, Quiet(PalaceOf[a])
               PROVE  AuditAgrees(a)
      BY DEF RestAgrees
  <2>1. Agrees(row[a], Ledger(a))
        BY DEF RestInv, Quiet, PalaceAt
  <2> QED BY <2>1 DEF AuditAgrees, Agrees, Bare, Counted, Ledger
<1> QED BY <1>1, RestInvariant, PTL

\* Where nothing failed, reembed has put both edges back by the time the palace is
\* quiet, and an inscription with a recorded update has its lives-in triple.
THEOREM WatcherRestJoined == Spec => []RestJoined
<1>1. (faults = 0 => RestInv /\ TripleInv) => RestJoined
  <2> SUFFICES ASSUME RestInv, TripleInv, NEW a \in Avatars
               PROVE  /\ Quiet(PalaceOf[a]) => row[a].contains /\ row[a].livesIn
                      /\ Updates(a) # {} => kg[a] = "linked"
      BY DEF RestJoined
  <2>1. Quiet(PalaceOf[a]) => Agrees(row[a], Ledger(a))
        BY DEF RestInv, Quiet, PalaceAt
  <2> QED BY <2>1 DEF TripleInv, Agrees, Bare, Joined
<1> QED BY <1>1, RestInvariant, PTL

=============================================================================
