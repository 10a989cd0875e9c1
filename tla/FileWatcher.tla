---------------------------- MODULE FileWatcher -----------------------------
(***************************************************************************)
(* The oracle's file watcher (src/memory-palace/file-watcher.ts) over the  *)
(* palace store (src/memory-palace/store.server.ts).                       *)
(*                                                                         *)
(* A handler is one run of onFileChange or onFileDelete, started by an     *)
(* fs.watch event.  Handlers run concurrently; each await is a point where *)
(* the others may run, so each store query is a step of its own.  The      *)
(* per-palace mutex is the lock FcfsLock, which PalaceMutex implements.    *)
(* A read and the write that follows it inside one verb are merged only    *)
(* where every writer of the row holds the mutex.                          *)
(*                                                                         *)
(* Fingerprints: a handler signs at most one action, so the handler itself *)
(* stands for the action's fp; a content stands for its Blake3.            *)
(***************************************************************************)
EXTENDS Integers, FiniteSets

CONSTANTS
    Handlers,      \* runs of the event handlers
    Avatars,       \* watched inscriptions
    Palaces,       \* palaces kept in one store
    Contents,      \* contents a source file can have
    Gone,          \* the source file does not exist
    Origin,        \* content every file had when it was inscribed
    Default,       \* the custodian write context of a fresh store
    Roots,         \* actions in the log before the watcher starts
    Traversals,    \* actions the server adds without the mutex
    PalaceOf,      \* [Avatars \cup Roots \cup Traversals -> Palaces]
    AdminOnly,     \* avatars whose policy is 'any-admin'
    MaxEdits,      \* bound: edits of the source files
    MaxFaults      \* bound: failing steps and crashes

ASSUME OriginAssumption == Origin \in Contents /\ Gone \notin Contents
ASSUME DefaultAssumption == Default \notin Palaces
ASSUME PalaceOfAssumption == PalaceOf \in [Avatars \cup Roots \cup Traversals -> Palaces]
ASSUME FpAssumption ==
    Handlers \cap (Roots \cup Traversals) = {} /\ Roots \cap Traversals = {}
ASSUME AvatarsAssumption == Avatars # {} /\ Palaces # {}
ASSUME BoundsAssumption == MaxEdits \in Nat /\ MaxFaults \in Nat

VARIABLES
    disk,          \* the source files
    row,           \* Inscription nodes with their CONTAINS and LIVES_IN edges
    kg,            \* the oracle's lives-in triple of each avatar
    log,           \* ActionLog rows
    ctx,           \* _writeCtx of the store: Default, or a palace's oracle
                   \* with origin 'file-watcher'
    pc, kind, at,  \* per handler: where it is, what it records, for whom
    bytes,         \* per handler: newBytes
    seen,          \* per handler: the row its last getInscription returned
    saved,         \* per handler: the row read before a DETACH DELETE
    parents,       \* per handler: headHashes at signing
    prior,         \* per handler: the context its restoreCtx() puts back
    lock, lockOn, ticket, issued,   \* the per-palace mutex
    edits, faults  \* bounds

storeVars   == <<row, kg, log, ctx>>
handlerVars == <<kind, at, bytes, seen, saved, parents, prior>>
lockVars    == <<lock, lockOn, ticket, issued>>
envVars     == <<disk, edits, faults>>
vars == <<storeVars, pc, handlerVars, lockVars, envVars>>

Mutex == INSTANCE FcfsLock WITH Calls <- Handlers, state <- lock, on <- lockOn

Fps == Handlers \cup Roots \cup Traversals

NoContent == Gone    \* an embedding column that is unset

Row == [present : BOOLEAN, src : Contents, rev : Nat, orphaned : BOOLEAN,
        emb : Contents \cup {NoContent}, contains : BOOLEAN, livesIn : BOOLEAN]

Action == [fp : Fps, palace : Palaces, kind : {"other", "updated", "orphaned"},
           target : Avatars \cup {Default}, hash : Contents \cup {NoContent},
           parents : SUBSET Fps]

\* Where a handler is: the query it will run next.
ReadSteps    == {"check1", "check2"}                  \* before the mutex
LockedSteps  == {"fresh1", "fresh2", "embed", "heads", "sign"}
ReembedSteps == {"drop1", "create1", "contain1", "home1",
                 "drop2", "create2", "contain2", "home2", "setsrc"}
WriteSteps   == {"reembed"} \cup ReembedSteps \cup
                {"triple", "link", "record", "update", "orphan", "finish"}
EndSteps     == {"noop", "unreadable", "unreachable", "done", "threw", "dead"}
Steps == {"idle", "waiting"} \cup ReadSteps \cup LockedSteps \cup WriteSteps \cup EndSteps

TypeOK ==
    /\ disk \in [Avatars -> Contents \cup {Gone}]
    /\ row \in [Avatars -> Row]
    /\ kg \in [Avatars -> {"absent", "node", "linked"}]
    /\ log \in SUBSET Action
    /\ ctx \in Palaces \cup {Default}
    /\ pc \in [Handlers -> Steps]
    /\ kind \in [Handlers -> {"updated", "orphaned"}]
    /\ at \in [Handlers -> Avatars]
    /\ bytes \in [Handlers -> Contents]
    /\ seen \in [Handlers -> Row]
    /\ saved \in [Handlers -> Row]
    /\ parents \in [Handlers -> SUBSET Fps]
    /\ prior \in [Handlers -> Palaces \cup {Default}]
    /\ Mutex!TypeOK
    /\ edits \in 0..MaxEdits
    /\ faults \in 0..MaxFaults

Missing == [present |-> FALSE, src |-> Origin, rev |-> 0, orphaned |-> FALSE,
            emb |-> NoContent, contains |-> FALSE, livesIn |-> FALSE]

Inscribed == [present |-> TRUE, src |-> Origin, rev |-> 0, orphaned |-> FALSE,
              emb |-> Origin, contains |-> TRUE, livesIn |-> TRUE]

\* An action of another writer: its parents and payload are not modelled.
Foreign(f) == [fp |-> f, palace |-> PalaceOf[f], kind |-> "other", target |-> Default,
               hash |-> NoContent, parents |-> {}]

Init ==
    /\ disk = [a \in Avatars |-> Origin]
    /\ row = [a \in Avatars |-> Inscribed]
    /\ kg = [a \in Avatars |-> "absent"]
    /\ log = {Foreign(f) : f \in Roots}
    /\ ctx = Default
    /\ pc = [h \in Handlers |-> "idle"]
    /\ kind = [h \in Handlers |-> "updated"]
    /\ at = [h \in Handlers |-> CHOOSE a \in Avatars : TRUE]
    /\ bytes = [h \in Handlers |-> Origin]
    /\ seen = [h \in Handlers |-> Missing]
    /\ saved = [h \in Handlers |-> Missing]
    /\ parents = [h \in Handlers |-> {}]
    /\ prior = [h \in Handlers |-> Default]
    /\ Mutex!Init
    /\ edits = 0
    /\ faults = 0

-----------------------------------------------------------------------------
\* Helpers.

PalaceAt(h) == PalaceOf[at[h]]

InSection(h) == pc[h] \in LockedSteps \cup WriteSteps

\* Step h from one place to the next.
Go(h, from, to) ==
    /\ pc[h] = from
    /\ pc' = [pc EXCEPT ![h] = to]

\* headHashes: the actions of the palace no other row of it references.
HeadHashes(p) ==
    LET rows == {x \in log : x.palace = p}
    IN  {x.fp : x \in rows} \ UNION {x.parents : x \in rows}

\* evaluateGuildPolicy for the palace's own oracle: a public row is readable;
\* otherwise the palace, and so its oracle, is found through LIVES_IN only.
OracleMayRead(a) == a \notin AdminOnly \/ (row[a].present /\ row[a].livesIn)

\* The locals of a handler that returned are gone.
ForgetLocals(h) ==
    /\ bytes' = [bytes EXCEPT ![h] = Origin]
    /\ seen' = [seen EXCEPT ![h] = Missing]
    /\ saved' = [saved EXCEPT ![h] = Missing]
    /\ parents' = [parents EXCEPT ![h] = {}]
    /\ prior' = [prior EXCEPT ![h] = Default]
    /\ UNCHANGED <<kind, at>>

\* Faulty: release() without restoreCtx(), and restoreCtx() without release().
LeaveContext(h) ==
    /\ Mutex!Release(h)
    /\ ForgetLocals(h)
    /\ UNCHANGED ctx

LeaveHeld(h) ==
    /\ ctx' = IF pc[h] \in WriteSteps THEN prior[h] ELSE ctx
    /\ ForgetLocals(h)
    /\ UNCHANGED lockVars

\* The finally blocks: restoreCtx() when the write context was set, release().
Leave(h) ==
    /\ ctx' = IF pc[h] \in WriteSteps THEN prior[h] ELSE ctx
    /\ Mutex!Release(h)
    /\ ForgetLocals(h)

\* What a step of the watcher that only reads or writes the row leaves alone.
Untouched == UNCHANGED <<disk, edits, faults, lockVars, kind, at>>

-----------------------------------------------------------------------------
\* The environment: the author's editor, and the server's own actions.

Edit(a, v) ==
    /\ edits < MaxEdits
    /\ v # disk[a]
    /\ disk' = [disk EXCEPT ![a] = v]
    /\ edits' = edits + 1
    /\ UNCHANGED <<storeVars, pc, handlerVars, lockVars, faults>>

\* recordTraversal of the server: a 'move' or 'aqueduct-created' row with no
\* parents, written without the palace mutex.
RecordTraversal(f) ==
    /\ Foreign(f) \notin log
    /\ log' = log \cup {Foreign(f)}
    /\ UNCHANGED <<row, kg, ctx, pc, handlerVars, lockVars, envVars>>

-----------------------------------------------------------------------------
\* Events.  fs.watch may fire for an edit, for a touch, or more than once.

\* Faulty: no return after the file could not be read.
OnFileChangeUnread(h, a) ==
    /\ Go(h, "idle", "check1")
    /\ at' = [at EXCEPT ![h] = a]
    /\ kind' = [kind EXCEPT ![h] = "updated"]
    /\ bytes' = [bytes EXCEPT ![h] = disk[a]]
    /\ UNCHANGED <<storeVars, seen, saved, parents, prior, lockVars, envVars>>

\* onFileChange up to its first await: read the file, or give up.  The sources
\* are files of the palace; for others it throws before it does anything.
OnFileChange(h, a) ==
    /\ pc[h] = "idle"
    /\ at' = [at EXCEPT ![h] = a]
    /\ kind' = [kind EXCEPT ![h] = "updated"]
    /\ IF disk[a] = Gone
       THEN /\ pc' = [pc EXCEPT ![h] = "unreadable"]
            /\ UNCHANGED bytes
       ELSE /\ pc' = [pc EXCEPT ![h] = "check1"]
            /\ bytes' = [bytes EXCEPT ![h] = disk[a]]
    /\ UNCHANGED <<storeVars, seen, saved, parents, prior, lockVars, envVars>>

\* Faulty: the orphan path does not take the mutex.
OnFileDeleteUnlocked(h, a) ==
    /\ disk[a] = Gone
    /\ Go(h, "idle", "heads")
    /\ at' = [at EXCEPT ![h] = a]
    /\ kind' = [kind EXCEPT ![h] = "orphaned"]
    /\ UNCHANGED <<storeVars, bytes, seen, saved, parents, prior, lockVars, envVars>>

\* onFileDelete, started by a 'rename' event, when the file is really gone;
\* when it still exists the event is handed to onFileChange.
OnFileDelete(h, a) ==
    /\ disk[a] = Gone
    /\ Go(h, "idle", "waiting")
    /\ at' = [at EXCEPT ![h] = a]
    /\ kind' = [kind EXCEPT ![h] = "orphaned"]
    /\ Mutex!Request(h, PalaceOf[a])
    /\ UNCHANGED <<storeVars, bytes, seen, saved, parents, prior, envVars>>

-----------------------------------------------------------------------------
\* The hash check before the mutex.

\* First query of getInscription; null means there is nothing to compare with.
Check1(h) ==
    /\ \/ /\ row[at[h]].present
          /\ Go(h, "check1", "check2")
          /\ seen' = [seen EXCEPT ![h] = row[at[h]]]
          /\ UNCHANGED lockVars
       \/ /\ ~row[at[h]].present
          /\ Go(h, "check1", "waiting")
          /\ Mutex!Request(h, PalaceAt(h))
          /\ UNCHANGED seen
    /\ UNCHANGED <<storeVars, kind, at, bytes, saved, parents, prior, envVars>>

\* Second query, the read policy, and the comparison of the two hashes.
Check2(h) ==
    /\ \/ /\ ~OracleMayRead(at[h])                    \* PolicyDeniedError
          /\ Go(h, "check2", "threw")
          /\ ForgetLocals(h)
          /\ UNCHANGED lockVars
       \/ /\ OracleMayRead(at[h])
          /\ seen[h].src = bytes[h]
          /\ Go(h, "check2", "noop")
          /\ ForgetLocals(h)
          /\ UNCHANGED lockVars
       \/ /\ OracleMayRead(at[h])
          /\ seen[h].src # bytes[h]
          /\ Go(h, "check2", "waiting")
          /\ Mutex!Request(h, PalaceAt(h))
          /\ UNCHANGED handlerVars
    /\ UNCHANGED <<storeVars, envVars>>

Enter(h) ==
    /\ Go(h, "waiting", IF kind[h] = "updated" THEN "fresh1" ELSE "heads")
    /\ Mutex!Grant(h)
    /\ UNCHANGED <<storeVars, handlerVars, envVars>>

-----------------------------------------------------------------------------
\* Inside the mutex.

\* getInscription again; its result gives the revision, no hash is compared.
Fresh1(h) ==
    /\ Go(h, "fresh1", IF row[at[h]].present THEN "fresh2" ELSE "embed")
    /\ seen' = [seen EXCEPT ![h] = row[at[h]]]
    /\ UNCHANGED <<storeVars, bytes, saved, parents, prior>>
    /\ Untouched

Fresh2(h) ==
    \/ /\ OracleMayRead(at[h])
       /\ Go(h, "fresh2", "embed")
       /\ UNCHANGED <<storeVars, handlerVars, lockVars, envVars>>
    \/ /\ ~OracleMayRead(at[h])
       /\ Go(h, "fresh2", "threw")
       /\ Leave(h)
       /\ UNCHANGED <<row, kg, log, envVars>>

\* computeEmbedding: a vector, EmbeddingServiceUnreachable, another error.
Embed(h) ==
    \/ /\ Go(h, "embed", "heads")
       /\ UNCHANGED <<storeVars, handlerVars, lockVars, envVars>>
    \/ /\ Go(h, "embed", "unreachable") \/ Go(h, "embed", "threw")
       /\ Leave(h)
       /\ UNCHANGED <<row, kg, log, envVars>>

Heads(h) ==
    /\ Go(h, "heads", "sign")
    /\ parents' = [parents EXCEPT ![h] = HeadHashes(PalaceAt(h))]
    /\ UNCHANGED <<storeVars, bytes, seen, saved, prior>>
    /\ Untouched

\* oracleSignAction, then setWriteContext in the same turn.
Sign(h) ==
    /\ Go(h, "sign", IF kind[h] = "updated" THEN "reembed" ELSE "record")
    /\ prior' = [prior EXCEPT ![h] = ctx]
    /\ ctx' = PalaceAt(h)
    /\ UNCHANGED <<row, kg, log, bytes, seen, saved, parents>>
    /\ Untouched

\* reembed: nothing for the stored hash, nothing for a missing row.
Reembed(h) ==
    /\ Go(h, "reembed", IF ~row[at[h]].present \/ row[at[h]].src = bytes[h]
                        THEN "triple" ELSE "drop1")
    /\ UNCHANGED <<storeVars, handlerVars, lockVars, envVars>>

\* deleteEmbedding and upsertEmbedding: read row and edges, DETACH DELETE ...
Drop(h, from, to) ==
    /\ Go(h, from, to)
    /\ saved' = [saved EXCEPT ![h] = row[at[h]]]
    /\ row' = [row EXCEPT ![at[h]] = Missing]
    /\ UNCHANGED <<kg, log, ctx, bytes, seen, parents, prior>>
    /\ Untouched

\* Faulty: the orphaned column is not carried over; LIVES_IN is not.
RecreateFresh(h, from, to, emb) ==
    /\ Go(h, from, to)
    /\ row' = [row EXCEPT ![at[h]] =
                  [saved[h] EXCEPT !.emb = emb, !.orphaned = FALSE,
                                   !.contains = FALSE, !.livesIn = FALSE]]
    /\ UNCHANGED <<kg, log, ctx, bytes, seen, saved, parents, prior>>
    /\ Untouched

RejoinContains(h, from, to, contains, livesIn) ==
    /\ Go(h, from, to)
    /\ row' = [row EXCEPT ![at[h]].contains = (@ \/ (contains /\ saved[h].contains))]
    /\ UNCHANGED <<kg, log, ctx, bytes, seen, saved, parents, prior>>
    /\ Untouched

\* ... CREATE the node again with the columns that were read ...
Recreate(h, from, to, emb) ==
    /\ Go(h, from, to)
    /\ row' = [row EXCEPT ![at[h]] =
                  [saved[h] EXCEPT !.emb = emb, !.contains = FALSE, !.livesIn = FALSE]]
    /\ UNCHANGED <<kg, log, ctx, bytes, seen, saved, parents, prior>>
    /\ Untouched

\* ... and each edge that was read, one query per edge.
Rejoin(h, from, to, contains, livesIn) ==
    /\ Go(h, from, to)
    /\ row' = [row EXCEPT ![at[h]].contains = (@ \/ (contains /\ saved[h].contains)),
                          ![at[h]].livesIn = (@ \/ (livesIn /\ saved[h].livesIn))]
    /\ UNCHANGED <<kg, log, ctx, bytes, seen, saved, parents, prior>>
    /\ Untouched

DeleteEmbedding(h) ==
    \/ Drop(h, "drop1", "create1")
    \/ Recreate(h, "create1", "contain1", NoContent)
    \/ Rejoin(h, "contain1", "home1", TRUE, FALSE)
    \/ Rejoin(h, "home1", "drop2", FALSE, TRUE)

UpsertEmbedding(h) ==
    \/ Drop(h, "drop2", "create2")
    \/ Recreate(h, "create2", "contain2", bytes[h])
    \/ Rejoin(h, "contain2", "home2", TRUE, FALSE)
    \/ Rejoin(h, "home2", "setsrc", FALSE, TRUE)

\* The SET that ends reembed.
SetSource(h) ==
    /\ Go(h, "setsrc", "triple")
    /\ row' = [row EXCEPT ![at[h]].src = bytes[h]]
    /\ UNCHANGED <<kg, log, ctx, bytes, seen, saved, parents, prior>>
    /\ Untouched

\* insertTriple: an existing node ends it, else the node and then its edge.
InsertTriple(h) ==
    /\ \/ /\ kg[at[h]] # "absent"
          /\ Go(h, "triple", "record")
          /\ UNCHANGED kg
       \/ /\ kg[at[h]] = "absent"
          /\ Go(h, "triple", "link")
          /\ kg' = [kg EXCEPT ![at[h]] = "node"]
       \/ /\ Go(h, "link", "record")
          /\ kg' = [kg EXCEPT ![at[h]] = "linked"]
    /\ UNCHANGED <<row, log, ctx, handlerVars, lockVars, envVars>>

Signed(h) == [fp |-> h, palace |-> PalaceAt(h), kind |-> kind[h], target |-> at[h],
              hash |-> IF kind[h] = "updated" THEN bytes[h] ELSE NoContent,
              parents |-> parents[h]]

\* Faulty: the metadata is written without the action.
RecordNothing(h) ==
    /\ Go(h, "record", IF kind[h] = "updated" THEN "update" ELSE "orphan")
    /\ UNCHANGED <<storeVars, handlerVars, lockVars, envVars>>

RecordAction(h) ==
    /\ Go(h, "record", IF kind[h] = "updated" THEN "update" ELSE "orphan")
    /\ log' = log \cup {Signed(h)}
    /\ UNCHANGED <<row, kg, ctx, handlerVars, lockVars, envVars>>

\* A SET on a node that is not there changes nothing.
UpdateInscription(h) ==
    /\ Go(h, "update", "finish")
    /\ row' = IF row[at[h]].present
              THEN [row EXCEPT ![at[h]].src = bytes[h], ![at[h]].rev = seen[h].rev + 1]
              ELSE row
    /\ UNCHANGED <<kg, log, ctx, handlerVars, lockVars, envVars>>

MarkOrphaned(h) ==
    /\ Go(h, "orphan", "finish")
    /\ row' = [row EXCEPT ![at[h]].orphaned = row[at[h]].present]
    /\ UNCHANGED <<kg, log, ctx, handlerVars, lockVars, envVars>>

Finish(h) ==
    /\ Go(h, "finish", "done")
    /\ Leave(h)
    /\ UNCHANGED <<row, kg, log, envVars>>

-----------------------------------------------------------------------------
\* Failures.

\* A query, the key file or the signer throws: nothing is undone.
FailStep(h) ==
    /\ faults < MaxFaults
    /\ \E from \in (LockedSteps \cup WriteSteps) \ {"embed", "finish"} : Go(h, from, "threw")
    /\ Leave(h)
    /\ faults' = faults + 1
    /\ UNCHANGED <<row, kg, log, disk, edits>>

\* The process dies: what the store holds stays, everything in memory is gone.
Crash ==
    /\ faults < MaxFaults
    /\ faults' = faults + 1
    /\ pc' = [h \in Handlers |->
                 IF pc[h] \in {"idle"} \cup EndSteps THEN pc[h] ELSE "dead"]
    /\ ctx' = Default
    /\ bytes' = [h \in Handlers |-> Origin]
    /\ seen' = [h \in Handlers |-> Missing]
    /\ saved' = [h \in Handlers |-> Missing]
    /\ parents' = [h \in Handlers |-> {}]
    /\ prior' = [h \in Handlers |-> Default]
    /\ Mutex!Abandon
    /\ UNCHANGED <<row, kg, log, kind, at, disk, edits>>

HandlerStep(h) ==
    \/ Check1(h) \/ Check2(h) \/ Enter(h) \/ Fresh1(h) \/ Fresh2(h)
    \/ Embed(h) \/ Heads(h) \/ Sign(h) \/ Reembed(h)
    \/ DeleteEmbedding(h) \/ UpsertEmbedding(h) \/ SetSource(h)
    \/ InsertTriple(h) \/ RecordAction(h)
    \/ UpdateInscription(h) \/ MarkOrphaned(h) \/ Finish(h)

Next ==
    \/ \E a \in Avatars, v \in Contents \cup {Gone} : Edit(a, v)
    \/ \E f \in Traversals : RecordTraversal(f)
    \/ \E h \in Handlers, a \in Avatars : OnFileChange(h, a) \/ OnFileDelete(h, a)
    \/ \E h \in Handlers : HandlerStep(h) \/ FailStep(h)
    \/ Crash

Spec == Init /\ [][Next]_vars

\* A promise that settled runs its continuation: every step of a handler that
\* stays enabled is taken.  Nothing is assumed of the editor or of events.
FairSpec == Spec /\ \A h \in Handlers : WF_vars(HandlerStep(h))

-----------------------------------------------------------------------------
\* Safety.

\* Updates and orphanings of one palace are serialised: at most one handler is
\* between acquirePalaceMutex and release() for it.
WritersExcluded ==
    \A g, h \in Handlers :
        (InSection(g) /\ InSection(h) /\ PalaceAt(g) = PalaceAt(h)) => g = h

\* The oracle's actions of palace p that no other action of the oracle follows.
OracleTips(p) ==
    LET mine == {x \in log : x.palace = p /\ x.kind # "other"}
    IN  {x \in mine : \A y \in mine : x.fp \notin y.parents}

\* The oracle's own history of a palace never forks, however handlers, crashes
\* and actions of the server interleave: headHashes is read, the action signed
\* and recorded with no other handler of the palace in between.
OracleHistoryLinear ==
    \A p \in Palaces : \A x, y \in OracleTips(p) : x = y

Updates(a) == {x \in log : x.kind = "updated" /\ x.target = a}
Orphanings(a) == {x \in log : x.kind = "orphaned" /\ x.target = a}

\* Whatever fails or crashes, a revision and an orphan mark are backed by signed
\* actions: updateInscription and markOrphaned follow recordAction.
MetadataBacked ==
    \A a \in Avatars : /\ row[a].rev <= Cardinality(Updates(a))
                       /\ row[a].orphaned => Orphanings(a) # {}

\* No handler is between its lock and its release for palace p.
Quiet(p) == \A h \in Handlers : InSection(h) => PalaceAt(h) # p

\* The hash the last signed update of a names; its first content if there is none.
AuditedHash(a) ==
    IF Updates(a) = {} THEN Origin
    ELSE (CHOOSE x \in Updates(a) : \A y \in Updates(a) : ticket[y.fp] <= ticket[x.fp]).hash

\* The stored inscription and the signed history say the same.
AuditAgrees(a) ==
    /\ row[a].present
    /\ row[a].src = AuditedHash(a)
    /\ row[a].emb = row[a].src
    /\ row[a].rev = Cardinality(Updates(a))
    /\ row[a].orphaned <=> Orphanings(a) # {}

\* Where nothing failed, an inscription at rest agrees with its history: source,
\* embedding, revision and orphan mark, after any interleaving of handlers.
RestAgrees ==
    faults = 0 => \A a \in Avatars : Quiet(PalaceOf[a]) => AuditAgrees(a)

\* Where nothing failed, what surrounds an inscription in the graph is complete:
\* the delete-and-recreate of reembed has restored both its edges by the time the
\* mutex is free, and the oracle knows the lives-in triple of an updated one.
RestJoined ==
    faults = 0 => \A a \in Avatars :
                     /\ Quiet(PalaceOf[a]) => row[a].contains /\ row[a].livesIn
                     /\ Updates(a) # {} => kg[a] = "linked"

\* setWriteContext and its restore(): while no handler writes, the store is back
\* in the custodian's context (store-types.ts).
ContextRestored ==
    (\A h \in Handlers : pc[h] \notin WriteSteps) => ctx = Default

-----------------------------------------------------------------------------
\* Liveness.

\* Every event is answered: no failure of the embedding service, of a query or
\* of an earlier handler wedges the palace (AC4).
HandlersFinish == \A h \in Handlers : pc[h] # "idle" ~> pc[h] \in EndSteps

=============================================================================
