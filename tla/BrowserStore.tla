---------------------------- MODULE BrowserStore ----------------------------
(***************************************************************************)
(* The browser adapter of the palace store, one page, and the viewer that  *)
(* records walks through it (src/memory-palace/store.browser.ts,           *)
(* action-mirror.ts, src/lib/components/DreamBallViewer.svelte).           *)
(*                                                                         *)
(* kuzu-wasm keeps the database in a file system in memory; syncfs copies  *)
(* it from and to IndexedDB.  A verb is an async method that awaits one    *)
(* query after another, without a transaction, so a call is a list of      *)
(* steps still to run, and steps of several calls interleave.  Any step    *)
(* may be the one that fails, and the page may be reloaded at any moment:  *)
(* what was only in memory is then gone.                                   *)
(*                                                                         *)
(* One Host opens and closes the store and calls verbs one after the       *)
(* other.  Clicks are navigate events the viewer handles while the Host or *)
(* another click is still waiting; a component may also call open()        *)
(* "defensively", as docs/decisions/2026-04-22-store-browser-adapter.md    *)
(* invites it to.  Writes are the custodian's, so the write gate allows.   *)
(***************************************************************************)
EXTENDS PalaceGraph

CONSTANTS
    Host,          \* the component that owns the store
    Clicks,        \* calls of handleNavigate and of open() by other components
    Verbs,         \* the verbs the Host may use
    None,          \* no room yet
    Seeds,         \* databases a former session may have left in IndexedDB
    MaxOps,        \* bound: verbs, navigations and defensive calls of open()
    MaxFaults      \* bound: failing steps and reloads

Calls == {Host} \cup Clicks

ASSUME StoreCallsAssumption == Host \notin Clicks /\ None \notin Rooms
\* The recorded walks along an aqueduct, and a graph that has counted them.
Walked(g, q) == {m \in Moves : Exists(g, m) /\ Aqueduct(m[1], m[2]) = q}

Tallied(g, q) ==
    /\ \A f \in g : f[1] = "strength" /\ f[2] = q => Cardinality(Walked(g, q)) <= f[3]
    /\ Walked(g, q) # {} => Exists(g, q)

\* The palace has one mythos head when a caller relies on one, and the column
\* agrees with the edge.
OneHead(g, relied) ==
    \A f \in relied : f[1] = "MYTHOS_HEAD" =>
        {h \in g : h[1] \in {"MYTHOS_HEAD", "head"}} = {f, <<"head", Palace, f[3]>>}

\* The ends of the edges of a graph are nodes of it, and so is what has a head.
Rooted(g) ==
    \A f \in g : /\ f[1] \in Labels => Exists(g, f[2]) /\ Exists(g, f[3])
                 /\ f[1] = "head" => Exists(g, f[2])

\* Callers rely on all of the databases former sessions left, and walks did not
\* overlap in those: overlapped tells of those that did since.
ASSUME StoreSeedsAssumption ==
    /\ Seeds \subseteq SUBSET Facts
    /\ \A g \in Seeds : Rooted(g) /\ OneHead(g, g) /\ \A q \in Aqueducts : Tallied(g, q)
ASSUME StoreRoomsAssumption == IsFiniteSet(Rooms)
ASSUME StoreBoundsAssumption == MaxOps \in Nat /\ MaxFaults \in Nat /\ MaxClock \in Nat

VARIABLES
    disk, mem,     \* the database in IndexedDB and in memory
    mounted,       \* /data is an IDBFS mount
    conn,          \* this.conn: "none", "open", or "closed" but not yet null
    op, todo,      \* per call: what it does, and its steps still to run
    memo,          \* per call: what its reads returned
    owed,          \* per call: what the caller may rely on once it resolves
    acked, saved,  \* what callers rely on, now and after a reload
    room, painted, \* the viewer: currentRoomFp, and the arcs it has drawn
    overlapped,    \* aqueducts two calls have strengthened at the same time
    clock, spent, faults

graphs  == <<disk, mem, mounted, conn>>
claims  == <<acked, saved>>
viewer  == <<room, painted>>
bounds  == <<clock, spent, faults>>
vars    == <<graphs, op, todo, memo, owed, claims, viewer, overlapped, bounds>>

Idle == <<"idle">>

-----------------------------------------------------------------------------
\* Steps: one awaited statement each.

Probe(facts, found, missing) ==
    [do |-> "probe", facts |-> facts, found |-> found, missing |-> missing]
Must(n)             == [do |-> "must", node |-> n]
Create(n, columns)  == [do |-> "create", node |-> n, columns |-> columns]
Join(e)             == [do |-> "join", edge |-> e]
Unjoin(label, n)    == [do |-> "unjoin", label |-> label, node |-> n]
Drop(n)             == [do |-> "drop", node |-> n]
Assign(n, values)   == [do |-> "assign", node |-> n, values |-> values]
Row(a, rest)        == [do |-> "row", node |-> a, rest |-> rest]
ReadEdges(label, a) == [do |-> "edges", label |-> label, node |-> a]
Put(a, embedded)    == [do |-> "put", node |-> a, embedded |-> embedded]
Rejoin              == [do |-> "rejoin"]
ReadStrength(q)     == [do |-> "strength", node |-> q]
Raise(q)            == [do |-> "raise", node |-> q]

Do(name) == <<[do |-> name]>>

Lifecycle == {"mount", "load", "ddl", "disconnect", "shut", "save", "unmount"}

\* The steps that hold no other steps, and all steps.
Simple ==
    [do : {"must", "drop", "strength", "raise"}, node : Nodes]
        \cup [do : {"create"}, node : Nodes, columns : SUBSET Facts]
        \cup [do : {"join"}, edge : Labels \X Nodes \X Nodes]
        \cup [do : {"unjoin", "edges"}, label : Labels, node : Nodes]
        \cup [do : {"assign"}, node : Nodes, values : SUBSET Facts]
        \cup [do : {"put"}, node : Avatars, embedded : BOOLEAN]
        \cup [do : Lifecycle \cup {"rejoin"}]

Steps ==
    LET Rows == [do : {"row"}, node : Nodes, rest : Seq(Simple)]
    IN  Simple \cup Rows
            \cup [do : {"probe"}, facts : SUBSET (Facts \cup (Labels \X Nodes \X Nodes)),
                 found : Seq(Simple \cup Rows), missing : Seq(Simple \cup Rows)]

EnsureNode(n, columns) == <<Probe({<<"node", n>>}, <<>>, <<Create(n, columns)>>)>>
EnsureEdge(e) == <<Probe({e}, <<>>, <<Join(e)>>)>>

-----------------------------------------------------------------------------
\* The verbs.

EnsurePalace == EnsureNode(Palace, {})

AddRoom(r) == EnsureNode(r, {}) \o EnsureEdge(<<"CONTAINS", Palace, r>>)

InscribeAvatar(r, a, c) ==
    EnsureNode(a, {<<"source", a, c>>, <<"revision", a, 0>>, <<"orphaned", a, FALSE>>})
        \o EnsureEdge(<<"CONTAINS", r, a>>) \o EnsureEdge(<<"LIVES_IN", a, r>>)

\* The head edge is deleted before the new one is created.
SwapHead(m) == <<Unjoin("MYTHOS_HEAD", Palace), Join(<<"MYTHOS_HEAD", Palace, m>>)>>

HeadColumn(m) == <<Assign(Palace, {<<"head", Palace, m>>})>>

\* Mutant of SetMythosHead: the old edge stays.
SetMythosHeadKept(m) ==
    EnsureNode(m, {}) \o <<Join(<<"MYTHOS_HEAD", Palace, m>>)>> \o HeadColumn(m)

SetMythosHead(m) == EnsureNode(m, {}) \o SwapHead(m) \o HeadColumn(m)

AppendMythos(m, p) == EnsureNode(m, {}) \o EnsureEdge(<<"PREDECESSOR", m, p>>)

\* In this adapter a row that exists is a primary-key conflict.
RecordAction(x) == <<Create(x, {})>>

\* A column of the vector index cannot be set: the node is deleted, edges and
\* all, and created again from what was read.
\* Mutant of Rebuild: the rooms it lives in are not read.
RebuildHomeless(a, embedded) ==
    <<Row(a, <<ReadEdges("CONTAINS", a), Drop(a), Put(a, embedded), Rejoin>>)>>

Rebuild(a, embedded) ==
    <<Row(a, <<ReadEdges("CONTAINS", a), ReadEdges("LIVES_IN", a), Drop(a),
               Put(a, embedded), Rejoin>>)>>

UpsertEmbedding(a) == Rebuild(a, TRUE)
DeleteEmbedding(a) == Rebuild(a, FALSE)

Reembed(a, c) ==
    <<Probe({<<"source", a, c>>}, <<>>,
            DeleteEmbedding(a) \o UpsertEmbedding(a) \o <<Assign(a, {<<"source", a, c>>})>>)>>

InsertTriple(t) ==
    <<Probe({<<"node", t>>}, <<>>, <<Create(t, {}), Join(<<"HAS_KNOWLEDGE", Oracle, t>>)>>)>>
DeleteTriple(t) == <<Drop(t)>>
UpdateTriple(t, u) == DeleteTriple(t) \o InsertTriple(u)

UpdateInscription(a, c, n) == <<Assign(a, {<<"source", a, c>>, <<"revision", a, n>>})>>
MarkOrphaned(a) == <<Assign(a, {<<"orphaned", a, TRUE>>})>>

\* An aqueduct is looked up by its edges, which have a direction, and created
\* under its fingerprint, which has none.
GetOrCreateAqueduct(x, y) ==
    LET q    == Aqueduct(x, y)
        from == <<"AQUEDUCT_FROM", q, x>>
        to   == <<"AQUEDUCT_TO", q, y>>
    IN  <<Probe({from, to}, <<>>,
                <<Create(q, {<<"strength", q, 0>>}), Join(from), Join(to),
                  Create(Birth(q), {})>>)>>

\* Mutant of UpdateAqueductStrength: the new value is not stored.
UpdateAqueductNothing(q) == <<ReadStrength(q)>>

UpdateAqueductStrength(q) == <<ReadStrength(q), Raise(q)>>

Walk(x, y) == GetOrCreateAqueduct(x, y) \o UpdateAqueductStrength(Aqueduct(x, y))

\* Mutant of RecordTraversal: it answers before the move is recorded.
RecordTraversalEarly(x, y, at) == Walk(x, y)

\* The aqueduct's existence is read first, for the flag of the result only.
RecordTraversal(x, y, at) ==
    Walk(x, y) \o <<Create(<<x, y, at>>, {}), Must(Aqueduct(x, y))>>

\* mirrorAction: the action's row, then what its kind does.
MirrorKind(k) ==
    CASE k[1] = "palace-minted"       -> EnsurePalace
      [] k[1] = "room-added"          -> AddRoom(k[2])
      [] k[1] = "avatar-inscribed"    -> InscribeAvatar(k[2], k[3], k[4])
      [] k[1] = "aqueduct-created"    ->
            LET q == Aqueduct(k[2], k[3])
            IN  EnsureNode(q, {<<"strength", q, 0>>})
                    \o EnsureEdge(<<"AQUEDUCT_FROM", q, k[2]>>)
                    \o EnsureEdge(<<"AQUEDUCT_TO", q, k[3]>>)
      [] k[1] = "true-naming"         ->
            EnsureNode(k[2], {}) \o SwapHead(k[2])
                \o EnsureEdge(<<"PREDECESSOR", k[2], k[3]>>) \o HeadColumn(k[2])
      [] k[1] = "move"                -> Walk(k[2], k[3])
      [] k[1] = "inscription-updated" -> <<Assign(k[2], {<<"source", k[2], k[3]>>})>>
      [] k[1] = "inscription-orphaned" -> MarkOrphaned(k[2])
      [] OTHER                        -> <<>>

MirrorAction(x, k) ==
    (IF k[1] = "palace-minted" THEN <<>> ELSE <<Must(Palace)>>)
        \o EnsureNode(x, {}) \o MirrorKind(k)

\* The database the next session, or this one, reads.
Current == IF mem = {} THEN disk ELSE mem

-----------------------------------------------------------------------------
\* What a caller may call, and what it relies on once the call has resolved.

MirrorKinds ==
    ({"palace-minted", "inscription-pending-embedding"} \X {Palace})
        \cup ({"room-added"} \X Rooms)
        \cup ({"avatar-inscribed"} \X Rooms \X Avatars \X Contents)
        \cup ({"aqueduct-created", "move"} \X Rooms \X Rooms)
        \cup ({"true-naming"} \X Mythoi \X Mythoi)
        \cup ({"inscription-updated"} \X Avatars \X Contents)
        \cup ({"inscription-orphaned"} \X Avatars)

AllVerbs ==
    ({"ensurePalace"} \X {Palace}) \cup ({"createAgent"} \X {Oracle})
        \cup ({"addRoom"} \X Rooms)
        \cup ({"inscribeAvatar"} \X Rooms \X Avatars \X Contents)
        \cup ({"setMythosHead"} \X Mythoi) \cup ({"appendMythos"} \X Mythoi \X Mythoi)
        \cup ({"recordAction"} \X Actions)
        \cup ({"upsertEmbedding", "deleteEmbedding", "markOrphaned"} \X Avatars)
        \cup ({"reembed"} \X Avatars \X Contents)
        \cup ({"updateInscription"} \X Avatars \X Contents \X {0, 1})
        \cup ({"insertTriple", "deleteTriple"} \X Triples)
        \cup ({"updateTriple"} \X Triples \X Triples)
        \cup ({"getOrCreateAqueduct"} \X Rooms \X Rooms)
        \cup ({"mirrorAction"} \X Actions \X MirrorKinds)

Navigations == {"navigate"} \X ({Palace} \cup Rooms) \X Rooms \X (0 .. MaxClock)
LifecycleOps == {<<"open">>, <<"close">>, <<"syncfs">>}
Ops == {Idle} \cup LifecycleOps \cup AllVerbs \cup Navigations

\* createAgent goes through __rawQuery, as in palace-mint.ts.
Script(v) ==
    CASE v[1] = "ensurePalace"        -> EnsurePalace
      [] v[1] = "createAgent"         -> EnsureNode(v[2], {})
      [] v[1] = "addRoom"             -> AddRoom(v[2])
      [] v[1] = "inscribeAvatar"      -> InscribeAvatar(v[2], v[3], v[4])
      [] v[1] = "setMythosHead"       -> SetMythosHead(v[2])
      [] v[1] = "appendMythos"        -> AppendMythos(v[2], v[3])
      [] v[1] = "recordAction"        -> RecordAction(v[2])
      [] v[1] = "upsertEmbedding"     -> UpsertEmbedding(v[2])
      [] v[1] = "deleteEmbedding"     -> DeleteEmbedding(v[2])
      [] v[1] = "markOrphaned"        -> MarkOrphaned(v[2])
      [] v[1] = "reembed"             -> Reembed(v[2], v[3])
      [] v[1] = "updateInscription"   -> UpdateInscription(v[2], v[3], v[4])
      [] v[1] = "insertTriple"        -> InsertTriple(v[2])
      [] v[1] = "deleteTriple"        -> DeleteTriple(v[2])
      [] v[1] = "updateTriple"        -> UpdateTriple(v[2], v[3])
      [] v[1] = "getOrCreateAqueduct" -> GetOrCreateAqueduct(v[2], v[3])
      [] v[1] = "mirrorAction"        -> MirrorAction(v[2], v[3])
      [] OTHER                        -> RecordTraversal(v[2], v[3], v[4])

Passage(x, y) ==
    LET q == Aqueduct(x, y)
    IN  {<<"node", q>>} \cup ({<<"AQUEDUCT_FROM", q, x>>, <<"AQUEDUCT_TO", q, y>>} \cap Edges)

\* The graph a call that resolves has left, by the StoreAPI's contract
\* (store-types.ts); the ends its edges need must be known to exist.
Contract(v) ==
    CASE v[1] \in {"ensurePalace", "createAgent", "recordAction", "palace-minted"} ->
            {<<"node", v[2]>>}
      [] v[1] \in {"addRoom", "room-added"} ->
            {<<"node", v[2]>>, <<"CONTAINS", Palace, v[2]>>}
      [] v[1] \in {"inscribeAvatar", "avatar-inscribed"} ->
            {<<"node", v[3]>>, <<"CONTAINS", v[2], v[3]>>, <<"LIVES_IN", v[3], v[2]>>}
      [] v[1] = "setMythosHead" ->
            {<<"node", v[2]>>, <<"MYTHOS_HEAD", Palace, v[2]>>, <<"head", Palace, v[2]>>}
      [] v[1] = "true-naming" ->
            {<<"node", v[2]>>, <<"MYTHOS_HEAD", Palace, v[2]>>, <<"head", Palace, v[2]>>,
             <<"PREDECESSOR", v[2], v[3]>>}
      [] v[1] = "appendMythos" -> {<<"node", v[2]>>, <<"PREDECESSOR", v[2], v[3]>>}
      [] v[1] = "upsertEmbedding" -> {<<"embedded", v[2], TRUE>>}
      [] v[1] = "deleteEmbedding" -> {<<"embedded", v[2], FALSE>>}
      [] v[1] \in {"reembed", "inscription-updated"} -> {<<"source", v[2], v[3]>>}
      [] v[1] = "updateInscription" -> {<<"source", v[2], v[3]>>, <<"revision", v[2], v[4]>>}
      [] v[1] \in {"markOrphaned", "inscription-orphaned"} -> {<<"orphaned", v[2], TRUE>>}
      [] v[1] = "insertTriple" -> {<<"node", v[2]>>, <<"HAS_KNOWLEDGE", Oracle, v[2]>>}
      [] v[1] = "updateTriple" -> {<<"node", v[3]>>, <<"HAS_KNOWLEDGE", Oracle, v[3]>>}
      [] v[1] \in {"getOrCreateAqueduct", "aqueduct-created", "move"} -> Passage(v[2], v[3])
      [] v[1] = "navigate" ->
            Passage(v[2], v[3]) \cup {<<"node", <<v[2], v[3], v[4]>> >>}
      [] OTHER -> {}

Promise(v) ==
    IF v[1] = "mirrorAction" THEN {<<"node", v[2]>>} \cup Contract(v[3]) ELSE Contract(v)

\* The inscription it recreates, the column or the head it replaces: what the
\* caller stops relying on while the call runs, and for good when it fails.
Suspended(v) ==
    LET k == IF v[1] = "mirrorAction" THEN v[3] ELSE v
        Replaced(f) == \E w \in Contract(k) : f[1] = w[1] /\ f[2] = w[2]
    IN  IF k[1] \in {"upsertEmbedding", "deleteEmbedding", "reembed", "deleteTriple",
                     "updateTriple"}
        THEN Of(acked, k[2])
        ELSE {f \in acked : f[1] \in {"MYTHOS_HEAD", "head", "source", "revision", "orphaned"}
                                /\ Replaced(f)}

\* What it may rely on again, and anew, once the call has resolved.  An edge or
\* a column is owed when the nodes it needs are known to exist, and the edge of
\* a triple when the triple is new: a row an interrupted insertTriple left
\* behind is taken for the whole.
Owed(v) ==
    LET known == {f[2] : f \in {f \in acked \cup Promise(v) : f[1] = "node"}}
        Due(f) == /\ f[1] \in Labels => {f[2], f[3]} \subseteq known
                  /\ f[1] = "HAS_KNOWLEDGE" => ~ Exists(Current, f[3])
                  /\ f[2] \in known
        kept == IF v[1] \in {"deleteTriple", "updateTriple"} THEN {}
                ELSE {f \in Suspended(v) : ~ \E w \in Promise(v) : f[1] = w[1] /\ f[2] = w[2]}
    IN  {f \in Promise(v) : Due(f)} \cup {f \in kept : v[1] = "reembed" => f[1] # "embedded"}

-----------------------------------------------------------------------------
\* Calls.

NextStep(c) == Head(todo[c])
Waiting(c, kind) == todo[c] # <<>> /\ NextStep(c).do = kind

Init ==
    /\ disk \in Seeds
    /\ mem = {} /\ mounted = FALSE /\ conn = "none"
    /\ op = [c \in Calls |-> Idle] /\ todo = [c \in Calls |-> <<>>]
    /\ memo = [c \in Calls |-> {}] /\ owed = [c \in Calls |-> {}]
    /\ saved = {f \in disk : f[1] # "strength"} /\ acked = saved
    /\ room = None /\ painted = {} /\ overlapped = {}
    /\ clock = 0 /\ spent = 0 /\ faults = 0

\* The aqueduct a call strengthens.
Strengthens(v, q) ==
    \/ v[1] = "navigate" /\ q = Aqueduct(v[2], v[3])
    \/ v[1] = "mirrorAction" /\ v[3][1] = "move" /\ q = Aqueduct(v[3][2], v[3][3])

Began(c, v, steps) ==
    /\ op[c] = Idle
    /\ op' = [op EXCEPT ![c] = v]
    /\ todo' = [todo EXCEPT ![c] = steps]

Call(c, v) ==
    /\ spent < MaxOps /\ spent' = spent + 1
    /\ Began(c, v, Script(v))
    /\ owed' = [owed EXCEPT ![c] = Owed(v)]
    /\ acked' = acked \ Suspended(v)
    /\ overlapped' = overlapped \cup
            {q \in Aqueducts : Strengthens(v, q) /\ \E d \in Calls \ {c} : Strengthens(op[d], q)}
    /\ UNCHANGED <<graphs, memo, saved, viewer, faults>>

\* The Host opens the store before it uses it.
Verb(v) == v[1] \in Verbs /\ conn # "none" /\ Call(Host, v) /\ UNCHANGED clock

\* handleNavigate: from the room the viewer believes it is in, at first from
\* the palace, to a room it shows.
Navigate(c, r) ==
    /\ Exists(mem, r)
    /\ clock' \in {clock, clock + 1} \cap (0 .. MaxClock)
    /\ Call(c, <<"navigate", IF room = None THEN Palace ELSE room, r, clock'>>)

\* With a connection open() returns at once, whether or not the tables exist.
Open(c) ==
    /\ Began(c, <<"open">>, IF conn = "none" THEN Do("mount") \o Do("load") \o Do("ddl")
                            ELSE <<>>)
    /\ IF c = Host THEN UNCHANGED spent ELSE spent < MaxOps /\ spent' = spent + 1
    /\ UNCHANGED <<graphs, memo, owed, claims, viewer, overlapped, clock, faults>>

Close ==
    /\ Began(Host, <<"close">>,
             IF conn = "none" THEN <<>>
             ELSE Do("disconnect") \o Do("shut") \o Do("save") \o Do("unmount"))
    /\ UNCHANGED <<graphs, memo, owed, claims, viewer, overlapped, bounds>>

\* syncfs('out') by the owner of an open store.
SyncOut ==
    /\ conn # "none"
    /\ Began(Host, <<"syncfs">>, Do("save"))
    /\ UNCHANGED <<graphs, memo, owed, claims, viewer, overlapped, bounds>>

\* The promise settles; the viewer goes on from its await.
Ended(c) ==
    /\ op' = [op EXCEPT ![c] = Idle]
    /\ todo' = [todo EXCEPT ![c] = <<>>]
    /\ memo' = [memo EXCEPT ![c] = {}]
    /\ owed' = [owed EXCEPT ![c] = {}]
    /\ room' = IF op[c][1] = "navigate" THEN op[c][3] ELSE room

Resolve(c) ==
    /\ op[c] # Idle /\ todo[c] = <<>>
    /\ Ended(c)
    /\ acked' = acked \cup owed[c]
    /\ painted' = IF op[c] \in Navigations
                  THEN painted \cup {<<op[c][2], op[c][3], op[c][4]>>} ELSE painted
    /\ UNCHANGED <<graphs, saved, overlapped, bounds>>

Rejected(c) == Ended(c) /\ UNCHANGED <<graphs, claims, painted, overlapped, clock, spent>>

-----------------------------------------------------------------------------
\* Steps of open() and close().

Goes(c, name) ==
    /\ Waiting(c, name)
    /\ todo' = [todo EXCEPT ![c] = Tail(@)]
    /\ UNCHANGED <<op, memo, owed, viewer, overlapped, bounds>>

\* A second mount of /data is EBUSY.
Mount(c) ==
    /\ ~ mounted
    /\ Goes(c, "mount")
    /\ mounted' = TRUE
    /\ UNCHANGED <<disk, mem, conn, claims>>

\* syncfs(true), then the database and the connection are made at once.
Load(c) ==
    /\ Goes(c, "load")
    /\ mem' = disk /\ conn' = "open"
    /\ UNCHANGED <<disk, mounted, claims>>

\* runDDL: one CREATE TABLE for each table SHOW_TABLES did not list.
CreateTables(c) ==
    /\ Waiting(c, "ddl") /\ conn = "open"
    /\ \E s \in Schema : <<"table", s>> \notin mem /\ mem' = mem \cup {<<"table", s>>}
    /\ UNCHANGED <<disk, mounted, conn, op, todo, memo, owed, claims, viewer, overlapped, bounds>>

TablesExist == \A s \in Schema : <<"table", s>> \in mem

TablesDone(c) == TablesExist /\ conn = "open" /\ Goes(c, "ddl") /\ UNCHANGED <<graphs, claims>>

Disconnect(c) ==
    /\ Goes(c, "disconnect")
    /\ conn' = "closed"
    /\ UNCHANGED <<disk, mem, mounted, claims>>

Shut(c) ==
    /\ Goes(c, "shut")
    /\ conn' = "none"
    /\ UNCHANGED <<disk, mem, mounted, claims>>

\* syncfs(false).
Save(c) ==
    /\ Goes(c, "save")
    /\ disk' = mem
    /\ saved' = acked
    /\ UNCHANGED <<mem, mounted, conn, acked>>

Unmount(c) ==
    /\ Goes(c, "unmount")
    /\ mounted' = FALSE /\ mem' = {}
    /\ UNCHANGED <<disk, conn, claims>>

-----------------------------------------------------------------------------
\* Queries.

Usable == conn = "open" /\ TablesExist

\* A query that reads, and what the call does next because of it.
Read(c) ==
    /\ todo[c] # <<>> /\ Usable
    /\ LET s == NextStep(c)
           rest == Tail(todo[c])
       IN  \/ /\ s.do = "probe"
              /\ todo' = [todo EXCEPT ![c] =
                            (IF s.facts \subseteq mem THEN s.found ELSE s.missing) \o rest]
              /\ UNCHANGED memo
           \/ /\ s.do = "must" /\ Exists(mem, s.node)
              /\ todo' = [todo EXCEPT ![c] = rest]
              /\ UNCHANGED memo
           \/ /\ s.do = "row"
              /\ todo' = [todo EXCEPT ![c] =
                            IF Exists(mem, s.node) THEN s.rest \o rest ELSE rest]
              /\ memo' = [memo EXCEPT ![c] = RowOf(mem, s.node)]
           \/ /\ s.do = "edges"
              /\ todo' = [todo EXCEPT ![c] = rest]
              /\ memo' = [memo EXCEPT ![c] = @ \cup EdgesOf(mem, s.label, s.node)]
           \/ /\ s.do = "strength" /\ Exists(mem, s.node)
              /\ todo' = [todo EXCEPT ![c] = rest]
              /\ memo' = [memo EXCEPT ![c] =
                            {f \in mem : f[1] = "strength" /\ f[2] = s.node}]
    /\ UNCHANGED <<graphs, op, owed, claims, viewer, overlapped, bounds>>

\* A query that writes.
Written(s, m) ==
    CASE s.do = "create" -> Created(mem, s.node, s.columns)
      [] s.do = "join"   -> Joined(mem, s.edge)
      [] s.do = "unjoin" -> Unjoined(mem, s.label, s.node)
      [] s.do = "drop"   -> Dropped(mem, s.node)
      [] s.do = "assign" -> Assigned(mem, s.node, s.values)
      [] s.do = "put"    -> Created(mem, s.node, (m \ Edges) \cup {<<"embedded", s.node, s.embedded>>})
      [] OTHER           -> Assigned(mem, s.node, {<<"strength", s.node, f[3] + 1>> : f \in m})

Write(c) ==
    /\ todo[c] # <<>> /\ Usable
    /\ LET s == NextStep(c)
       IN  /\ s.do \in {"create", "join", "unjoin", "drop", "assign", "put", "raise"}
           /\ s.do \in {"create", "put"} => ~ Exists(mem, s.node)
           /\ mem' = Written(s, memo[c])
           /\ memo' = [memo EXCEPT ![c] = IF s.do = "put" THEN @ \cap Edges ELSE @]
           /\ todo' = [todo EXCEPT ![c] = Tail(@)]
    /\ UNCHANGED <<disk, mounted, conn, op, owed, claims, viewer, overlapped, bounds>>

\* One CREATE for each edge that was read before the node was deleted.
Rejoins(c) ==
    /\ Waiting(c, "rejoin") /\ Usable
    /\ IF memo[c] = {}
       THEN todo' = [todo EXCEPT ![c] = Tail(@)] /\ UNCHANGED <<mem, memo>>
       ELSE \E e \in memo[c] :
                /\ mem' = Joined(mem, e)
                /\ memo' = [memo EXCEPT ![c] = @ \ {e}]
                /\ UNCHANGED todo
    /\ UNCHANGED <<disk, mounted, conn, op, owed, claims, viewer, overlapped, bounds>>

\* The step throws: the mount is busy, the connection is closed, a table is
\* missing, the primary key exists, a node is not found.
Refused(c) ==
    /\ todo[c] # <<>>
    /\ LET s == NextStep(c)
       IN  \/ s.do = "mount" /\ mounted
           \/ s.do = "ddl" /\ conn # "open"
           \/ s.do \notin Lifecycle /\ ~ Usable
           \/ s.do \in {"create", "put"} /\ Exists(mem, s.node)
           \/ s.do \in {"must", "strength"} /\ ~ Exists(mem, s.node)
    /\ Rejected(c)
    /\ UNCHANGED faults

\* Any step may fail: the worker, the quota of IndexedDB, memory.
Fail(c) ==
    /\ faults < MaxFaults /\ faults' = faults + 1
    /\ todo[c] # <<>>
    /\ Rejected(c)

\* The page is reloaded or closed.
Reload ==
    /\ faults < MaxFaults /\ faults' = faults + 1
    /\ mem' = {} /\ mounted' = FALSE /\ conn' = "none"
    /\ op' = [c \in Calls |-> Idle] /\ todo' = [c \in Calls |-> <<>>]
    /\ memo' = [c \in Calls |-> {}] /\ owed' = [c \in Calls |-> {}]
    /\ acked' = saved
    /\ room' = None /\ painted' = {}
    /\ UNCHANGED <<disk, saved, overlapped, clock, spent>>

Step(c) ==
    \/ Mount(c) \/ Load(c) \/ CreateTables(c) \/ TablesDone(c)
    \/ Disconnect(c) \/ Shut(c) \/ Save(c) \/ Unmount(c)
    \/ Read(c) \/ Write(c) \/ Rejoins(c) \/ Refused(c) \/ Resolve(c)

Next ==
    \/ \E v \in AllVerbs : Verb(v)
    \/ \E c \in Clicks, r \in Rooms : Navigate(c, r)
    \/ \E c \in Calls : Open(c)
    \/ Close
    \/ SyncOut
    \/ \E c \in Calls : Step(c)
    \/ \E c \in Calls : Fail(c)
    \/ Reload

Spec == Init /\ [][Next]_vars

-----------------------------------------------------------------------------
\* Properties.

\* Every variable keeps its type: the graphs hold facts the schema allows and
\* calls wait at steps of the scripts.
TypeOK ==
    /\ disk \in SUBSET Facts /\ mem \in SUBSET Facts
    /\ mounted \in BOOLEAN /\ conn \in {"none", "open", "closed"}
    /\ op \in [Calls -> Ops]
    /\ todo \in [Calls -> Seq(Steps)]
    /\ memo \in [Calls -> SUBSET Facts] /\ owed \in [Calls -> SUBSET Facts]
    /\ acked \in SUBSET Facts /\ saved \in SUBSET Facts
    /\ room \in Rooms \cup {None} /\ painted \in SUBSET Moves
    /\ overlapped \in SUBSET Aqueducts
    /\ clock \in 0 .. MaxClock /\ spent \in 0 .. MaxOps /\ faults \in 0 .. MaxFaults

\* What callers rely on is in the database: no call undoes what another one
\* resolved with, an inscription keeps its rooms and columns through the
\* delete-and-create of its embedding, and what was there when close() or
\* syncfs('out') resolved is there after any reload.
AckedKept == acked \subseteq Current

\* An arc is drawn for moves that are recorded only (SEC11), and the record
\* outlives closing and reopening the store.
ArcAfterPersist == \A m \in painted : Exists(Current, m)

\* The palace has one mythos head when a caller relies on one, and the column
\* agrees with the edge.
HeadUnique == OneHead(Current, acked)

\* Every recorded walk along an aqueduct has strengthened it once, unless two
\* walks of it overlapped.
TraversalsCounted ==
    \A q \in Aqueducts \ overlapped : \A f \in Current :
        f[1] = "strength" /\ f[2] = q => Cardinality(Walked(Current, q)) <= f[3]

\* getOrCreateAqueduct "Returns the aqueduct fp.  Idempotent: returns existing fp
\* if already present" (store-types.ts:403), whichever way it is walked, since
\* "aqueducts are undirected conduits" (cypher-utils.ts:313-315).  So a call
\* that is about to create an aqueduct does not find its fingerprint taken.
AqueductsIdempotent ==
    \A c \in Calls : Waiting(c, "create") /\ NextStep(c).node \in Aqueducts =>
                        ~ Exists(mem, NextStep(c).node)

=============================================================================
