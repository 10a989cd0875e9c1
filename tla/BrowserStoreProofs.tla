------------------------ MODULE BrowserStoreProofs -------------------------
(***************************************************************************)
(* Proofs about BrowserStore, for any palace, any calls, any number of     *)
(* failing steps and reloads, and any databases a former session left.     *)
(***************************************************************************)
EXTENDS BrowserStore, FiniteSetTheorems, SequenceTheorems, TLAPS

(***************************************************************************)
(* What is left of a script is a sequence of quiet steps, which neither    *)
(* strengthen an aqueduct nor record a move nor delete either, and what is *)
(* left of the ending of a walk.                                           *)
(***************************************************************************)

\* The edges and columns that are no strength.
Uncounted == {f \in Edges \cup Columns : f[1] # "strength"}

\* A new row has no strength, or it is a new aqueduct's.
NewRows ==
    {s \in [do : {"create"}, node : Nodes \ Moves, columns : SUBSET Columns] :
        \A f \in s.columns : f[1] = "strength" => f[2] = s.node /\ f[3] = 0}

Plain ==
    NewRows \cup [do : {"must"}, node : Nodes] \cup [do : {"drop"}, node : Avatars \cup Triples]
        \cup [do : {"join"}, edge : Labels \X Nodes \X Nodes]
        \cup [do : {"unjoin", "edges"}, label : Labels, node : Nodes]
        \cup [do : {"assign"}, node : Nodes, values : SUBSET Uncounted]
        \cup [do : {"put"}, node : Avatars, embedded : BOOLEAN]
        \cup [do : {"rejoin"}]

RowSteps == [do : {"row"}, node : Nodes, rest : Seq(Plain)]

Probes == [do : {"probe"}, facts : SUBSET (Facts \cup (Labels \X Nodes \X Nodes)),
           found : Seq(Plain \cup RowSteps), missing : Seq(Plain \cup RowSteps)]

Quiet == Plain \cup RowSteps \cup Probes

\* A navigation, and the mirror of a move, strengthen the aqueduct they go along.
IsNavigation(v) == v[1] = "navigate"
IsMove(v) == v[1] = "mirrorAction" /\ v[3][1] = "move"
Way(v) == IF IsNavigation(v) THEN Aqueduct(v[2], v[3]) ELSE Aqueduct(v[3][2], v[3][3])
MoveOf(v) == <<v[2], v[3], v[4]>>

Recording(v) == IF IsNavigation(v) THEN <<Create(MoveOf(v), {}), Must(Way(v))>> ELSE <<>>

Ending(v) ==
    IF IsNavigation(v) \/ IsMove(v)
    THEN UpdateAqueductStrength(Way(v)) \o Recording(v) ELSE <<>>

-----------------------------------------------------------------------------
\* Sequences.

LEMMA OneStep == ASSUME NEW S, NEW x \in S PROVE <<x>> \in Seq(S)
OBVIOUS

LEMMA SeqWider ==
    ASSUME NEW S, NEW T, S \subseteq T, NEW s \in Seq(S)
    PROVE  s \in Seq(T)
BY SeqMonotonic

LEMMA JoinSeq == ASSUME NEW S, NEW s \in Seq(S), NEW t \in Seq(S) PROVE s \o t \in Seq(S)
BY ConcatProperties

\* The first step of a script and what follows it.
LEMMA HeadOfConcat ==
    ASSUME NEW S, NEW s \in Seq(S), NEW t \in Seq(S), s # <<>>
    PROVE  /\ s \o t # <<>> /\ Head(s \o t) = Head(s) /\ Tail(s \o t) = Tail(s) \o t
           /\ Head(s) \in S /\ Tail(s) \in Seq(S)
OBVIOUS

-----------------------------------------------------------------------------
\* The steps the verbs are built of.

LEMMA NodeKinds ==
    /\ \A n \in {Palace, Oracle} \cup Rooms \cup Avatars \cup Mythoi \cup Actions \cup Triples
                   \cup Aqueducts : n \in Nodes /\ n \notin Moves
    /\ \A q \in Aqueducts : Birth(q) \in Nodes /\ Birth(q) \notin Moves
    /\ Moves \subseteq Nodes
BY FingerprintAssumption DEF Nodes

LEMMA QuietKinds ==
    /\ Plain \subseteq Plain \cup RowSteps /\ Plain \cup RowSteps \subseteq Quiet
    /\ <<>> \in Seq(Plain) /\ <<>> \in Seq(Plain \cup RowSteps)
BY DEF Quiet

LEMMA EnsureNodeQuiet ==
    ASSUME NEW n \in Nodes \ Moves, NEW columns \in SUBSET Columns,
           \A f \in columns : f[1] = "strength" => f[2] = n /\ f[3] = 0
    PROVE  EnsureNode(n, columns) \in Seq(Quiet)
<1>1. Create(n, columns) \in Plain
  BY DEF Create, NewRows, Plain
<1>2. <<Create(n, columns)>> \in Seq(Plain \cup RowSteps)
  BY <1>1, OneStep
<1>3. {<<"node", n>>} \in SUBSET (Facts \cup (Labels \X Nodes \X Nodes))
  BY DEF Facts
<1>4. Probe({<<"node", n>>}, <<>>, <<Create(n, columns)>>) \in Quiet
  BY <1>2, <1>3, QuietKinds DEF Probe, Probes, Quiet
<1> QED
  BY <1>4, OneStep DEF EnsureNode

LEMMA JoinPlain == ASSUME NEW e \in Labels \X Nodes \X Nodes PROVE Join(e) \in Plain
BY DEF Join, Plain

LEMMA EnsureEdgeQuiet ==
    ASSUME NEW label \in Labels, NEW n \in Nodes, NEW m \in Nodes
    PROVE  EnsureEdge(<<label, n, m>>) \in Seq(Quiet)
<1> DEFINE e == <<label, n, m>>
<1>0. e \in Labels \X Nodes \X Nodes
  OBVIOUS
<1> HIDE DEF e
<1>1. <<Join(e)>> \in Seq(Plain \cup RowSteps)
  BY <1>0, JoinPlain, OneStep, QuietKinds
<1>2. Probe({e}, <<>>, <<Join(e)>>) \in Quiet
  BY <1>0, <1>1, QuietKinds DEF Probe, Probes, Quiet
<1> QED
  BY <1>2, OneStep DEF EnsureEdge, e

\* A node without columns.
LEMMA EnsureBareQuiet ==
    ASSUME NEW n \in Nodes \ Moves
    PROVE  EnsureNode(n, {}) \in Seq(Quiet)
BY EnsureNodeQuiet

LEMMA AssignQuiet ==
    ASSUME NEW n \in Nodes, NEW values \in SUBSET Uncounted
    PROVE  <<Assign(n, values)>> \in Seq(Quiet)
<1>1. Assign(n, values) \in Plain
  BY DEF Assign, Plain
<1> QED
  BY <1>1, OneStep, QuietKinds

\* Columns of inscriptions and of the palace.
LEMMA ColumnKinds ==
    /\ \A a \in Avatars, c \in Contents : <<"source", a, c>> \in Columns \cap Uncounted
    /\ \A a \in Avatars, n \in {0, 1} : <<"revision", a, n>> \in Columns \cap Uncounted
    /\ \A a \in Avatars, b \in BOOLEAN : <<"orphaned", a, b>> \in Columns \cap Uncounted
    /\ \A a \in Avatars, b \in BOOLEAN : <<"embedded", a, b>> \in Columns \cap Uncounted
    /\ \A m \in Mythoi : <<"head", Palace, m>> \in Columns \cap Uncounted
    /\ \A q \in Aqueducts, n \in Nat : <<"strength", q, n>> \in Columns
BY DEF Columns, Uncounted, Facts

LEMMA AddRoomQuiet == ASSUME NEW r \in Rooms PROVE AddRoom(r) \in Seq(Quiet)
<1>1. Palace \in Nodes /\ r \in Nodes /\ r \notin Moves
  BY NodeKinds
<1> QED
  <2>1. EnsureNode(r, {}) \in Seq(Quiet)
    BY <1>1, EnsureBareQuiet
  <2>2. EnsureEdge(<<"CONTAINS", Palace, r>>) \in Seq(Quiet)
    BY <1>1, EnsureEdgeQuiet DEF Labels
  <2> QED
    BY <2>1, <2>2, JoinSeq DEF AddRoom

LEMMA InscribeAvatarQuiet ==
    ASSUME NEW r \in Rooms, NEW a \in Avatars, NEW c \in Contents
    PROVE  InscribeAvatar(r, a, c) \in Seq(Quiet)
<1>1. r \in Nodes /\ a \in Nodes /\ a \notin Moves
  BY NodeKinds
<1> DEFINE columns == {<<"source", a, c>>, <<"revision", a, 0>>, <<"orphaned", a, FALSE>>}
<1>2. EnsureNode(a, columns) \in Seq(Quiet)
  <2>1. columns \in SUBSET Columns
    BY ColumnKinds
  <2>2. columns \in SUBSET Uncounted
    BY ColumnKinds
  <2> HIDE DEF columns
  <2> QED
    BY <1>1, <2>1, <2>2, EnsureNodeQuiet DEF Uncounted
<1> HIDE DEF columns
<1>3. InscribeAvatar(r, a, c) = (EnsureNode(a, columns) \o EnsureEdge(<<"CONTAINS", r, a>>))
                                   \o EnsureEdge(<<"LIVES_IN", a, r>>)
  BY DEF InscribeAvatar, columns
<1> QED
  <2>1. EnsureEdge(<<"CONTAINS", r, a>>) \in Seq(Quiet)
    BY <1>1, EnsureEdgeQuiet DEF Labels
  <2>2. EnsureEdge(<<"LIVES_IN", a, r>>) \in Seq(Quiet)
    BY <1>1, EnsureEdgeQuiet DEF Labels
  <2> QED
    BY <1>2, <1>3, <2>1, <2>2, JoinSeq

LEMMA PlainSteps ==
    /\ \A n \in Nodes, m \in Labels : Unjoin(m, n) \in Plain /\ ReadEdges(m, n) \in Plain
    /\ \A n \in Avatars \cup Triples : Drop(n) \in Plain
    /\ \A n \in Nodes : Must(n) \in Plain
    /\ \A n \in Nodes : n \notin Moves => Create(n, {}) \in Plain
    /\ \A q \in Aqueducts : Create(q, {<<"strength", q, 0>>}) \in Plain
    /\ \A a \in Avatars, b \in BOOLEAN : Put(a, b) \in Plain
    /\ \A n \in Nodes, values \in SUBSET Uncounted : Assign(n, values) \in Plain
    /\ Rejoin \in Plain
<1>1. \A n \in Nodes, m \in Labels : Unjoin(m, n) \in Plain /\ ReadEdges(m, n) \in Plain
  BY DEF Unjoin, ReadEdges, Plain
<1>2. \A n \in Avatars \cup Triples : Drop(n) \in Plain
  BY DEF Drop, Plain
<1>3. \A n \in Nodes : n \notin Moves => Create(n, {}) \in Plain
  BY DEF Create, NewRows, Plain
<1>4. ASSUME NEW q \in Aqueducts PROVE Create(q, {<<"strength", q, 0>>}) \in Plain
  <2>1. q \in Nodes /\ q \notin Moves /\ <<"strength", q, 0>> \in Columns
    BY NodeKinds, ColumnKinds
  <2> QED
    BY <2>1 DEF Create, NewRows, Plain
<1>5. \A a \in Avatars, b \in BOOLEAN : Put(a, b) \in Plain
  BY DEF Put, Plain
<1>6. \A n \in Nodes, values \in SUBSET Uncounted : Assign(n, values) \in Plain
  BY DEF Assign, Plain
<1>7. Rejoin \in Plain /\ \A n \in Nodes : Must(n) \in Plain
  BY DEF Rejoin, Must, Plain
<1> QED
  BY <1>1, <1>2, <1>3, <1>4, <1>5, <1>6, <1>7

LEMMA JoinLabel ==
    ASSUME NEW label \in Labels, NEW n \in Nodes, NEW m \in Nodes
    PROVE  Join(<<label, n, m>>) \in Plain
BY JoinPlain

LEMMA TwoSteps == ASSUME NEW S, NEW x \in S, NEW y \in S PROVE <<x, y>> \in Seq(S)
OBVIOUS

LEMMA SwapHeadQuiet == ASSUME NEW m \in Mythoi PROVE SwapHead(m) \in Seq(Quiet)
<1>1. Palace \in Nodes /\ m \in Nodes
  BY NodeKinds
<1>2. Unjoin("MYTHOS_HEAD", Palace) \in Quiet
  BY <1>1, PlainSteps, QuietKinds DEF Labels
<1>3. Join(<<"MYTHOS_HEAD", Palace, m>>) \in Quiet
  BY <1>1, JoinLabel, QuietKinds DEF Labels
<1> QED
  BY <1>2, <1>3, TwoSteps DEF SwapHead

LEMMA HeadColumnQuiet == ASSUME NEW m \in Mythoi PROVE HeadColumn(m) \in Seq(Quiet)
<1>1. Palace \in Nodes /\ {<<"head", Palace, m>>} \in SUBSET Uncounted
  BY NodeKinds, ColumnKinds
<1> QED
  BY <1>1, AssignQuiet DEF HeadColumn

LEMMA MythosQuiet ==
    ASSUME NEW m \in Mythoi
    PROVE  /\ EnsureNode(m, {}) \in Seq(Quiet) /\ SetMythosHead(m) \in Seq(Quiet)
           /\ \A p \in Mythoi : /\ EnsureEdge(<<"PREDECESSOR", m, p>>) \in Seq(Quiet)
                                /\ AppendMythos(m, p) \in Seq(Quiet)
<1>1. EnsureNode(m, {}) \in Seq(Quiet)
  BY NodeKinds, EnsureBareQuiet
<1>2. SetMythosHead(m) = (EnsureNode(m, {}) \o SwapHead(m)) \o HeadColumn(m)
  BY DEF SetMythosHead
<1>3. SetMythosHead(m) \in Seq(Quiet)
  BY <1>1, <1>2, SwapHeadQuiet, HeadColumnQuiet, JoinSeq
<1>4. ASSUME NEW p \in Mythoi PROVE EnsureEdge(<<"PREDECESSOR", m, p>>) \in Seq(Quiet)
  <2>1. m \in Nodes /\ p \in Nodes
    BY NodeKinds
  <2> QED
    BY <2>1, EnsureEdgeQuiet DEF Labels
<1> QED
  BY <1>1, <1>3, <1>4, JoinSeq DEF AppendMythos

LEMMA RebuildRows ==
    ASSUME NEW a \in Avatars, NEW b \in BOOLEAN
    PROVE  Rebuild(a, b) \in Seq(Plain \cup RowSteps) /\ Rebuild(a, b) \in Seq(Quiet)
<1>1. a \in Nodes
  BY NodeKinds
<1>2. ReadEdges("CONTAINS", a) \in Plain /\ ReadEdges("LIVES_IN", a) \in Plain
  BY <1>1, PlainSteps DEF Labels
<1>3. Drop(a) \in Plain /\ Put(a, b) \in Plain /\ Rejoin \in Plain
  BY PlainSteps
<1> DEFINE rest == <<ReadEdges("CONTAINS", a), ReadEdges("LIVES_IN", a), Drop(a), Put(a, b), Rejoin>>
<1>4. rest \in Seq(Plain)
  BY <1>2, <1>3
<1> HIDE DEF rest
<1>5. Row(a, rest) \in RowSteps
  BY <1>1, <1>4 DEF Row, RowSteps
<1>6. Row(a, rest) \in Plain \cup RowSteps /\ Row(a, rest) \in Quiet
  BY <1>5, QuietKinds
<1>7. Rebuild(a, b) = <<Row(a, rest)>>
  BY DEF Rebuild, rest
<1> QED
  BY <1>6, <1>7, OneStep

LEMMA ReembedQuiet ==
    ASSUME NEW a \in Avatars, NEW c \in Contents
    PROVE  Reembed(a, c) \in Seq(Quiet)
<1> DEFINE f == <<"source", a, c>>
           last == <<Assign(a, {f})>>
           missing == (DeleteEmbedding(a) \o UpsertEmbedding(a)) \o last
<1>1. a \in Nodes /\ f \in Uncounted /\ f \in Facts
  BY NodeKinds, ColumnKinds DEF Facts
<1>2. Reembed(a, c) = <<Probe({f}, <<>>, missing)>>
  BY DEF Reembed
<1>3. Assign(a, {f}) \in Plain \cup RowSteps
  <2> HIDE DEF f
  <2> QED
    BY <1>1, PlainSteps
<1>4. last \in Seq(Plain \cup RowSteps)
  BY <1>3, OneStep
<1> HIDE DEF f, last
<1>5. missing \in Seq(Plain \cup RowSteps)
  BY <1>4, RebuildRows, JoinSeq DEF DeleteEmbedding, UpsertEmbedding
<1> HIDE DEF missing
<1>6. Probe({f}, <<>>, missing) \in Quiet
  BY <1>1, <1>5, QuietKinds DEF Probe, Probes, Quiet
<1> QED
  BY <1>2, <1>6, OneStep

LEMMA TripleQuiet ==
    ASSUME NEW t \in Triples
    PROVE  /\ InsertTriple(t) \in Seq(Quiet) /\ DeleteTriple(t) \in Seq(Quiet)
           /\ \A u \in Triples : UpdateTriple(t, u) \in Seq(Quiet)
<1>1. ASSUME NEW u \in Triples PROVE InsertTriple(u) \in Seq(Quiet)
  <2>1. u \in Nodes /\ u \notin Moves /\ Oracle \in Nodes /\ <<"node", u>> \in Facts
    BY NodeKinds DEF Facts
  <2> DEFINE j == Join(<<"HAS_KNOWLEDGE", Oracle, u>>)
             k == Create(u, {})
  <2>2. k \in Plain \cup RowSteps
    BY <2>1, PlainSteps
  <2>3. j \in Plain \cup RowSteps
    BY <2>1, JoinLabel DEF Labels
  <2> HIDE DEF j, k
  <2>4. <<k, j>> \in Seq(Plain \cup RowSteps)
    BY <2>2, <2>3, TwoSteps
  <2>5. Probe({<<"node", u>>}, <<>>, <<k, j>>) \in Quiet
    BY <2>1, <2>4, QuietKinds DEF Probe, Probes, Quiet
  <2> QED
    BY <2>5, OneStep DEF InsertTriple, j, k
<1>2. DeleteTriple(t) \in Seq(Quiet)
  <2>1. Drop(t) \in Quiet
    BY PlainSteps, QuietKinds
  <2> QED
    BY <2>1, OneStep DEF DeleteTriple
<1> QED
  BY <1>1, <1>2, JoinSeq DEF UpdateTriple

LEMMA InscriptionQuiet ==
    ASSUME NEW a \in Avatars, NEW c \in Contents, NEW n \in {0, 1}
    PROVE  /\ UpdateInscription(a, c, n) \in Seq(Quiet)
           /\ <<Assign(a, {<<"source", a, c>>})>> \in Seq(Quiet)
<1>1. a \in Nodes /\ {<<"source", a, c>>, <<"revision", a, n>>} \in SUBSET Uncounted
  BY NodeKinds, ColumnKinds
<1>2. {<<"source", a, c>>} \in SUBSET Uncounted
  BY ColumnKinds
<1> QED
  BY <1>1, <1>2, AssignQuiet DEF UpdateInscription

LEMMA OrphanQuiet == ASSUME NEW a \in Avatars PROVE MarkOrphaned(a) \in Seq(Quiet)
<1>1. a \in Nodes /\ {<<"orphaned", a, TRUE>>} \in SUBSET Uncounted
  BY NodeKinds, ColumnKinds
<1> QED
  BY <1>1, AssignQuiet DEF MarkOrphaned

LEMMA AqueductQuiet ==
    ASSUME NEW x \in {Palace} \cup Rooms, NEW y \in Rooms
    PROVE  /\ Aqueduct(x, y) \in Aqueducts
           /\ GetOrCreateAqueduct(x, y) \in Seq(Quiet)
           /\ EnsureNode(Aqueduct(x, y), {<<"strength", Aqueduct(x, y), 0>>}) \in Seq(Quiet)
           /\ EnsureEdge(<<"AQUEDUCT_FROM", Aqueduct(x, y), x>>) \in Seq(Quiet)
           /\ EnsureEdge(<<"AQUEDUCT_TO", Aqueduct(x, y), y>>) \in Seq(Quiet)
<1> DEFINE q == Aqueduct(x, y)
<1>1. q \in Aqueducts
  BY DEF Aqueducts
<1> HIDE DEF q
<1>2. x \in Nodes /\ y \in Nodes /\ q \in Nodes /\ q \notin Moves
  BY <1>1, NodeKinds
<1> DEFINE from == <<"AQUEDUCT_FROM", q, x>>
           to == <<"AQUEDUCT_TO", q, y>>
           row == Create(q, {<<"strength", q, 0>>})
           birth == Create(Birth(q), {})
           missing == <<row, Join(from), Join(to), birth>>
<1>3. row \in Plain /\ birth \in Plain
  BY <1>1, PlainSteps, NodeKinds
<1>4. Join(from) \in Plain /\ Join(to) \in Plain
  BY <1>2, JoinLabel DEF Labels
<1>5. from \in Labels \X Nodes \X Nodes /\ to \in Labels \X Nodes \X Nodes
  BY <1>2 DEF Labels
<1> HIDE DEF row, birth
<1>6. missing \in Seq(Plain)
  BY <1>3, <1>4
<1> HIDE DEF missing, from, to
<1>7. missing \in Seq(Plain \cup RowSteps)
  BY <1>6, QuietKinds, SeqWider
<1>8. Probe({from, to}, <<>>, missing) \in Quiet
  BY <1>5, <1>7, QuietKinds DEF Probe, Probes, Quiet
<1>9. GetOrCreateAqueduct(x, y) = <<Probe({from, to}, <<>>, missing)>>
  BY DEF GetOrCreateAqueduct, missing, from, to, row, birth, q
<1>10. GetOrCreateAqueduct(x, y) \in Seq(Quiet)
  BY <1>8, <1>9, OneStep
<1>11. EnsureNode(q, {<<"strength", q, 0>>}) \in Seq(Quiet)
  <2> DEFINE f == <<"strength", q, 0>>
  <2>1. f \in Columns /\ f[2] = q /\ f[3] = 0
    BY <1>1, ColumnKinds
  <2> HIDE DEF f
  <2>2. EnsureNode(q, {f}) \in Seq(Quiet)
    BY <1>2, <2>1, EnsureNodeQuiet
  <2> QED
    BY <2>2 DEF f
<1>12. EnsureEdge(from) \in Seq(Quiet) /\ EnsureEdge(to) \in Seq(Quiet)
  BY <1>2, EnsureEdgeQuiet DEF Labels, from, to
<1> QED
  BY <1>1, <1>10, <1>11, <1>12 DEF from, to, q

-----------------------------------------------------------------------------
\* The scripts.

Scriptable == AllVerbs \cup Navigations

\* What a script begins with, before the ending of a walk.
Quieted(v, s) == \E p \in Seq(Quiet) : s = p \o Ending(v)

LEMMA EndingOf ==
    /\ \A v : ~ IsNavigation(v) /\ ~ IsMove(v) => Ending(v) = <<>>
    /\ \A v : IsMove(v) => Ending(v) = UpdateAqueductStrength(Way(v)) /\ ~ IsNavigation(v)
    /\ \A v : IsNavigation(v) =>
          Ending(v) = UpdateAqueductStrength(Way(v)) \o <<Create(MoveOf(v), {}), Must(Way(v))>>
<1>1. ASSUME NEW v, IsMove(v) PROVE Ending(v) = UpdateAqueductStrength(Way(v)) /\ ~ IsNavigation(v)
  <2>1. ~ IsNavigation(v)
    BY <1>1 DEF IsMove, IsNavigation
  <2>2. UpdateAqueductStrength(Way(v)) \o <<>> = UpdateAqueductStrength(Way(v))
    BY DEF UpdateAqueductStrength
  <2> QED
    BY <1>1, <2>1, <2>2 DEF Ending, Recording
<1> QED
  BY <1>1 DEF Ending, Recording

\* The effect of mirroring an action of kind k.
LEMMA MirrorShape ==
    ASSUME NEW k \in MirrorKinds
    PROVE  \/ k[1] # "move" /\ MirrorKind(k) \in Seq(Quiet)
           \/ k[1] = "move" /\ k[2] \in Rooms /\ k[3] \in Rooms /\ MirrorKind(k) = Walk(k[2], k[3])
<1>1. CASE k \in {"palace-minted", "inscription-pending-embedding"} \X {Palace}
  <2>1. EnsurePalace \in Seq(Quiet)
    BY NodeKinds, EnsureBareQuiet DEF EnsurePalace
  <2> QED
    BY <1>1, <2>1 DEF MirrorKind
<1>2. CASE k \in {"room-added"} \X Rooms
  BY <1>2, AddRoomQuiet DEF MirrorKind
<1>3. CASE k \in {"avatar-inscribed"} \X Rooms \X Avatars \X Contents
  <2>1. MirrorKind(k) = InscribeAvatar(k[2], k[3], k[4])
    BY <1>3 DEF MirrorKind
  <2> QED
    BY <1>3, <2>1, InscribeAvatarQuiet
<1>4. CASE k \in {"move"} \X Rooms \X Rooms
  BY <1>4 DEF MirrorKind
<1>5. CASE k \in {"aqueduct-created"} \X Rooms \X Rooms
  <2>1. k[1] = "aqueduct-created" /\ k[2] \in Rooms /\ k[3] \in Rooms
    BY <1>5
  <2> DEFINE q == Aqueduct(k[2], k[3])
             n == EnsureNode(q, {<<"strength", q, 0>>})
             f == EnsureEdge(<<"AQUEDUCT_FROM", q, k[2]>>)
             t == EnsureEdge(<<"AQUEDUCT_TO", q, k[3]>>)
  <2>2. MirrorKind(k) = (n \o f) \o t
    BY <2>1 DEF MirrorKind
  <2>3. n \in Seq(Quiet) /\ f \in Seq(Quiet) /\ t \in Seq(Quiet)
    BY <2>1, AqueductQuiet
  <2> HIDE DEF n, f, t
  <2> QED
    BY <2>1, <2>2, <2>3, JoinSeq
<1>6. CASE k \in {"true-naming"} \X Mythoi \X Mythoi
  <2>1. k[1] = "true-naming" /\ k[2] \in Mythoi /\ k[3] \in Mythoi
    BY <1>6
  <2> DEFINE n == EnsureNode(k[2], {})
             e == EnsureEdge(<<"PREDECESSOR", k[2], k[3]>>)
  <2>2. MirrorKind(k) = ((n \o SwapHead(k[2])) \o e) \o HeadColumn(k[2])
    BY <2>1 DEF MirrorKind
  <2>3. n \in Seq(Quiet) /\ e \in Seq(Quiet)
    BY <2>1, MythosQuiet
  <2> HIDE DEF n, e
  <2> QED
    BY <2>1, <2>2, <2>3, SwapHeadQuiet, HeadColumnQuiet, JoinSeq
<1>7. CASE k \in {"inscription-updated"} \X Avatars \X Contents
  <2>1. k[1] = "inscription-updated" /\ k[2] \in Avatars /\ k[3] \in Contents
    BY <1>7
  <2> QED
    BY <2>1, InscriptionQuiet DEF MirrorKind
<1>8. CASE k \in {"inscription-orphaned"} \X Avatars
  BY <1>8, OrphanQuiet DEF MirrorKind
<1> QED
  BY <1>1, <1>2, <1>3, <1>4, <1>5, <1>6, <1>7, <1>8 DEF MirrorKinds

LEMMA WalkShape ==
    ASSUME NEW x \in {Palace} \cup Rooms, NEW y \in Rooms
    PROVE  /\ Walk(x, y) = GetOrCreateAqueduct(x, y) \o UpdateAqueductStrength(Aqueduct(x, y))
           /\ GetOrCreateAqueduct(x, y) \in Seq(Quiet)
BY AqueductQuiet DEF Walk

\* Concatenation of any sequences is associative.
LEMMA ConcatAny ==
    ASSUME NEW S, NEW T, NEW s \in Seq(S), NEW t \in Seq(T), NEW u \in Seq(T)
    PROVE  (s \o t) \o u = s \o (t \o u)
<1>1. s \in Seq(S \cup T) /\ t \in Seq(S \cup T) /\ u \in Seq(S \cup T)
  BY SeqWider
<1> QED
  BY <1>1, ConcatAssociative, SMTT(30)

\* A script is quiet up to the ending of a walk.
LEMMA ScriptShape ==
    ASSUME NEW v \in Scriptable
    PROVE  /\ Quieted(v, Script(v))
           /\ IsNavigation(v) \/ IsMove(v) => Way(v) \in Aqueducts
           /\ IsNavigation(v) => v \in Navigations /\ MoveOf(v) \in Moves
<1>1. ASSUME Script(v) \in Seq(Quiet), ~ IsNavigation(v), ~ IsMove(v)
      PROVE  Quieted(v, Script(v))
  <2>1. Ending(v) = <<>> /\ Script(v) \o <<>> = Script(v)
    BY <1>1, EndingOf, ConcatEmptySeq
  <2> QED
    BY <1>1, <2>1 DEF Quieted
<1> DEFINE Tame == ~ IsNavigation(v) /\ ~ IsMove(v) /\ Script(v) \in Seq(Quiet)
<1> USE DEF IsNavigation, IsMove
<1>2. CASE v \in ({"ensurePalace"} \X {Palace}) \cup ({"createAgent"} \X {Oracle})
                   \cup ({"recordAction"} \X Actions)
  <2>1. v[2] \in Nodes /\ v[2] \notin Moves
    BY <1>2, NodeKinds
  <2>2. EnsureNode(v[2], {}) \in Seq(Quiet) /\ RecordAction(v[2]) \in Seq(Quiet)
    <3>1. Create(v[2], {}) \in Quiet
      BY <2>1, PlainSteps, QuietKinds
    <3> QED
      BY <2>1, <3>1, EnsureBareQuiet, OneStep DEF RecordAction
  <2>3. Tame
    BY <1>2, <2>2 DEF Script, EnsurePalace
  <2> QED
    BY <1>1, <2>3
<1>3. CASE v \in {"addRoom"} \X Rooms
  BY <1>1, <1>3, AddRoomQuiet DEF Script
<1>4. CASE v \in {"inscribeAvatar"} \X Rooms \X Avatars \X Contents
  BY <1>1, <1>4, InscribeAvatarQuiet DEF Script
<1>5. CASE v \in ({"setMythosHead"} \X Mythoi) \cup ({"appendMythos"} \X Mythoi \X Mythoi)
  <2>1. Tame
    BY <1>5, MythosQuiet DEF Script
  <2> QED
    BY <1>1, <2>1
<1>6. CASE v \in {"upsertEmbedding", "deleteEmbedding", "markOrphaned"} \X Avatars
  <2>1. Tame
    BY <1>6, RebuildRows, OrphanQuiet DEF Script, UpsertEmbedding, DeleteEmbedding
  <2> QED
    BY <1>1, <2>1
<1>7. CASE v \in {"reembed"} \X Avatars \X Contents
  BY <1>1, <1>7, ReembedQuiet DEF Script
<1>8. CASE v \in {"updateInscription"} \X Avatars \X Contents \X {0, 1}
  BY <1>1, <1>8, InscriptionQuiet DEF Script
<1>9. CASE v \in ({"insertTriple", "deleteTriple"} \X Triples)
                    \cup ({"updateTriple"} \X Triples \X Triples)
  <2>1. Tame
    BY <1>9, TripleQuiet DEF Script
  <2> QED
    BY <1>1, <2>1
<1>10. CASE v \in {"getOrCreateAqueduct"} \X Rooms \X Rooms
  BY <1>1, <1>10, AqueductQuiet DEF Script
<1>11. CASE v \in {"mirrorAction"} \X Actions \X MirrorKinds
  <2>1. v[1] = "mirrorAction" /\ v[2] \in Actions /\ v[3] \in MirrorKinds
    BY <1>11
  <2> DEFINE k == v[3]
             first == IF k[1] = "palace-minted" THEN <<>> ELSE <<Must(Palace)>>
             begin == first \o EnsureNode(v[2], {})
  <2>2. first \in Seq(Quiet)
    <3>1. Must(Palace) \in Quiet
      BY NodeKinds, PlainSteps, QuietKinds
    <3>2. <<>> \in Seq(Quiet)
      BY EmptySeq
    <3> QED
      BY <3>1, <3>2, OneStep
  <2>3. EnsureNode(v[2], {}) \in Seq(Quiet)
    BY <2>1, NodeKinds, EnsureBareQuiet
  <2>4. Script(v) = begin \o MirrorKind(k)
    BY <2>1 DEF Script, MirrorAction
  <2> HIDE DEF first
  <2>5. begin \in Seq(Quiet)
    BY <2>2, <2>3, JoinSeq
  <2> HIDE DEF begin
  <2>6. CASE k[1] # "move" /\ MirrorKind(k) \in Seq(Quiet)
    BY <1>1, <2>1, <2>4, <2>5, <2>6, JoinSeq
  <2>7. CASE k[1] = "move" /\ k[2] \in Rooms /\ k[3] \in Rooms /\ MirrorKind(k) = Walk(k[2], k[3])
    <3> DEFINE u == UpdateAqueductStrength(Way(v))
               g == GetOrCreateAqueduct(k[2], k[3])
    <3>1. Way(v) = Aqueduct(k[2], k[3]) /\ Ending(v) = u /\ ~ IsNavigation(v)
      BY <2>1, <2>7, EndingOf DEF Way
    <3>2. Script(v) = begin \o (g \o u) /\ g \in Seq(Quiet)
      BY <2>4, <2>7, <3>1, WalkShape
    <3>3. u \in Seq({ReadStrength(Way(v)), Raise(Way(v))})
      BY DEF UpdateAqueductStrength
    <3> HIDE DEF u, g
    <3>4. Script(v) = (begin \o g) \o u /\ begin \o g \in Seq(Quiet)
      <4>1. (begin \o g) \o u = begin \o (g \o u)
        BY <2>5, <3>2, <3>3, ConcatAny, SMTT(30)
      <4>2. begin \o g \in Seq(Quiet)
        BY <2>5, <3>2, JoinSeq, Zenon
      <4> QED
        BY <3>2, <4>1, <4>2
    <3>5. Way(v) \in Aqueducts
      BY <2>7, <3>1, AqueductQuiet
    <3> QED
      BY <3>1, <3>4, <3>5 DEF Quieted
  <2> QED
    BY <2>1, <2>6, <2>7, MirrorShape
<1>12. CASE v \in Navigations
  <2>1. /\ v[1] = "navigate" /\ v[2] \in {Palace} \cup Rooms /\ v[3] \in Rooms
        /\ v[4] \in 0 .. MaxClock
    BY <1>12 DEF Navigations
  <2> DEFINE q == Way(v)
             u == UpdateAqueductStrength(q)
             g == GetOrCreateAqueduct(v[2], v[3])
             e == <<Create(MoveOf(v), {}), Must(q)>>
             S == {ReadStrength(q), Raise(q), Create(MoveOf(v), {}), Must(q)}
  <2>2. q = Aqueduct(v[2], v[3]) /\ Ending(v) = u \o e
    BY <2>1, EndingOf DEF Way
  <2>3. Script(v) = (g \o u) \o e /\ g \in Seq(Quiet)
    BY <2>1, <2>2, WalkShape DEF Script, RecordTraversal, MoveOf
  <2>4. u \in Seq(S) /\ e \in Seq(S)
    BY DEF UpdateAqueductStrength
  <2> HIDE DEF u, g, e, S
  <2>5. Script(v) = g \o Ending(v)
    <3>1. (g \o u) \o e = g \o (u \o e)
      BY <2>3, <2>4, ConcatAny, SMTT(30)
    <3> QED
      BY <2>2, <2>3, <3>1
  <2>6. Way(v) \in Aqueducts /\ MoveOf(v) \in Moves
    BY <2>1, <2>2, AqueductQuiet DEF MoveOf, Moves
  <2> QED
    BY <1>12, <2>3, <2>5, <2>6 DEF Quieted
<1> QED
  BY <1>2, <1>3, <1>4, <1>5, <1>6, <1>7, <1>8, <1>9, <1>10, <1>11, <1>12 DEF Scriptable, AllVerbs

-----------------------------------------------------------------------------
\* What callers may rely on is made of facts.

LEMMA FactKinds ==
    /\ \A n \in Nodes : <<"node", n>> \in Facts
    /\ Edges \subseteq Facts /\ Columns \subseteq Facts
    /\ \A r \in Rooms : <<"CONTAINS", Palace, r>> \in Edges
    /\ \A r \in Rooms, a \in Avatars : <<"CONTAINS", r, a>> \in Edges /\ <<"LIVES_IN", a, r>> \in Edges
    /\ \A m \in Mythoi : <<"MYTHOS_HEAD", Palace, m>> \in Edges
    /\ \A m, p \in Mythoi : <<"PREDECESSOR", m, p>> \in Edges
    /\ \A t \in Triples : <<"HAS_KNOWLEDGE", Oracle, t>> \in Edges
BY DEF Facts, Edges

LEMMA UncountedFacts == SUBSET Uncounted \subseteq SUBSET Facts
BY DEF Uncounted, Facts

LEMMA PassageFacts ==
    ASSUME NEW x \in {Palace} \cup Rooms, NEW y \in Rooms
    PROVE  Passage(x, y) \subseteq Facts
<1>1. Aqueduct(x, y) \in Nodes
  BY AqueductQuiet, NodeKinds
<1> QED
  BY <1>1, FactKinds DEF Passage

LEMMA ContractMirrored ==
    ASSUME NEW k \in MirrorKinds
    PROVE  Contract(k) \subseteq Facts
<1>1. CASE k \in {"palace-minted", "inscription-pending-embedding"} \X {Palace}
  BY <1>1, NodeKinds, FactKinds DEF Contract
<1>2. CASE k \in {"room-added"} \X Rooms
  BY <1>2, NodeKinds, FactKinds DEF Contract
<1>3. CASE k \in {"avatar-inscribed"} \X Rooms \X Avatars \X Contents
  BY <1>3, NodeKinds, FactKinds DEF Contract
<1>4. CASE k \in {"move", "aqueduct-created"} \X Rooms \X Rooms
  BY <1>4, PassageFacts DEF Contract
<1>5. CASE k \in {"true-naming"} \X Mythoi \X Mythoi
  <2>1. Contract(k) = {<<"node", k[2]>>, <<"MYTHOS_HEAD", Palace, k[2]>>,
                       <<"head", Palace, k[2]>>, <<"PREDECESSOR", k[2], k[3]>>}
    BY <1>5 DEF Contract
  <2> QED
    BY <1>5, <2>1, NodeKinds, FactKinds, ColumnKinds
<1>6. CASE k \in {"inscription-updated"} \X Avatars \X Contents
  BY <1>6, FactKinds, ColumnKinds DEF Contract
<1>7. CASE k \in {"inscription-orphaned"} \X Avatars
  <2>1. Contract(k) = {<<"orphaned", k[2], TRUE>>}
    BY <1>7 DEF Contract
  <2> QED
    BY <1>7, <2>1, FactKinds, ColumnKinds
<1> QED
  BY <1>1, <1>2, <1>3, <1>4, <1>5, <1>6, <1>7 DEF MirrorKinds

LEMMA PromiseFacts ==
    ASSUME NEW v \in Scriptable
    PROVE  Promise(v) \subseteq Facts
<1>1. CASE v \in ({"ensurePalace"} \X {Palace}) \cup ({"createAgent"} \X {Oracle})
                   \cup ({"recordAction"} \X Actions)
  BY <1>1, NodeKinds, FactKinds DEF Promise, Contract
<1>2. CASE v \in {"addRoom"} \X Rooms
  BY <1>2, NodeKinds, FactKinds DEF Promise, Contract
<1>3. CASE v \in {"inscribeAvatar"} \X Rooms \X Avatars \X Contents
  BY <1>3, NodeKinds, FactKinds DEF Promise, Contract
<1>4. CASE v \in {"setMythosHead"} \X Mythoi
  <2>1. Promise(v) = {<<"node", v[2]>>, <<"MYTHOS_HEAD", Palace, v[2]>>, <<"head", Palace, v[2]>>}
    BY <1>4 DEF Promise, Contract
  <2> QED
    BY <1>4, <2>1, NodeKinds, FactKinds, ColumnKinds
<1>5. CASE v \in {"appendMythos"} \X Mythoi \X Mythoi
  BY <1>5, NodeKinds, FactKinds DEF Promise, Contract
<1>6. CASE v \in {"upsertEmbedding"} \X Avatars
  <2>1. Promise(v) = {<<"embedded", v[2], TRUE>>}
    BY <1>6 DEF Promise, Contract
  <2> QED
    BY <1>6, <2>1, FactKinds, ColumnKinds
<1>7. CASE v \in {"deleteEmbedding"} \X Avatars
  <2>1. Promise(v) = {<<"embedded", v[2], FALSE>>}
    BY <1>7 DEF Promise, Contract
  <2> QED
    BY <1>7, <2>1, FactKinds, ColumnKinds
<1>8. CASE v \in {"markOrphaned"} \X Avatars
  <2>1. Promise(v) = {<<"orphaned", v[2], TRUE>>}
    BY <1>8 DEF Promise, Contract
  <2> QED
    BY <1>8, <2>1, FactKinds, ColumnKinds
<1>9. CASE v \in ({"reembed"} \X Avatars \X Contents)
                   \cup ({"updateInscription"} \X Avatars \X Contents \X {0, 1})
  BY <1>9, FactKinds, ColumnKinds DEF Promise, Contract
<1>10. CASE v \in ({"insertTriple", "deleteTriple"} \X Triples)
                    \cup ({"updateTriple"} \X Triples \X Triples)
  BY <1>10, NodeKinds, FactKinds DEF Promise, Contract
<1>11. CASE v \in {"getOrCreateAqueduct"} \X Rooms \X Rooms
  BY <1>11, PassageFacts DEF Promise, Contract
<1>12. CASE v \in {"mirrorAction"} \X Actions \X MirrorKinds
  <2>1. Promise(v) = {<<"node", v[2]>>} \cup Contract(v[3])
    BY <1>12 DEF Promise
  <2> QED
    BY <1>12, <2>1, NodeKinds, FactKinds, ContractMirrored
<1>13. CASE v \in Navigations
  <2>1. /\ v[1] = "navigate" /\ v[2] \in {Palace} \cup Rooms /\ v[3] \in Rooms
        /\ <<v[2], v[3], v[4]>> \in Moves
    BY <1>13 DEF Navigations, Moves
  <2>2. Promise(v) = Passage(v[2], v[3]) \cup {<<"node", <<v[2], v[3], v[4]>> >>}
    BY <2>1 DEF Promise, Contract
  <2> QED
    BY <2>1, <2>2, NodeKinds, FactKinds, PassageFacts
<1> QED
  BY <1>1, <1>2, <1>3, <1>4, <1>5, <1>6, <1>7, <1>8, <1>9, <1>10, <1>11, <1>12, <1>13
     DEF Scriptable, AllVerbs

LEMMA OwedFacts ==
    ASSUME NEW v \in Scriptable, acked \in SUBSET Facts
    PROVE  Owed(v) \in SUBSET Facts /\ Suspended(v) \subseteq acked
<1>1. Suspended(v) \subseteq acked
  BY DEF Suspended, Of
<1> QED
  BY <1>1, PromiseFacts DEF Owed

-----------------------------------------------------------------------------
\* Statements keep graphs typed.

LEMMA RowType == ASSUME NEW g \in SUBSET Facts, NEW a PROVE RowOf(g, a) \in SUBSET Uncounted
BY DEF RowOf, Uncounted, Facts, Edges

LEMMA EdgesType ==
    ASSUME NEW g \in SUBSET Facts, NEW label \in Labels, NEW a
    PROVE  EdgesOf(g, label, a) \in SUBSET Uncounted
BY DEF EdgesOf, Uncounted, Labels, Facts, Columns

LEMMA CreatedType ==
    ASSUME NEW g \in SUBSET Facts, NEW n \in Nodes, NEW cs \in SUBSET Facts
    PROVE  Created(g, n, cs) \in SUBSET Facts
BY FactKinds DEF Created

LEMMA JoinedType == ASSUME NEW g \in SUBSET Facts, NEW e PROVE Joined(g, e) \in SUBSET Facts
BY FactKinds DEF Joined

LEMMA UnjoinedType ==
    ASSUME NEW g \in SUBSET Facts, NEW label, NEW n
    PROVE  Unjoined(g, label, n) \in SUBSET Facts
BY DEF Unjoined

LEMMA DroppedType == ASSUME NEW g \in SUBSET Facts, NEW n PROVE Dropped(g, n) \in SUBSET Facts
BY DEF Dropped

LEMMA AssignedType ==
    ASSUME NEW g \in SUBSET Facts, NEW n, NEW vs \in SUBSET Facts
    PROVE  Assigned(g, n, vs) \in SUBSET Facts
BY DEF Assigned

-----------------------------------------------------------------------------
(***************************************************************************)
(* Where a call is in its script.                                          *)
(***************************************************************************)

Walks(v) == v \in Scriptable /\ (IsNavigation(v) \/ IsMove(v))

Opening == {Do("mount") \o Do("load") \o Do("ddl"), Do("load") \o Do("ddl"), Do("ddl"), <<>>}
Closing == {Do("disconnect") \o Do("shut") \o Do("save") \o Do("unmount"),
            Do("shut") \o Do("save") \o Do("unmount"), Do("save") \o Do("unmount"),
            Do("unmount"), <<>>}
Syncing == {Do("save"), <<>>}

StrengthsOf(q) == {f \in Facts : f[1] = "strength" /\ f[2] = q}

\* A walk has read the strength; it has stored the new one; it has recorded the move.
Raising(v, s, m) ==
    Walks(v) /\ s = <<Raise(Way(v))>> \o Recording(v) /\ m \in SUBSET StrengthsOf(Way(v))
Raised(v, s, m) == Walks(v) /\ s = Recording(v) /\ m \in SUBSET Facts
Recorded(v, s, m) ==
    v \in Scriptable /\ IsNavigation(v) /\ s \in {<<Must(Way(v))>>, <<>>} /\ m \in SUBSET Facts

\* A call that does v has the steps s before it and the rows m behind it.
Staged(v, s, m) ==
    \/ v = Idle /\ s = <<>> /\ m \in SUBSET Uncounted
    \/ v = <<"open">> /\ s \in Opening /\ m \in SUBSET Uncounted
    \/ v = <<"close">> /\ s \in Closing /\ m \in SUBSET Uncounted
    \/ v = <<"syncfs">> /\ s \in Syncing /\ m \in SUBSET Uncounted
    \/ v \in Scriptable /\ Quieted(v, s) /\ m \in SUBSET Uncounted
    \/ Raising(v, s, m) \/ Raised(v, s, m) \/ Recorded(v, s, m)

QuietDo == {"create", "must", "drop", "join", "unjoin", "edges", "assign", "put", "rejoin",
            "row", "probe"}

LEMMA QuietHead ==
    ASSUME NEW s \in Quiet
    PROVE  s.do \in QuietDo
BY DEF Quiet, Plain, NewRows, RowSteps, Probes, QuietDo

LEMMA Listed ==
    ASSUME NEW a, NEW b, NEW c, NEW d
    PROVE  /\ <<a>> \o <<b>> = <<a, b>> /\ <<a>> \o <<b>> \o <<c>> = <<a, b, c>>
           /\ <<a>> \o <<b>> \o <<c>> \o <<d>> = <<a, b, c, d>>
<1> DEFINE S == {a, b, c, d}
<1>1. /\ <<a>> \in Seq(S) /\ <<b>> \in Seq(S) /\ <<c>> \in Seq(S) /\ <<d>> \in Seq(S)
      /\ <<a, b>> \in Seq(S) /\ <<a, b, c>> \in Seq(S) /\ <<a, b, c, d>> \in Seq(S)
  OBVIOUS
<1> HIDE DEF S
<1>2. <<a>> \o <<b>> = <<a, b>>
  <2>1. Len(<<a>> \o <<b>>) = 2 /\ \A i \in 1 .. 2 : (<<a>> \o <<b>>)[i] = <<a, b>>[i]
    BY <1>1, ConcatProperties
  <2> QED
    BY <1>1, <2>1, ConcatProperties, SeqEqual
<1>3. <<a, b>> \o <<c>> = <<a, b, c>>
  <2>1. Len(<<a, b>> \o <<c>>) = 3 /\ \A i \in 1 .. 3 : (<<a, b>> \o <<c>>)[i] = <<a, b, c>>[i]
    BY <1>1, ConcatProperties
  <2> QED
    BY <1>1, <2>1, ConcatProperties, SeqEqual
<1>4. <<a, b, c>> \o <<d>> = <<a, b, c, d>>
  <2>1. /\ Len(<<a, b, c>> \o <<d>>) = 4
        /\ \A i \in 1 .. 4 : (<<a, b, c>> \o <<d>>)[i] = <<a, b, c, d>>[i]
    BY <1>1, ConcatProperties
  <2> QED
    BY <1>1, <2>1, ConcatProperties, SeqEqual
<1> QED
  BY <1>2, <1>3, <1>4

\* The steps of open(), close() and syncfs().
LEMMA LifeHeads ==
    /\ \A s \in Opening \cup Closing \cup Syncing : s # <<>> =>
          /\ Head(s).do \in Lifecycle
          /\ Head(s) = [do |-> Head(s).do]
    /\ \A s \in Opening : s # <<>> =>
          /\ Head(s).do \in {"mount", "load", "ddl"} /\ Tail(s) \in Opening
          /\ Head(s).do = "mount" => Tail(s) # <<>> /\ Head(Tail(s)).do = "load"
          /\ Head(s).do = "load" => Tail(s) # <<>> /\ Head(Tail(s)).do = "ddl"
          /\ Head(s).do = "ddl" => Tail(s) = <<>>
    /\ \A s \in Closing : s # <<>> =>
          /\ Head(s).do \in {"disconnect", "shut", "save", "unmount"} /\ Tail(s) \in Closing
          /\ Head(s).do = "disconnect" => Tail(s) # <<>> /\ Head(Tail(s)).do = "shut"
          /\ Head(s).do = "shut" => Tail(s) # <<>> /\ Head(Tail(s)).do = "save"
          /\ Head(s).do = "save" => Tail(s) # <<>> /\ Head(Tail(s)).do = "unmount"
          /\ Head(s).do = "unmount" => Tail(s) = <<>>
    /\ \A s \in Syncing : s # <<>> => Head(s).do = "save" /\ Tail(s) = <<>>
<1> DEFINE D(n) == [do |-> n]
<1>1. \A n : D(n).do = n /\ Do(n) = <<D(n)>>
  BY DEF Do
<1> HIDE DEF D
<1> DEFINE o1 == <<D("mount"), D("load"), D("ddl")>>
           o2 == <<D("load"), D("ddl")>>
           o3 == <<D("ddl")>>
           c1 == <<D("disconnect"), D("shut"), D("save"), D("unmount")>>
           c2 == <<D("shut"), D("save"), D("unmount")>>
           c3 == <<D("save"), D("unmount")>>
           c4 == <<D("unmount")>>
           c5 == <<D("save")>>
<1>2. /\ Do("mount") \o Do("load") \o Do("ddl") = o1 /\ Do("load") \o Do("ddl") = o2
      /\ Do("ddl") = o3
  BY <1>1, Listed
<1>3. /\ Do("disconnect") \o Do("shut") \o Do("save") \o Do("unmount") = c1
      /\ Do("shut") \o Do("save") \o Do("unmount") = c2 /\ Do("save") \o Do("unmount") = c3
      /\ Do("unmount") = c4 /\ Do("save") = c5
  <2>1. <<D("disconnect")>> \o <<D("shut")>> \o <<D("save")>> \o <<D("unmount")>> = c1
    BY Listed
  <2>2. <<D("shut")>> \o <<D("save")>> \o <<D("unmount")>> = c2
    BY Listed
  <2>3. <<D("save")>> \o <<D("unmount")>> = c3
    BY Listed
  <2> QED
    BY <1>1, <2>1, <2>2, <2>3
<1>4. Opening = {o1, o2, o3, <<>>} /\ Closing = {c1, c2, c3, c4, <<>>} /\ Syncing = {c5, <<>>}
  BY <1>2, <1>3 DEF Opening, Closing, Syncing
<1>5. /\ Head(o1) = D("mount") /\ Tail(o1) = o2 /\ Head(o2) = D("load")
      /\ Tail(o2) = o3 /\ Head(o3) = D("ddl") /\ Tail(o3) = <<>>
      /\ o2 # <<>> /\ o3 # <<>>
  OBVIOUS
<1>6. /\ Head(c1) = D("disconnect") /\ Tail(c1) = c2 /\ Head(c2) = D("shut")
      /\ Tail(c2) = c3 /\ Head(c3) = D("save") /\ Tail(c3) = c4
      /\ Head(c4) = D("unmount") /\ Tail(c4) = <<>> /\ c2 # <<>> /\ c3 # <<>> /\ c4 # <<>>
      /\ Head(c5) = D("save") /\ Tail(c5) = <<>>
  OBVIOUS
<1> HIDE DEF o1, o2, o3, c1, c2, c3, c4, c5
<1>7. \A n \in Lifecycle : D(n).do \in Lifecycle /\ D(n) = [do |-> D(n).do]
  BY <1>1 DEF D
<1>8. ASSUME NEW s \in Opening, s # <<>>
      PROVE  /\ Head(s).do \in {"mount", "load", "ddl"} /\ Tail(s) \in Opening
             /\ Head(s).do = "mount" => Tail(s) # <<>> /\ Head(Tail(s)).do = "load"
             /\ Head(s).do = "load" => Tail(s) # <<>> /\ Head(Tail(s)).do = "ddl"
             /\ Head(s).do = "ddl" => Tail(s) = <<>>
             /\ \E n \in Lifecycle : Head(s) = D(n)
  <2>1. CASE s = o1
    <3>1. Head(s) = D("mount") /\ Tail(s) = o2 /\ o2 \in Opening /\ Head(o2).do = "load"
      BY <1>1, <1>4, <1>5, <2>1
    <3>2. Head(s).do = "mount" /\ "mount" \in Lifecycle
      BY <1>1, <3>1 DEF Lifecycle
    <3> QED
      BY <1>5, <3>1, <3>2
  <2>2. CASE s = o2
    BY <1>1, <1>4, <1>5, <2>2 DEF Lifecycle
  <2>3. CASE s = o3
    BY <1>1, <1>4, <1>5, <2>3 DEF Lifecycle
  <2> QED
    BY <1>4, <1>8, <2>1, <2>2, <2>3
<1>9. ASSUME NEW s \in Closing, s # <<>>
      PROVE  /\ Head(s).do \in {"disconnect", "shut", "save", "unmount"} /\ Tail(s) \in Closing
             /\ Head(s).do = "disconnect" => Tail(s) # <<>> /\ Head(Tail(s)).do = "shut"
             /\ Head(s).do = "shut" => Tail(s) # <<>> /\ Head(Tail(s)).do = "save"
             /\ Head(s).do = "save" => Tail(s) # <<>> /\ Head(Tail(s)).do = "unmount"
             /\ Head(s).do = "unmount" => Tail(s) = <<>>
             /\ \E n \in Lifecycle : Head(s) = D(n)
  <2>1. CASE s = c1
    <3>1. Head(s) = D("disconnect") /\ Tail(s) = c2 /\ c2 \in Closing /\ Head(c2).do = "shut"
      BY <1>1, <1>4, <1>6, <2>1
    <3>2. Head(s).do = "disconnect" /\ "disconnect" \in Lifecycle
      BY <1>1, <3>1 DEF Lifecycle
    <3> QED
      BY <1>6, <3>1, <3>2
  <2>2. CASE s = c2
    <3>1. Head(s) = D("shut") /\ Tail(s) = c3 /\ c3 \in Closing /\ Head(c3).do = "save"
      BY <1>1, <1>4, <1>6, <2>2
    <3>2. Head(s).do = "shut" /\ "shut" \in Lifecycle
      BY <1>1, <3>1 DEF Lifecycle
    <3> QED
      BY <1>6, <3>1, <3>2
  <2>3. CASE s = c3
    <3>1. Head(s) = D("save") /\ Tail(s) = c4 /\ c4 \in Closing /\ Head(c4).do = "unmount"
      BY <1>1, <1>4, <1>6, <2>3
    <3>2. Head(s).do = "save" /\ "save" \in Lifecycle
      BY <1>1, <3>1 DEF Lifecycle
    <3> QED
      BY <1>6, <3>1, <3>2
  <2>4. CASE s = c4
    BY <1>1, <1>4, <1>6, <2>4 DEF Lifecycle
  <2> QED
    BY <1>4, <1>9, <2>1, <2>2, <2>3, <2>4
<1>10. ASSUME NEW s \in Syncing, s # <<>>
       PROVE  /\ Head(s).do = "save" /\ Tail(s) = <<>>
              /\ \E n \in Lifecycle : Head(s) = D(n)
  BY <1>1, <1>4, <1>6, <1>10 DEF Lifecycle
<1> QED
  BY <1>7, <1>8, <1>9, <1>10

\* A call with steps left is about to take one of these.
AtLife(v, s) ==
    /\ Head(s).do \in Lifecycle /\ Head(s) = [do |-> Head(s).do]
    /\ \/ v = <<"open">> /\ s \in Opening /\ Tail(s) \in Opening
       \/ v = <<"close">> /\ s \in Closing /\ Tail(s) \in Closing
       \/ v = <<"syncfs">> /\ s \in Syncing /\ Tail(s) \in Syncing

AtQuiet(v, s) ==
    /\ v \in Scriptable /\ Head(s) \in Quiet /\ Head(s).do \in QuietDo
    /\ Quieted(v, Tail(s)) /\ \A t \in Seq(Quiet) : Quieted(v, t \o Tail(s))

AtStrength(v, s) ==
    Walks(v) /\ Head(s) = ReadStrength(Way(v)) /\ Tail(s) = <<Raise(Way(v))>> \o Recording(v)

AtRaise(v, s, m) ==
    /\ Walks(v) /\ Raising(v, s, m)
    /\ Head(s) = Raise(Way(v)) /\ Tail(s) = Recording(v)

AtRecord(v, s, m) ==
    /\ v \in Scriptable /\ IsNavigation(v) /\ Raised(v, s, m)
    /\ Head(s) = Create(MoveOf(v), {}) /\ Tail(s) = <<Must(Way(v))>>

AtMust(v, s) ==
    v \in Scriptable /\ IsNavigation(v) /\ Head(s) = Must(Way(v)) /\ Tail(s) = <<>>

LEMMA EndingSteps ==
    ASSUME NEW v \in Scriptable
    PROVE  /\ Ending(v) = IF Walks(v) THEN <<ReadStrength(Way(v)), Raise(Way(v))>> \o Recording(v)
                          ELSE <<>>
           /\ Walks(v) => /\ Ending(v) # <<>> /\ Head(Ending(v)) = ReadStrength(Way(v))
                          /\ Tail(Ending(v)) = <<Raise(Way(v))>> \o Recording(v)
           /\ <<Raise(Way(v))>> \o Recording(v) # <<>>
           /\ Head(<<Raise(Way(v))>> \o Recording(v)) = Raise(Way(v))
           /\ Tail(<<Raise(Way(v))>> \o Recording(v)) = Recording(v)
           /\ \E S : Ending(v) \in Seq(S)
<1> DEFINE a == ReadStrength(Way(v))
           b == Raise(Way(v))
           d == Create(MoveOf(v), {})
           e == Must(Way(v))
           S == {a, b, d, e}
<1>1. a \in S /\ b \in S /\ Recording(v) \in Seq(S)
  <2>1. Recording(v) = IF IsNavigation(v) THEN <<d, e>> ELSE <<>>
    BY DEF Recording
  <2>2. a \in S /\ b \in S /\ d \in S /\ e \in S
    OBVIOUS
  <2> HIDE DEF a, b, d, e, S
  <2> QED
    BY <2>1, <2>2, TwoSteps, EmptySeq
<1> HIDE DEF S, a, b
<1>2. /\ Ending(v) = IF Walks(v) THEN <<a, b>> \o Recording(v) ELSE <<>>
  BY DEF Ending, Walks, UpdateAqueductStrength, a, b
<1>3. Ending(v) \in Seq(S)
  BY <1>1, <1>2
<1>4. Head(<<a, b>> \o Recording(v)) = a /\ <<a, b>> \o Recording(v) # <<>>
  BY <1>1
<1>5. Tail(<<a, b>> \o Recording(v)) = <<b>> \o Recording(v)
  BY <1>1
<1>6. Head(<<b>> \o Recording(v)) = b /\ <<b>> \o Recording(v) # <<>>
  BY <1>1
<1>7. Tail(<<b>> \o Recording(v)) = Recording(v)
  BY <1>1
<1> QED
  BY <1>2, <1>3, <1>4, <1>5, <1>6, <1>7 DEF a, b

LEMMA StepOf ==
    ASSUME NEW v, NEW s, NEW m, Staged(v, s, m), s # <<>>
    PROVE  \/ AtLife(v, s) /\ m \in SUBSET Uncounted
           \/ AtQuiet(v, s) /\ m \in SUBSET Uncounted
           \/ AtStrength(v, s)
           \/ AtRaise(v, s, m) \/ AtRecord(v, s, m)
           \/ AtMust(v, s) /\ m \in SUBSET Facts
<1>1. CASE (v = <<"open">> /\ s \in Opening) \/ (v = <<"close">> /\ s \in Closing)
              \/ (v = <<"syncfs">> /\ s \in Syncing)
  <2>1. m \in SUBSET Uncounted
    BY <1>1 DEF Staged, Raising, Raised, Recorded, Walks, Scriptable, AllVerbs, Navigations, Idle
  <2>2. AtLife(v, s)
    BY <1>1, LifeHeads DEF AtLife, Syncing
  <2> QED
    BY <2>1, <2>2
<1>2. CASE v \in Scriptable /\ Quieted(v, s) /\ m \in SUBSET Uncounted
  <2>1. PICK p \in Seq(Quiet) : s = p \o Ending(v)
    BY <1>2 DEF Quieted
  <2>2. PICK S : Ending(v) \in Seq(S)
    BY <1>2, EndingSteps
  <2>3. CASE p = <<>>
    <3>1. s = Ending(v)
      BY <2>1, <2>2, <2>3
    <3>2. Walks(v)
      BY <1>2, <3>1, EndingSteps
    <3> QED
      BY <1>2, <3>1, <3>2, EndingSteps DEF AtStrength
  <2>4. CASE p # <<>>
    <3> DEFINE T == Quiet \cup S
    <3>1. p \in Seq(T) /\ Ending(v) \in Seq(T)
      BY <2>2, SeqWider
    <3>2. /\ Head(s) = Head(p) /\ Tail(s) = Tail(p) \o Ending(v)
          /\ Head(p) \in Quiet /\ Tail(p) \in Seq(Quiet)
      <4> HIDE DEF T
      <4>1. Head(p) \in Quiet /\ Tail(p) \in Seq(Quiet)
        BY <2>4
      <4> QED
        BY <2>1, <2>4, <3>1, <4>1, HeadOfConcat
    <3>3. Quieted(v, Tail(s))
      BY <3>2 DEF Quieted
    <3>4. ASSUME NEW t \in Seq(Quiet) PROVE Quieted(v, t \o Tail(s))
      <4>1. t \o (Tail(p) \o Ending(v)) = (t \o Tail(p)) \o Ending(v)
        <5>1. t \in Seq(T) /\ Tail(p) \in Seq(T)
          BY <3>2, SeqWider
        <5> DEFINE w == Tail(p)
                   z == Ending(v)
        <5>2. t \in Seq(T) /\ w \in Seq(T) /\ z \in Seq(T)
          BY <3>1, <5>1
        <5> HIDE DEF T, w, z
        <5>3. t \o (w \o z) = (t \o w) \o z
          BY <5>2, ConcatAssociative, SMTT(30)
        <5> QED
          BY <5>3 DEF w, z
      <4>2. t \o Tail(p) \in Seq(Quiet)
        BY <3>2, JoinSeq
      <4> QED
        BY <3>2, <4>1, <4>2 DEF Quieted
    <3>5. Head(s) \in Quiet /\ Head(s).do \in QuietDo
      BY <3>2, QuietHead
    <3> QED
      BY <1>2, <3>3, <3>4, <3>5 DEF AtQuiet
  <2> QED
    BY <2>3, <2>4
<1>3. CASE Raising(v, s, m)
  BY <1>3, EndingSteps DEF AtRaise, Raising, Walks
<1>4. CASE Raised(v, s, m)
  <2>1. IsNavigation(v) /\ v \in Scriptable /\ s = <<Create(MoveOf(v), {}), Must(Way(v))>>
    BY <1>4 DEF Raised, Recording, Walks
  <2>2. Head(s) = Create(MoveOf(v), {}) /\ Tail(s) = <<Must(Way(v))>>
    BY <2>1
  <2> QED
    BY <1>4, <2>1, <2>2 DEF AtRecord
<1>5. CASE Recorded(v, s, m)
  <2>1. s = <<Must(Way(v))>>
    BY <1>5 DEF Recorded
  <2>2. Head(s) = Must(Way(v)) /\ Tail(s) = <<>>
    BY <2>1
  <2> QED
    BY <1>5, <2>2 DEF AtMust, Recorded
<1> QED
  BY <1>1, <1>2, <1>3, <1>4, <1>5 DEF Staged

-----------------------------------------------------------------------------
(***************************************************************************)
(* Types.                                                                  *)
(***************************************************************************)

LEMMA OpKinds ==
    /\ \A v \in Scriptable : v \in Ops /\ v # Idle /\ v[1] \notin {"idle", "open", "close", "syncfs"}
    /\ Idle \in Ops /\ <<"open">> \in Ops /\ <<"close">> \in Ops /\ <<"syncfs">> \in Ops
    /\ \A v \in Ops : v \in Scriptable \/ v \in {Idle, <<"open">>, <<"close">>, <<"syncfs">>}
    /\ \A v \in Navigations : IsNavigation(v) /\ v \in Scriptable
    /\ \A v \in Ops : v[1] = "navigate" => v \in Navigations
BY DEF Scriptable, AllVerbs, Navigations, Ops, Idle, LifecycleOps, IsNavigation

\* The steps that lead from one stage to the next.
LEMMA StagedNext ==
    ASSUME NEW v, NEW s, NEW m, NEW n \in SUBSET Facts
    PROVE  /\ AtLife(v, s) /\ n \in SUBSET Uncounted => Staged(v, Tail(s), n)
           /\ AtQuiet(v, s) /\ n \in SUBSET Uncounted =>
                 /\ Staged(v, Tail(s), n)
                 /\ \A t \in Seq(Quiet) : Staged(v, t \o Tail(s), n)
           /\ AtStrength(v, s) /\ n \in SUBSET StrengthsOf(Way(v)) => Staged(v, Tail(s), n)
           /\ AtRaise(v, s, m) => Staged(v, Tail(s), n)
           /\ AtRecord(v, s, m) => Staged(v, Tail(s), n)
           /\ AtMust(v, s) => Staged(v, Tail(s), n)
<1>1. AtLife(v, s) /\ n \in SUBSET Uncounted => Staged(v, Tail(s), n)
  BY DEF AtLife, Staged
<1>2. AtQuiet(v, s) /\ n \in SUBSET Uncounted =>
          /\ Staged(v, Tail(s), n)
          /\ \A t \in Seq(Quiet) : Staged(v, t \o Tail(s), n)
  BY DEF AtQuiet, Staged
<1>3. AtStrength(v, s) /\ n \in SUBSET StrengthsOf(Way(v)) => Staged(v, Tail(s), n)
  BY DEF AtStrength, Staged, Raising
<1>4. AtRaise(v, s, m) => Staged(v, Tail(s), n)
  BY DEF AtRaise, Staged, Raised
<1>5. AtRecord(v, s, m) => Staged(v, Tail(s), n)
  BY DEF AtRecord, Staged, Recorded
<1>6. AtMust(v, s) => Staged(v, Tail(s), n)
  BY DEF AtMust, Staged, Recorded
<1> QED
  BY <1>1, <1>2, <1>3, <1>4, <1>5, <1>6

LEMMA QuietSteps == Plain \subseteq Simple /\ Seq(Quiet) \subseteq Seq(Steps)
<1>1. NewRows \subseteq Simple
  BY FactKinds DEF NewRows, Simple
<1>2. [do : {"drop"}, node : Avatars \cup Triples] \subseteq Simple
  BY NodeKinds DEF Simple
<1>3. [do : {"assign"}, node : Nodes, values : SUBSET Uncounted] \subseteq Simple
  BY DEF Simple, Uncounted, Facts
<1>4. Plain \subseteq Simple
  <2>1. [do : {"must"}, node : Nodes] \subseteq Simple
    BY DEF Simple
  <2>2. /\ [do : {"join"}, edge : Labels \X Nodes \X Nodes] \subseteq Simple
        /\ [do : {"unjoin", "edges"}, label : Labels, node : Nodes] \subseteq Simple
    BY DEF Simple
  <2>3. /\ [do : {"put"}, node : Avatars, embedded : BOOLEAN] \subseteq Simple
        /\ [do : {"rejoin"}] \subseteq Simple
    BY DEF Simple
  <2> QED
    BY <1>1, <1>2, <1>3, <2>1, <2>2, <2>3 DEF Plain
<1> DEFINE Rows == [do : {"row"}, node : Nodes, rest : Seq(Simple)]
<1>5. Seq(Plain) \subseteq Seq(Simple)
  BY <1>4, SeqMonotonic
<1>6. RowSteps \subseteq Rows
  BY <1>5 DEF RowSteps
<1>7. Seq(Plain \cup RowSteps) \subseteq Seq(Simple \cup Rows)
  <2>1. Plain \cup RowSteps \subseteq Simple \cup Rows
    BY <1>4, <1>6
  <2> QED
    BY <2>1, SeqMonotonic
<1>8. Probes \subseteq Steps
  BY <1>7 DEF Probes, Steps
<1>9. Quiet \subseteq Steps
  BY <1>4, <1>6, <1>8 DEF Quiet, Steps
<1> QED
  BY <1>4, <1>9, SeqMonotonic

LEMMA StagedSteps ==
    ASSUME NEW v, NEW s, NEW m, Staged(v, s, m)
    PROVE  s \in Seq(Steps)
<1>1. \A n \in Lifecycle : [do |-> n] \in Steps
  BY DEF Steps, Simple
<1>2. CASE s = <<>>
  BY <1>2, EmptySeq
<1>3. CASE s \in Opening \cup Closing \cup Syncing
  <2>1. \A n \in Lifecycle : Do(n) \in Seq(Steps)
    BY <1>1, OneStep DEF Do
  <2>2. /\ Do("mount") \in Seq(Steps) /\ Do("load") \in Seq(Steps) /\ Do("ddl") \in Seq(Steps)
        /\ Do("disconnect") \in Seq(Steps) /\ Do("shut") \in Seq(Steps)
        /\ Do("save") \in Seq(Steps) /\ Do("unmount") \in Seq(Steps)
    BY <2>1 DEF Lifecycle
  <2>3. /\ Do("load") \o Do("ddl") \in Seq(Steps)
        /\ Do("mount") \o Do("load") \o Do("ddl") \in Seq(Steps)
    BY <2>2, JoinSeq
  <2>4. /\ Do("save") \o Do("unmount") \in Seq(Steps)
        /\ Do("shut") \o Do("save") \o Do("unmount") \in Seq(Steps)
        /\ Do("disconnect") \o Do("shut") \o Do("save") \o Do("unmount") \in Seq(Steps)
    BY <2>2, JoinSeq
  <2> HIDE DEF Steps
  <2> QED
    BY <1>2, <1>3, <2>2, <2>3, <2>4 DEF Opening, Closing, Syncing
<1>4. ASSUME v \in Scriptable
      PROVE  /\ Recording(v) \in Seq(Steps)
             /\ Walks(v) => /\ ReadStrength(Way(v)) \in Steps /\ Raise(Way(v)) \in Steps
                            /\ Must(Way(v)) \in Steps
  <2>1. ASSUME Walks(v)
        PROVE  /\ ReadStrength(Way(v)) \in Steps /\ Raise(Way(v)) \in Steps
               /\ Must(Way(v)) \in Steps
    <3>1. Way(v) \in Nodes
      BY <1>4, <2>1, ScriptShape, NodeKinds DEF Walks
    <3> QED
      BY <3>1 DEF ReadStrength, Raise, Must, Steps, Simple
  <2>2. ASSUME IsNavigation(v) PROVE Create(MoveOf(v), {}) \in Steps
    <3>1. MoveOf(v) \in Nodes
      BY <1>4, <2>2, ScriptShape, NodeKinds
    <3> QED
      BY <3>1 DEF Create, Steps, Simple
  <2> QED
    BY <1>4, <2>1, <2>2, TwoSteps, EmptySeq DEF Recording, Walks
<1>5. CASE v \in Scriptable /\ Quieted(v, s)
  <2>1. PICK p \in Seq(Quiet) : s = p \o Ending(v)
    BY <1>5 DEF Quieted
  <2>2. Ending(v) \in Seq(Steps)
    <3>1. Walks(v) => <<ReadStrength(Way(v)), Raise(Way(v))>> \in Seq(Steps)
      BY <1>4, <1>5, TwoSteps
    <3> QED
      BY <1>4, <1>5, <3>1, EndingSteps, JoinSeq, EmptySeq
  <2> QED
    BY <2>1, <2>2, QuietSteps, JoinSeq
<1>6. CASE Raising(v, s, m) \/ Raised(v, s, m)
  <2>1. v \in Scriptable /\ Walks(v)
    BY <1>6 DEF Raising, Raised, Walks
  <2>2. <<Raise(Way(v))>> \in Seq(Steps)
    BY <1>4, <2>1, OneStep
  <2> QED
    BY <1>4, <1>6, <2>1, <2>2, JoinSeq DEF Raising, Raised
<1>7. CASE Recorded(v, s, m)
  <2>1. v \in Scriptable /\ Walks(v)
    BY <1>7 DEF Recorded, Walks
  <2> QED
    BY <1>2, <1>4, <1>7, <2>1, OneStep DEF Recorded
<1> QED
  BY <1>2, <1>3, <1>5, <1>6, <1>7 DEF Staged

GraphsTyped ==
    /\ disk \in SUBSET Facts /\ mem \in SUBSET Facts
    /\ mounted \in BOOLEAN /\ conn \in {"none", "open", "closed"}

CallsTyped ==
    /\ op \in [Calls -> Ops] /\ todo = [c \in Calls |-> todo[c]]
    /\ memo \in [Calls -> SUBSET Facts]
    /\ \A c \in Calls : Staged(op[c], todo[c], memo[c])
    /\ \A c \in Calls : op[c] \in {<<"close">>, <<"syncfs">>} => c = Host

ClaimsTyped ==
    /\ owed \in [Calls -> SUBSET Facts]
    /\ acked \in SUBSET Facts /\ saved \in SUBSET Facts

RestTyped ==
    /\ room \in Rooms \cup {None} /\ painted \in SUBSET Moves
    /\ overlapped \in SUBSET Aqueducts
    /\ clock \in 0 .. MaxClock /\ spent \in 0 .. MaxOps /\ faults \in 0 .. MaxFaults

TInv == GraphsTyped /\ CallsTyped /\ ClaimsTyped /\ RestTyped

LEMMA TInvTypes == TInv => TypeOK
<1>1. ASSUME CallsTyped PROVE todo \in [Calls -> Seq(Steps)]
  BY <1>1, StagedSteps DEF CallsTyped
<1> QED
  BY <1>1 DEF TInv, TypeOK, GraphsTyped, CallsTyped, ClaimsTyped, RestTyped

LEMMA TInvInit == Init => TInv
<1> SUFFICES ASSUME Init PROVE TInv
  OBVIOUS
<1>1. GraphsTyped /\ ClaimsTyped
  BY StoreSeedsAssumption DEF Init, GraphsTyped, ClaimsTyped
<1>2. CallsTyped
  <2>1. ASSUME NEW c \in Calls
        PROVE  op[c] = Idle /\ todo[c] = <<>> /\ memo[c] = {}
    BY <2>1 DEF Init
  <2>2. ASSUME NEW c \in Calls PROVE Staged(op[c], todo[c], memo[c])
    BY <2>1 DEF Staged
  <2>3. \A c \in Calls : op[c] \notin {<<"close">>, <<"syncfs">>}
    BY <2>1 DEF Idle
  <2>4. /\ op \in [Calls -> Ops] /\ todo = [c \in Calls |-> todo[c]]
        /\ memo \in [Calls -> SUBSET Facts]
    BY OpKinds DEF Init
  <2> QED
    BY <2>2, <2>3, <2>4 DEF CallsTyped
<1>3. RestTyped
  BY StoreBoundsAssumption DEF Init, RestTyped
<1> QED
  BY <1>1, <1>2, <1>3 DEF TInv

\* A step of call c changes its own place only.
LEMMA CallMoves ==
    ASSUME CallsTyped, NEW c \in Calls, NEW v \in Ops, NEW s, NEW m \in SUBSET Facts,
           op' = [op EXCEPT ![c] = v], todo' = [todo EXCEPT ![c] = s],
           memo' = [memo EXCEPT ![c] = m], Staged(v, s, m),
           v \in {<<"close">>, <<"syncfs">>} => c = Host
    PROVE  CallsTyped'
<1>1. /\ op' \in [Calls -> Ops] /\ todo' = [d \in Calls |-> todo'[d]]
      /\ memo' \in [Calls -> SUBSET Facts]
  BY DEF CallsTyped
<1>2. op'[c] = v /\ todo'[c] = s /\ memo'[c] = m
  BY DEF CallsTyped
<1>3. \A d \in Calls \ {c} : op'[d] = op[d] /\ todo'[d] = todo[d] /\ memo'[d] = memo[d]
  BY DEF CallsTyped
<1>4. ASSUME NEW d \in Calls PROVE Staged(op'[d], todo'[d], memo'[d])
  <2>1. CASE d = c
    BY <1>2, <2>1
  <2>2. CASE d # c
    BY <1>3, <2>2 DEF CallsTyped
  <2> QED
    BY <2>1, <2>2
<1>5. ASSUME NEW d \in Calls, op'[d] \in {<<"close">>, <<"syncfs">>} PROVE d = Host
  BY <1>2, <1>3, <1>5 DEF CallsTyped
<1> QED
  BY <1>1, <1>4, <1>5 DEF CallsTyped

\* Where call c is.
LEMMA CallHere ==
    ASSUME CallsTyped, NEW c \in Calls
    PROVE  /\ Staged(op[c], todo[c], memo[c]) /\ op[c] \in Ops /\ memo[c] \in SUBSET Facts
           /\ op = [op EXCEPT ![c] = op[c]] /\ todo = [todo EXCEPT ![c] = todo[c]]
           /\ memo = [memo EXCEPT ![c] = memo[c]]
           /\ op[c] \in {<<"close">>, <<"syncfs">>} => c = Host
BY DEF CallsTyped

LEMMA IdleHere ==
    ASSUME CallsTyped, NEW c \in Calls, op[c] = Idle
    PROVE  todo[c] = <<>> /\ memo[c] \in SUBSET Uncounted
<1>1. Staged(Idle, todo[c], memo[c]) /\ Idle \notin Scriptable
  BY CallHere, OpKinds
<1>2. Idle \notin {<<"open">>, <<"close">>, <<"syncfs">>}
  BY DEF Idle
<1> QED
  BY <1>1, <1>2 DEF Staged, Raising, Raised, Recorded, Walks

\* What the next step of a call does, by its place.
LEMMA AtDo ==
    ASSUME NEW v, NEW s, NEW m
    PROVE  /\ AtLife(v, s) => Head(s).do \in Lifecycle /\ Head(s).do \notin QuietDo
           /\ AtQuiet(v, s) => Head(s) \in Quiet /\ Head(s).do \in QuietDo
           /\ AtStrength(v, s) => Head(s).do = "strength" /\ Head(s).node = Way(v)
           /\ AtRaise(v, s, m) => Head(s).do = "raise" /\ Head(s).node = Way(v)
           /\ AtRecord(v, s, m) => /\ Head(s).do = "create" /\ Head(s).node = MoveOf(v)
                                   /\ Head(s).columns = {}
           /\ AtMust(v, s) => Head(s).do = "must" /\ Head(s).node = Way(v)
<1>1. AtLife(v, s) => Head(s).do \in Lifecycle /\ Head(s).do \notin QuietDo
  BY DEF AtLife, Lifecycle, QuietDo
<1>2. AtQuiet(v, s) => Head(s) \in Quiet /\ Head(s).do \in QuietDo
  BY DEF AtQuiet
<1>3. AtStrength(v, s) => Head(s).do = "strength" /\ Head(s).node = Way(v)
  BY DEF AtStrength, ReadStrength
<1>4. AtRaise(v, s, m) => Head(s).do = "raise" /\ Head(s).node = Way(v)
  BY DEF AtRaise, Raise
<1>5. AtRecord(v, s, m) => /\ Head(s).do = "create" /\ Head(s).node = MoveOf(v)
                           /\ Head(s).columns = {}
  BY DEF AtRecord, Create
<1>6. AtMust(v, s) => Head(s).do = "must" /\ Head(s).node = Way(v)
  BY DEF AtMust, Must
<1> QED
  BY <1>1, <1>2, <1>3, <1>4, <1>5, <1>6

\* The place of a call that has steps left.
LEMMA PlaceOf ==
    ASSUME CallsTyped, NEW c \in Calls, todo[c] # <<>>
    PROVE  \/ AtLife(op[c], todo[c]) /\ memo[c] \in SUBSET Uncounted
           \/ AtQuiet(op[c], todo[c]) /\ memo[c] \in SUBSET Uncounted
           \/ AtStrength(op[c], todo[c])
           \/ AtRaise(op[c], todo[c], memo[c]) \/ AtRecord(op[c], todo[c], memo[c])
           \/ AtMust(op[c], todo[c])
BY CallHere, StepOf

\* The quiet steps by what they do.
LEMMA QuietFields ==
    ASSUME NEW s \in Quiet
    PROVE  /\ s.do = "probe" => s.found \in Seq(Quiet) /\ s.missing \in Seq(Quiet)
           /\ s.do = "row" => s.rest \in Seq(Quiet)
           /\ s.do \in {"edges", "unjoin"} => s.label \in Labels /\ s.node \in Nodes
           /\ s.do = "create" => s \in NewRows
           /\ s.do = "drop" => s.node \in Avatars \cup Triples
           /\ s.do = "assign" => s.node \in Nodes /\ s.values \in SUBSET Uncounted
           /\ s.do = "put" => s.node \in Avatars /\ s.embedded \in BOOLEAN
<1>1. Seq(Plain) \subseteq Seq(Quiet) /\ Seq(Plain \cup RowSteps) \subseteq Seq(Quiet)
  <2>1. Plain \subseteq Quiet /\ Plain \cup RowSteps \subseteq Quiet
    BY DEF Quiet
  <2> QED
    BY <2>1, SeqMonotonic
<1>2. CASE s \in Probes
  BY <1>1, <1>2 DEF Probes
<1>3. CASE s \in RowSteps
  BY <1>1, <1>3 DEF RowSteps
<1>4. CASE s \in NewRows
  BY <1>4 DEF NewRows
<1>5. CASE s \in Plain \ NewRows
  BY <1>5 DEF Plain
<1> QED
  BY <1>2, <1>3, <1>4, <1>5 DEF Quiet

\* A lifecycle step is one of open(), close() or syncfs().
LEMMA GoesAtLife ==
    ASSUME CallsTyped, NEW c \in Calls, NEW name \in Lifecycle, Waiting(c, name)
    PROVE  AtLife(op[c], todo[c]) /\ memo[c] \in SUBSET Uncounted
<1>1. todo[c] # <<>> /\ Head(todo[c]).do = name
  BY DEF Waiting, NextStep
<1>2. name \notin QuietDo /\ name \notin {"strength", "raise", "create", "must"}
  BY DEF Lifecycle, QuietDo
<1> QED
  BY <1>1, <1>2, PlaceOf, AtDo

LEMMA GoesTyped ==
    ASSUME CallsTyped, NEW c \in Calls, NEW name \in Lifecycle, Goes(c, name)
    PROVE  CallsTyped'
<1>1. AtLife(op[c], todo[c]) /\ memo[c] \in SUBSET Uncounted
  BY GoesAtLife DEF Goes
<1>2. memo[c] \in SUBSET Facts
  BY CallHere
<1>3. Staged(op[c], Tail(todo[c]), memo[c])
  BY <1>1, <1>2, StagedNext
<1>4. /\ op' = [op EXCEPT ![c] = op[c]] /\ memo' = [memo EXCEPT ![c] = memo[c]]
      /\ todo' = [todo EXCEPT ![c] = Tail(todo[c])]
  BY CallHere DEF Goes
<1> QED
  BY <1>2, <1>3, <1>4, CallHere, CallMoves

LEMMA EndedTyped ==
    ASSUME CallsTyped, NEW c \in Calls, Ended(c)
    PROVE  CallsTyped'
<1>1. Staged(Idle, <<>>, {}) /\ Idle \in Ops /\ Idle \notin {<<"close">>, <<"syncfs">>}
  BY OpKinds DEF Staged, Idle
<1> QED
  BY <1>1, CallMoves DEF Ended

LEMMA BeganTyped ==
    ASSUME CallsTyped, NEW c \in Calls, NEW v \in Ops, NEW s, Began(c, v, s), UNCHANGED memo,
           \A m \in SUBSET Uncounted : Staged(v, s, m),
           v \in {<<"close">>, <<"syncfs">>} => c = Host
    PROVE  CallsTyped'
<1>1. memo[c] \in SUBSET Uncounted /\ memo[c] \in SUBSET Facts /\ memo = [memo EXCEPT ![c] = memo[c]]
  BY IdleHere, CallHere DEF Began
<1>2. Staged(v, s, memo[c])
  BY <1>1
<1> QED
  BY <1>1, <1>2, CallMoves DEF Began

LEMMA CallTyped ==
    ASSUME TInv, NEW c \in Calls, NEW v \in Scriptable, Call(c, v)
    PROVE  CallsTyped' /\ ClaimsTyped' /\ GraphsTyped' /\ overlapped' \in SUBSET Aqueducts
           /\ spent' \in 0 .. MaxOps
<1>1. CallsTyped'
  <2>1. v \in Ops /\ v \notin {<<"close">>, <<"syncfs">>}
    BY OpKinds
  <2>2. \A m \in SUBSET Uncounted : Staged(v, Script(v), m)
    BY ScriptShape DEF Staged
  <2> QED
    BY <2>1, <2>2, BeganTyped DEF Call, TInv
<1>2. ClaimsTyped'
  BY OwedFacts DEF TInv, ClaimsTyped, Call
<1>3. GraphsTyped'
  BY DEF TInv, GraphsTyped, Call, graphs
<1>4. overlapped' \in SUBSET Aqueducts
  BY DEF TInv, RestTyped, Call
<1>5. spent' \in 0 .. MaxOps
  BY StoreBoundsAssumption DEF TInv, RestTyped, Call
<1> QED
  BY <1>1, <1>2, <1>3, <1>4, <1>5

LEMMA ReadTyped ==
    ASSUME TInv, NEW c \in Calls, Read(c)
    PROVE  CallsTyped'
<1> DEFINE s == NextStep(c)
           rest == Tail(todo[c])
<1>1. todo[c] # <<>> /\ op' = [op EXCEPT ![c] = op[c]] /\ CallsTyped /\ mem \in SUBSET Facts
  BY CallHere DEF Read, TInv, GraphsTyped
<1>2. CASE s.do = "probe" /\ UNCHANGED memo
           /\ todo' = [todo EXCEPT ![c] = (IF s.facts \subseteq mem THEN s.found ELSE s.missing) \o rest]
  <2>1. AtQuiet(op[c], todo[c]) /\ memo[c] \in SUBSET Uncounted
    BY <1>1, <1>2, PlaceOf, AtDo DEF NextStep, Lifecycle
  <2>2. s.found \in Seq(Quiet) /\ s.missing \in Seq(Quiet)
    BY <1>2, <2>1, AtDo, QuietFields DEF NextStep
  <2>3. /\ memo[c] \in SUBSET Facts /\ memo' = [memo EXCEPT ![c] = memo[c]]
    BY <1>1, <1>2, CallHere
  <2> DEFINE t == IF s.facts \subseteq mem THEN s.found ELSE s.missing
  <2>4. t \in Seq(Quiet)
    BY <2>2
  <2>5. todo' = [todo EXCEPT ![c] = t \o rest]
    BY <1>2
  <2> HIDE DEF t
  <2>6. Staged(op[c], t \o rest, memo[c])
    BY <2>1, <2>3, <2>4, StagedNext
  <2> QED
    BY <1>1, <2>3, <2>5, <2>6, CallHere, CallMoves
<1>3. CASE s.do = "must" /\ todo' = [todo EXCEPT ![c] = rest] /\ UNCHANGED memo
  <2>1. \/ AtQuiet(op[c], todo[c]) /\ memo[c] \in SUBSET Uncounted
        \/ AtMust(op[c], todo[c])
    BY <1>1, <1>3, PlaceOf, AtDo DEF NextStep, Lifecycle
  <2>2. /\ memo[c] \in SUBSET Facts /\ memo' = [memo EXCEPT ![c] = memo[c]]
    BY <1>1, <1>3, CallHere
  <2>3. Staged(op[c], rest, memo[c])
    BY <2>1, <2>2, StagedNext
  <2> QED
    BY <1>1, <1>3, <2>2, <2>3, CallHere, CallMoves
<1>4. CASE s.do = "row" /\ memo' = [memo EXCEPT ![c] = RowOf(mem, s.node)]
           /\ todo' = [todo EXCEPT ![c] = IF Exists(mem, s.node) THEN s.rest \o rest ELSE rest]
  <2>1. AtQuiet(op[c], todo[c])
    BY <1>1, <1>4, PlaceOf, AtDo DEF NextStep, Lifecycle
  <2>2. s.rest \in Seq(Quiet)
    BY <1>4, <2>1, AtDo, QuietFields DEF NextStep
  <2> DEFINE t == IF Exists(mem, s.node) THEN s.rest \o rest ELSE rest
             m == RowOf(mem, s.node)
  <2>3. m \in SUBSET Uncounted /\ m \in SUBSET Facts
    BY <1>1, RowType, UncountedFacts
  <2>4. Staged(op[c], s.rest \o rest, m) /\ Staged(op[c], rest, m)
    BY <2>1, <2>2, <2>3, StagedNext
  <2>5. Staged(op[c], t, m)
    BY <2>4
  <2>6. todo' = [todo EXCEPT ![c] = t] /\ memo' = [memo EXCEPT ![c] = m]
    BY <1>4
  <2> HIDE DEF t, m
  <2> QED
    BY <1>1, <2>3, <2>5, <2>6, CallHere, CallMoves
<1>5. CASE s.do = "edges" /\ todo' = [todo EXCEPT ![c] = rest]
           /\ memo' = [memo EXCEPT ![c] = @ \cup EdgesOf(mem, s.label, s.node)]
  <2>1. AtQuiet(op[c], todo[c]) /\ memo[c] \in SUBSET Uncounted
    BY <1>1, <1>5, PlaceOf, AtDo DEF NextStep, Lifecycle
  <2>2. s.label \in Labels
    BY <1>5, <2>1, AtDo, QuietFields DEF NextStep
  <2> DEFINE e == EdgesOf(mem, s.label, s.node)
             m == memo[c] \cup e
  <2>3. m \in SUBSET Uncounted /\ m \in SUBSET Facts
    <3>1. e \in SUBSET Uncounted
      BY <1>1, <2>2, EdgesType
    <3> HIDE DEF e
    <3> QED
      BY <2>1, <3>1, UncountedFacts
  <2>4. Staged(op[c], rest, m)
    BY <2>1, <2>3, StagedNext
  <2>5. memo' = [memo EXCEPT ![c] = m]
    BY <1>5
  <2> HIDE DEF m
  <2> QED
    BY <1>1, <1>5, <2>3, <2>4, <2>5, CallHere, CallMoves
<1>6. CASE s.do = "strength" /\ todo' = [todo EXCEPT ![c] = rest]
           /\ memo' = [memo EXCEPT ![c] = {f \in mem : f[1] = "strength" /\ f[2] = s.node}]
  <2>1. AtStrength(op[c], todo[c])
    BY <1>1, <1>6, PlaceOf, AtDo DEF NextStep, Lifecycle, QuietDo
  <2>2. s.node = Way(op[c])
    BY <2>1, AtDo DEF NextStep
  <2> DEFINE m == {f \in mem : f[1] = "strength" /\ f[2] = s.node}
  <2>3. m \in SUBSET StrengthsOf(Way(op[c])) /\ m \in SUBSET Facts
    BY <1>1, <2>2 DEF StrengthsOf
  <2>4. Staged(op[c], rest, m)
    BY <2>1, <2>3, StagedNext
  <2>5. memo' = [memo EXCEPT ![c] = m]
    BY <1>6
  <2> HIDE DEF m
  <2> QED
    BY <1>1, <1>6, <2>3, <2>4, <2>5, CallHere, CallMoves
<1> QED
  BY <1>2, <1>3, <1>4, <1>5, <1>6 DEF Read

LEMMA WrittenBy ==
    ASSUME NEW s, NEW m
    PROVE  /\ s.do = "create" => Written(s, m) = Created(mem, s.node, s.columns)
           /\ s.do = "join" => Written(s, m) = Joined(mem, s.edge)
           /\ s.do = "unjoin" => Written(s, m) = Unjoined(mem, s.label, s.node)
           /\ s.do = "drop" => Written(s, m) = Dropped(mem, s.node)
           /\ s.do = "assign" => Written(s, m) = Assigned(mem, s.node, s.values)
           /\ s.do = "put" => Written(s, m) =
                 Created(mem, s.node, (m \ Edges) \cup {<<"embedded", s.node, s.embedded>>})
           /\ s.do = "raise" => Written(s, m) =
                 Assigned(mem, s.node, {<<"strength", s.node, f[3] + 1>> : f \in m})
BY DEF Written

LEMMA WriteTyped ==
    ASSUME TInv, NEW c \in Calls, Write(c)
    PROVE  CallsTyped' /\ mem' \in SUBSET Facts
<1> DEFINE s == NextStep(c)
           rest == Tail(todo[c])
           m == IF s.do = "put" THEN memo[c] \cap Edges ELSE memo[c]
<1>1. /\ todo[c] # <<>> /\ op' = [op EXCEPT ![c] = op[c]] /\ CallsTyped /\ mem \in SUBSET Facts
      /\ s.do \in {"create", "join", "unjoin", "drop", "assign", "put", "raise"}
      /\ mem' = Written(s, memo[c]) /\ todo' = [todo EXCEPT ![c] = rest]
      /\ memo[c] \in SUBSET Facts
  BY CallHere DEF Write, TInv, GraphsTyped
<1>2. /\ memo' = [memo EXCEPT ![c] = m] /\ m \in SUBSET Facts
      /\ memo[c] \in SUBSET Uncounted => m \in SUBSET Uncounted
  <2>1. memo' = [memo EXCEPT ![c] = m]
    BY DEF Write
  <2> QED
    BY <1>1, <2>1
<1> HIDE DEF m
<1>3. CASE AtQuiet(op[c], todo[c]) /\ memo[c] \in SUBSET Uncounted
  <2>1. Staged(op[c], rest, m)
    BY <1>2, <1>3, StagedNext
  <2>2. CallsTyped'
    BY <1>1, <1>2, <2>1, CallHere, CallMoves
  <2>3. s \in Quiet /\ s.do # "raise"
    BY <1>3, AtDo DEF NextStep, QuietDo
  <2>4. CASE s.do = "create"
    <3>1. s.node \in Nodes /\ s.columns \in SUBSET Facts
      BY <2>3, <2>4, QuietFields, FactKinds DEF NewRows
    <3> QED
      <4>1. mem' = Created(mem, s.node, s.columns)
        BY <1>1, <2>4, WrittenBy
      <4> HIDE DEF s
      <4> QED
        BY <1>1, <2>2, <3>1, <4>1, CreatedType
  <2>5. CASE s.do = "put"
    <3>1. s.node \in Nodes /\ <<"embedded", s.node, s.embedded>> \in Facts
      BY <2>3, <2>5, QuietFields, NodeKinds, ColumnKinds, FactKinds
    <3>2. (memo[c] \ Edges) \cup {<<"embedded", s.node, s.embedded>>} \in SUBSET Facts
      BY <1>1, <3>1
    <3>3. mem' = Created(mem, s.node, (memo[c] \ Edges) \cup {<<"embedded", s.node, s.embedded>>})
      BY <1>1, <2>5, WrittenBy
    <3> HIDE DEF s
    <3> QED
      BY <1>1, <2>2, <3>1, <3>2, <3>3, CreatedType
  <2>6. CASE s.do = "assign"
    <3>1. s.values \in SUBSET Facts
      BY <2>3, <2>6, QuietFields, UncountedFacts
    <3> QED
      <4>1. mem' = Assigned(mem, s.node, s.values)
        BY <1>1, <2>6, WrittenBy
      <4> HIDE DEF s
      <4> QED
        BY <1>1, <2>2, <3>1, <4>1, AssignedType
  <2>7. CASE s.do \in {"join", "unjoin", "drop"}
    <3>1. \/ mem' = Joined(mem, s.edge) \/ mem' = Unjoined(mem, s.label, s.node)
          \/ mem' = Dropped(mem, s.node)
      BY <1>1, <2>7, WrittenBy
    <3> HIDE DEF s
    <3> QED
      BY <1>1, <2>2, <3>1, JoinedType, UnjoinedType, DroppedType
  <2> QED
    BY <1>1, <2>3, <2>4, <2>5, <2>6, <2>7
<1>4. CASE AtRaise(op[c], todo[c], memo[c])
  <2>1. Staged(op[c], rest, m) /\ s.do = "raise" /\ s.node = Way(op[c])
    BY <1>2, <1>4, StagedNext, AtDo DEF NextStep
  <2>2. CallsTyped'
    BY <1>1, <1>2, <2>1, CallHere, CallMoves
  <2>3. s.node \in Aqueducts
    BY <1>4, <2>1, ScriptShape DEF AtRaise, Walks
  <2>4. ASSUME NEW f \in memo[c] PROVE <<"strength", s.node, f[3] + 1>> \in Facts
    <3>1. f \in Facts /\ f[1] = "strength"
      BY <1>4 DEF AtRaise, Raising, StrengthsOf
    <3>2. f[3] \in Nat
      BY <3>1 DEF Facts, Edges, Columns
    <3> QED
      BY <2>3, <3>2, ColumnKinds, FactKinds
  <2>5. {<<"strength", s.node, f[3] + 1>> : f \in memo[c]} \in SUBSET Facts
    BY <2>4
  <2>6. mem' = Assigned(mem, s.node, {<<"strength", s.node, f[3] + 1>> : f \in memo[c]})
    BY <1>1, <2>1, WrittenBy
  <2> DEFINE w == {<<"strength", s.node, f[3] + 1>> : f \in memo[c]}
  <2>7. w \in SUBSET Facts /\ mem' = Assigned(mem, s.node, w)
    BY <2>5, <2>6
  <2> HIDE DEF w, s
  <2> QED
    BY <1>1, <2>2, <2>7, AssignedType
<1>5. CASE AtRecord(op[c], todo[c], memo[c])
  <2>1. Staged(op[c], rest, m) /\ s.do = "create" /\ s.node = MoveOf(op[c]) /\ s.columns = {}
    BY <1>2, <1>5, StagedNext, AtDo DEF NextStep
  <2>2. CallsTyped'
    BY <1>1, <1>2, <2>1, CallHere, CallMoves
  <2>3. s.node \in Nodes
    BY <1>5, <2>1, ScriptShape, NodeKinds DEF AtRecord
  <2> QED
    <3>1. mem' = Created(mem, s.node, {})
      BY <1>1, <2>1, WrittenBy
    <3> HIDE DEF s
    <3> QED
      BY <1>1, <2>2, <2>3, <3>1, CreatedType
<1>6. \/ AtQuiet(op[c], todo[c]) /\ memo[c] \in SUBSET Uncounted
      \/ AtRaise(op[c], todo[c], memo[c]) \/ AtRecord(op[c], todo[c], memo[c])
  BY <1>1, PlaceOf, AtDo DEF NextStep, Lifecycle
<1> QED
  BY <1>3, <1>4, <1>5, <1>6

LEMMA RejoinsTyped ==
    ASSUME TInv, NEW c \in Calls, Rejoins(c)
    PROVE  /\ CallsTyped' /\ mem' \in SUBSET Facts
           /\ AtQuiet(op[c], todo[c])
           /\ mem' = mem \/ \E e : mem' = Joined(mem, e)
<1>1. /\ todo[c] # <<>> /\ op' = [op EXCEPT ![c] = op[c]] /\ CallsTyped /\ mem \in SUBSET Facts
      /\ memo[c] \in SUBSET Facts /\ Head(todo[c]).do = "rejoin"
  BY CallHere DEF Rejoins, TInv, GraphsTyped, Waiting, NextStep
<1>2. AtQuiet(op[c], todo[c]) /\ memo[c] \in SUBSET Uncounted
  BY <1>1, PlaceOf, AtDo DEF Lifecycle
<1>3. CASE memo[c] = {}
  <2>1. todo' = [todo EXCEPT ![c] = Tail(todo[c])] /\ mem' = mem /\ memo' = [memo EXCEPT ![c] = memo[c]]
    BY <1>1, <1>3, CallHere DEF Rejoins
  <2>2. Staged(op[c], Tail(todo[c]), memo[c])
    BY <1>1, <1>2, StagedNext
  <2> QED
    BY <1>1, <1>2, <2>1, <2>2, CallHere, CallMoves
<1>4. CASE memo[c] # {}
  <2>1. PICK e \in memo[c] : /\ mem' = Joined(mem, e) /\ memo' = [memo EXCEPT ![c] = @ \ {e}]
                             /\ todo' = todo
    BY <1>4 DEF Rejoins
  <2>3. Staged(op[c], todo[c], memo[c] \ {e})
    <3>1. Staged(op[c], todo[c], memo[c]) /\ memo[c] \ {e} \in SUBSET Facts
          /\ memo[c] \ {e} \in SUBSET Uncounted
      BY <1>1, <1>2, CallHere
    <3> QED
      BY <3>1 DEF Staged, Raising, Raised, Recorded
  <2>4. memo' = [memo EXCEPT ![c] = memo[c] \ {e}] /\ todo' = [todo EXCEPT ![c] = todo[c]]
    BY <1>1, <2>1, CallHere
  <2>5. memo[c] \ {e} \in SUBSET Facts
    BY <1>1
  <2> QED
    <3>1. CallsTyped'
      BY <1>1, <2>3, <2>4, <2>5, CallHere, CallMoves
    <3>2. mem' \in SUBSET Facts
      BY <1>1, <2>1, JoinedType
    <3> QED
      BY <1>2, <2>1, <3>1, <3>2
<1> QED
  BY <1>3, <1>4

LEMMA EndedRest ==
    ASSUME TInv, NEW c \in Calls, Ended(c)
    PROVE  owed' \in [Calls -> SUBSET Facts] /\ room' \in Rooms \cup {None}
<1>1. owed' \in [Calls -> SUBSET Facts]
  BY DEF TInv, ClaimsTyped, Ended
<1>2. ASSUME op[c][1] = "navigate" PROVE op[c][3] \in Rooms
  <2>1. op[c] \in Navigations
    BY <1>2, CallHere, OpKinds DEF TInv
  <2> QED
    BY <2>1 DEF Navigations
<1> QED
  BY <1>1, <1>2 DEF TInv, RestTyped, Ended

LEMMA TInvStep ==
    ASSUME TInv, NEW c \in Calls, Step(c)
    PROVE  TInv'
<1> USE DEF TInv
<1>1. CASE Mount(c)
  <2>1. CallsTyped'
    BY <1>1, GoesTyped DEF Mount, Lifecycle
  <2> QED
    BY <1>1, <2>1 DEF Mount, Goes, claims, viewer, bounds, GraphsTyped, ClaimsTyped, RestTyped
<1>2. CASE Load(c)
  <2>1. CallsTyped'
    BY <1>2, GoesTyped DEF Load, Lifecycle
  <2> QED
    BY <1>2, <2>1 DEF Load, Goes, claims, viewer, bounds, GraphsTyped, ClaimsTyped, RestTyped
<1>3. CASE CreateTables(c)
  <2>1. CallsTyped'
    BY <1>3 DEF CreateTables, CallsTyped
  <2>2. \A s \in Schema : <<"table", s>> \in Facts
    BY DEF Facts
  <2> QED
    BY <1>3, <2>1, <2>2 DEF CreateTables, claims, viewer, bounds, GraphsTyped, ClaimsTyped, RestTyped
<1>4. CASE TablesDone(c)
  <2>1. CallsTyped'
    BY <1>4, GoesTyped DEF TablesDone, Lifecycle
  <2> QED
    BY <1>4, <2>1
       DEF TablesDone, Goes, graphs, claims, viewer, bounds, GraphsTyped, ClaimsTyped, RestTyped
<1>5. CASE Disconnect(c)
  <2>1. CallsTyped'
    BY <1>5, GoesTyped DEF Disconnect, Lifecycle
  <2> QED
    BY <1>5, <2>1 DEF Disconnect, Goes, claims, viewer, bounds, GraphsTyped, ClaimsTyped, RestTyped
<1>6. CASE Shut(c)
  <2>1. CallsTyped'
    BY <1>6, GoesTyped DEF Shut, Lifecycle
  <2> QED
    BY <1>6, <2>1 DEF Shut, Goes, claims, viewer, bounds, GraphsTyped, ClaimsTyped, RestTyped
<1>7. CASE Save(c)
  <2>1. CallsTyped'
    BY <1>7, GoesTyped DEF Save, Lifecycle
  <2> QED
    BY <1>7, <2>1 DEF Save, Goes, viewer, bounds, GraphsTyped, ClaimsTyped, RestTyped
<1>8. CASE Unmount(c)
  <2>1. CallsTyped'
    BY <1>8, GoesTyped DEF Unmount, Lifecycle
  <2> QED
    BY <1>8, <2>1 DEF Unmount, Goes, claims, viewer, bounds, GraphsTyped, ClaimsTyped, RestTyped
<1>9. CASE Read(c)
  <2>1. CallsTyped'
    BY <1>9, ReadTyped
  <2> QED
    BY <1>9, <2>1 DEF Read, graphs, claims, viewer, bounds, GraphsTyped, ClaimsTyped, RestTyped
<1>10. CASE Write(c)
  <2>1. CallsTyped' /\ mem' \in SUBSET Facts
    BY <1>10, WriteTyped
  <2> QED
    BY <1>10, <2>1 DEF Write, claims, viewer, bounds, GraphsTyped, ClaimsTyped, RestTyped
<1>11. CASE Rejoins(c)
  <2>1. CallsTyped' /\ mem' \in SUBSET Facts
    BY <1>11, RejoinsTyped
  <2> QED
    BY <1>11, <2>1 DEF Rejoins, claims, viewer, bounds, GraphsTyped, ClaimsTyped, RestTyped
<1>12. CASE Refused(c)
  <2>1. Ended(c) /\ UNCHANGED <<graphs, claims, painted, overlapped, bounds>>
    BY <1>12 DEF Refused, Rejected, bounds
  <2>2. CallsTyped'
    BY <2>1, EndedTyped
  <2> QED
    BY <2>1, <2>2, EndedRest DEF graphs, claims, bounds, GraphsTyped, ClaimsTyped, RestTyped
<1>13. CASE Resolve(c)
  <2>1. Ended(c) /\ UNCHANGED <<graphs, saved, overlapped, bounds>>
    BY <1>13 DEF Resolve
  <2>2. CallsTyped'
    BY <2>1, EndedTyped
  <2>3. acked' \in SUBSET Facts
    BY <1>13 DEF Resolve, ClaimsTyped
  <2>4. painted' \in SUBSET Moves
    <3>1. op[c] \in Navigations => <<op[c][2], op[c][3], op[c][4]>> \in Moves
      BY DEF Navigations, Moves
    <3> QED
      BY <1>13, <3>1 DEF Resolve, RestTyped
  <2> QED
    BY <2>1, <2>2, <2>3, <2>4, EndedRest DEF graphs, bounds, GraphsTyped, ClaimsTyped, RestTyped
<1> QED
  BY <1>1, <1>2, <1>3, <1>4, <1>5, <1>6, <1>7, <1>8, <1>9, <1>10, <1>11, <1>12, <1>13 DEF Step

\* The calls that begin.
LEMMA VerbScripted == ASSUME NEW v \in AllVerbs PROVE v \in Scriptable
BY DEF Scriptable

LEMMA NavigateCalls ==
    ASSUME TInv, NEW c \in Clicks, NEW r \in Rooms, Navigate(c, r)
    PROVE  \E v \in Navigations : v \in Scriptable /\ Call(c, v)
<1>1. (IF room = None THEN Palace ELSE room) \in {Palace} \cup Rooms
  BY DEF TInv, RestTyped
<1> DEFINE x == IF room = None THEN Palace ELSE room
<1>2. clock' \in 0 .. MaxClock /\ Call(c, <<"navigate", x, r, clock'>>)
  BY DEF Navigate
<1> HIDE DEF x
<1>3. PICK t \in 0 .. MaxClock : Call(c, <<"navigate", x, r, t>>)
  BY <1>2
<1>4. <<"navigate", x, r, t>> \in Navigations
  BY <1>1 DEF Navigations, x
<1> QED
  BY <1>3, <1>4, OpKinds

LEMMA OpeningTyped ==
    ASSUME TInv, NEW c \in Calls, Open(c) \/ (c = Host /\ (Close \/ SyncOut))
    PROVE  CallsTyped' /\ UNCHANGED <<graphs, owed, claims, viewer, overlapped, clock, faults>>
<1>1. UNCHANGED <<graphs, owed, claims, viewer, overlapped, clock, faults>>
  BY DEF Open, Close, SyncOut, bounds
<1>2. CASE Open(c)
  <2>1. PICK s : /\ Began(c, <<"open">>, s) /\ s \in Opening
                 /\ UNCHANGED memo
    BY <1>2 DEF Open, Opening
  <2>2. \A m \in SUBSET Uncounted : Staged(<<"open">>, s, m)
    BY <2>1 DEF Staged
  <2>3. <<"open">> \notin {<<"close">>, <<"syncfs">>}
    OBVIOUS
  <2> QED
    BY <1>1, <2>1, <2>2, <2>3, OpKinds, BeganTyped DEF TInv
<1>3. CASE c = Host /\ Close
  <2>1. PICK s : /\ Began(c, <<"close">>, s) /\ s \in Closing
                 /\ UNCHANGED memo
    BY <1>3 DEF Close, Closing
  <2>2. \A m \in SUBSET Uncounted : Staged(<<"close">>, s, m)
    BY <2>1 DEF Staged
  <2> QED
    BY <1>1, <1>3, <2>1, <2>2, OpKinds, BeganTyped DEF TInv
<1>4. CASE c = Host /\ SyncOut
  <2>1. PICK s : /\ Began(c, <<"syncfs">>, s) /\ s \in Syncing
                 /\ UNCHANGED memo
    BY <1>4 DEF SyncOut, Syncing
  <2>2. \A m \in SUBSET Uncounted : Staged(<<"syncfs">>, s, m)
    BY <2>1 DEF Staged
  <2> QED
    BY <1>1, <1>4, <2>1, <2>2, OpKinds, BeganTyped DEF TInv
<1> QED
  BY <1>2, <1>3, <1>4

LEMMA ReloadTyped == ASSUME TInv, Reload PROVE TInv'
<1>1. Staged(Idle, <<>>, {}) /\ Idle \in Ops /\ Idle \notin {<<"close">>, <<"syncfs">>}
  BY OpKinds DEF Staged, Idle
<1>2. \A c \in Calls : op'[c] = Idle /\ todo'[c] = <<>> /\ memo'[c] = {}
  BY DEF Reload
<1>3. CallsTyped'
  <2>1. /\ op' \in [Calls -> Ops] /\ todo' = [c \in Calls |-> todo'[c]]
        /\ memo' \in [Calls -> SUBSET Facts]
    BY <1>1 DEF Reload
  <2> QED
    BY <1>1, <1>2, <2>1 DEF CallsTyped
<1>4. GraphsTyped' /\ ClaimsTyped'
  BY DEF TInv, GraphsTyped, ClaimsTyped, Reload
<1>5. RestTyped'
  BY StoreBoundsAssumption DEF TInv, RestTyped, Reload
<1> QED
  BY <1>3, <1>4, <1>5 DEF TInv

LEMMA TInvNext == TInv /\ [Next]_vars => TInv'
<1> SUFFICES ASSUME TInv, [Next]_vars PROVE TInv'
  OBVIOUS
<1>1. ASSUME NEW v \in AllVerbs, Verb(v) PROVE TInv'
  <2>1. Call(Host, v) /\ UNCHANGED clock /\ Host \in Calls /\ v \in Scriptable
    BY <1>1, VerbScripted DEF Verb, Calls
  <2>2. /\ CallsTyped' /\ ClaimsTyped' /\ GraphsTyped' /\ overlapped' \in SUBSET Aqueducts
        /\ spent' \in 0 .. MaxOps
    BY <2>1, CallTyped
  <2> QED
    BY <2>1, <2>2 DEF TInv, RestTyped, Call, viewer
<1>2. ASSUME NEW c \in Clicks, NEW r \in Rooms, Navigate(c, r) PROVE TInv'
  <2>1. PICK v \in Navigations : v \in Scriptable /\ Call(c, v)
    BY <1>2, NavigateCalls
  <2>2. c \in Calls /\ clock' \in 0 .. MaxClock
    BY <1>2 DEF Navigate, Calls
  <2>3. /\ CallsTyped' /\ ClaimsTyped' /\ GraphsTyped' /\ overlapped' \in SUBSET Aqueducts
        /\ spent' \in 0 .. MaxOps
    BY <2>1, <2>2, CallTyped
  <2> QED
    BY <2>1, <2>2, <2>3 DEF TInv, RestTyped, Call, viewer
<1>3. ASSUME NEW c \in Calls, Open(c) \/ (c = Host /\ (Close \/ SyncOut)) PROVE TInv'
  <2>1. spent' \in 0 .. MaxOps
    BY <1>3, StoreBoundsAssumption DEF TInv, RestTyped, Open, Close, SyncOut, bounds
  <2> QED
    BY <1>3, <2>1, OpeningTyped
       DEF TInv, GraphsTyped, ClaimsTyped, RestTyped, graphs, claims, viewer
<1>4. ASSUME NEW c \in Calls, Fail(c) PROVE TInv'
  <2>1. Ended(c) /\ UNCHANGED <<graphs, claims, painted, overlapped, clock, spent>>
    BY <1>4 DEF Fail, Rejected
  <2>2. CallsTyped'
    BY <2>1, EndedTyped DEF TInv
  <2>3. faults' \in 0 .. MaxFaults
    BY <1>4, StoreBoundsAssumption DEF Fail, TInv, RestTyped
  <2> QED
    BY <2>1, <2>2, <2>3, EndedRest DEF TInv, graphs, claims, GraphsTyped, ClaimsTyped, RestTyped
<1>5. CASE UNCHANGED vars
  <2>1. CallsTyped'
    BY <1>5 DEF vars, TInv, CallsTyped
  <2> QED
    BY <1>5, <2>1
       DEF vars, TInv, graphs, claims, viewer, bounds, GraphsTyped, ClaimsTyped, RestTyped
<1>6. Host \in Calls
  BY DEF Calls
<1> QED
  BY <1>1, <1>2, <1>3, <1>4, <1>5, <1>6, TInvStep, ReloadTyped DEF Next

LEMMA TypeInvariant == Spec => []TInv
BY TInvInit, TInvNext, PTL DEF Spec

\* Whatever calls interleave, and whatever fails, the graphs hold facts the
\* schema allows and calls wait at steps of the adapter's scripts.
THEOREM StoreTypeCorrect == Spec => []TypeOK
BY TypeInvariant, TInvTypes, PTL

-----------------------------------------------------------------------------
(***************************************************************************)
(* The session: the mount, the connection and the two graphs.              *)
(***************************************************************************)

\* The nodes that no verb deletes.
Lasting(g) == {n \in Moves \cup Aqueducts : Exists(g, n)}

\* From the load of the database to the end of close().
Shutting == op[Host] = <<"close">> /\ todo[Host] # <<>>
Loaded == conn # "none" \/ Shutting

\* One call at a time is between the mount and the load, with nothing in memory
\* yet; memory holds what is on disk until close() ends.
Session ==
    /\ ~ mounted => mem = {} /\ ~ Loaded
    /\ Loaded => Lasting(disk) \subseteq Lasting(mem)
    /\ \A c \in Calls : Waiting(c, "load") => mounted /\ mem = {} /\ ~ Loaded
    /\ \A c, d \in Calls : Waiting(c, "load") /\ Waiting(d, "load") => c = d
    /\ Shutting => /\ Waiting(Host, "shut") => conn = "closed"
                   /\ Waiting(Host, "save") => conn = "none"
                   /\ Waiting(Host, "unmount") => conn = "none" /\ disk = mem
    /\ op[Host] = <<"syncfs">> /\ todo[Host] # <<>> => conn # "none"

\* Whose steps the lifecycle steps are, and what follows them.
LEMMA LifeOf ==
    ASSUME CallsTyped, NEW c \in Calls, NEW name \in Lifecycle, Waiting(c, name)
    PROVE  /\ name \in {"mount", "load", "ddl"} => op[c] = <<"open">>
           /\ name \in {"disconnect", "shut", "unmount"} => op[c] = <<"close">> /\ c = Host
           /\ name = "save" => op[c] \in {<<"close">>, <<"syncfs">>} /\ c = Host
           /\ name = "mount" => Tail(todo[c]) # <<>> /\ Head(Tail(todo[c])).do = "load"
           /\ name = "load" => Tail(todo[c]) # <<>> /\ Head(Tail(todo[c])).do = "ddl"
           /\ name \in {"ddl", "unmount"} => Tail(todo[c]) = <<>>
           /\ name = "disconnect" => Tail(todo[c]) # <<>> /\ Head(Tail(todo[c])).do = "shut"
           /\ name = "shut" => Tail(todo[c]) # <<>> /\ Head(Tail(todo[c])).do = "save"
           /\ name = "save" /\ op[c] = <<"close">> =>
                 Tail(todo[c]) # <<>> /\ Head(Tail(todo[c])).do = "unmount"
           /\ name = "save" /\ op[c] = <<"syncfs">> => Tail(todo[c]) = <<>>
<1>1. AtLife(op[c], todo[c]) /\ todo[c] # <<>> /\ Head(todo[c]).do = name
  BY GoesAtLife DEF Waiting, NextStep
<1>2. CASE op[c] = <<"open">> /\ todo[c] \in Opening
  BY <1>1, <1>2, LifeHeads DEF Lifecycle
<1>3. CASE op[c] = <<"close">> /\ todo[c] \in Closing
  <2>1. c = Host
    BY <1>3 DEF CallsTyped
  <2> QED
    BY <1>1, <1>3, <2>1, LifeHeads DEF Lifecycle
<1>4. CASE op[c] = <<"syncfs">> /\ todo[c] \in Syncing
  <2>1. c = Host
    BY <1>4 DEF CallsTyped
  <2> QED
    BY <1>1, <1>4, <2>1, LifeHeads DEF Lifecycle
<1> QED
  BY <1>1, <1>2, <1>3, <1>4 DEF AtLife

\* The steps of open() and close() by the call whose turn it is.
LEMMA LifeMoves ==
    ASSUME CallsTyped, NEW c \in Calls, NEW name \in Lifecycle, Goes(c, name)
    PROVE  /\ op' = op /\ todo'[c] = Tail(todo[c]) /\ todo[c] # <<>>
           /\ \A d \in Calls \ {c} : todo'[d] = todo[d]
BY DEF Goes, CallsTyped, Waiting

\* A step of a call that is no step of open() or close(), or its end.
LEMMA SessionKept ==
    ASSUME Session, NEW c \in Calls,
           \A d \in Calls \ {c} : op'[d] = op[d] /\ todo'[d] = todo[d],
           \/ todo'[c] = <<>>
           \/ op'[c] \notin {<<"close">>, <<"syncfs">>} /\ Head(todo'[c]).do # "load",
           UNCHANGED <<disk, mounted, conn>>,
           mem' = mem \/ (conn = "open" /\ Lasting(mem) \subseteq Lasting(mem'))
    PROVE  Session'
<1>1. Host \in Calls
  BY DEF Calls
<1>2. Shutting' => /\ Shutting
                   /\ \A kind : Waiting(Host, kind)' => Waiting(Host, kind)
  BY <1>1 DEF Shutting, Waiting, NextStep
<1>3. Loaded' => Loaded
  BY <1>2 DEF Loaded
<1>4. \A d \in Calls : Waiting(d, "load")' => Waiting(d, "load")
  BY DEF Waiting, NextStep
<1>5. conn = "open" => Loaded /\ mounted
  BY DEF Loaded, Session
<1>6. (~ mounted => mem = {} /\ ~ Loaded)'
  BY <1>3, <1>5 DEF Session
<1>7. (Loaded => Lasting(disk) \subseteq Lasting(mem))'
  <2>1. Lasting(disk)' = Lasting(disk) /\ Lasting(mem) \subseteq Lasting(mem)'
    BY DEF Lasting
  <2> QED
    BY <1>3, <2>1 DEF Session
<1>8. (\A d \in Calls : Waiting(d, "load") => mounted /\ mem = {} /\ ~ Loaded)'
  BY <1>3, <1>4, <1>5 DEF Session
<1>9. (\A d, e \in Calls : Waiting(d, "load") /\ Waiting(e, "load") => d = e)'
  BY <1>4 DEF Session
<1>10. (Shutting => /\ Waiting(Host, "shut") => conn = "closed"
                    /\ Waiting(Host, "save") => conn = "none"
                    /\ Waiting(Host, "unmount") => conn = "none" /\ disk = mem)'
  <2>1. conn = "open" => conn # "closed" /\ conn # "none"
    OBVIOUS
  <2> QED
    BY <1>2, <2>1 DEF Session
<1>11. (op[Host] = <<"syncfs">> /\ todo[Host] # <<>> => conn # "none")'
  BY <1>1 DEF Session
<1> QED
  BY <1>6, <1>7, <1>8, <1>9, <1>10, <1>11 DEF Session

\* Another call's place.
LEMMA OtherCalls ==
    ASSUME NEW c \in Calls, \A d \in Calls \ {c} : op'[d] = op[d] /\ todo'[d] = todo[d]
    PROVE  /\ \A d \in Calls \ {c} : \A kind : Waiting(d, kind)' <=> Waiting(d, kind)
           /\ c # Host => (Shutting' <=> Shutting) /\ op'[Host] = op[Host] /\ todo'[Host] = todo[Host]
           /\ Host \in Calls
<1>1. Host \in Calls
  BY DEF Calls
<1>2. \A d \in Calls \ {c} : \A kind : Waiting(d, kind)' <=> Waiting(d, kind)
  BY DEF Waiting, NextStep
<1> QED
  BY <1>1, <1>2 DEF Shutting

LEMMA SessionMount ==
    ASSUME TInv, Session, NEW c \in Calls, Mount(c)
    PROVE  Session'
<1>1. /\ op[c] = <<"open">> /\ op' = op /\ todo'[c] # <<>> /\ Head(todo'[c]).do = "load"
      /\ \A d \in Calls \ {c} : op'[d] = op[d] /\ todo'[d] = todo[d]
  BY LifeOf, LifeMoves DEF Mount, Goes, TInv, Lifecycle
<1>2. mem = {} /\ ~ Loaded /\ conn = "none" /\ ~ Shutting
  BY DEF Mount, Session, Loaded
<1>3. \A d \in Calls : ~ Waiting(d, "load")
  BY DEF Mount, Session
<1>4. ~ Shutting' /\ ~ Loaded'
  BY <1>1, <1>2, OtherCalls DEF Shutting, Loaded, Mount
<1>5. \A d \in Calls : Waiting(d, "load")' => d = c
  BY <1>1, <1>3, OtherCalls
<1>6. op'[Host] = <<"syncfs">> => todo'[Host] = <<>>
  BY <1>1, <1>2, OtherCalls DEF Session
<1> QED
  BY <1>2, <1>4, <1>5, <1>6 DEF Session, Mount

LEMMA SessionLoad ==
    ASSUME TInv, Session, NEW c \in Calls, Load(c)
    PROVE  Session'
<1>1. /\ op[c] = <<"open">> /\ op' = op /\ todo'[c] # <<>> /\ Head(todo'[c]).do = "ddl"
      /\ \A d \in Calls \ {c} : op'[d] = op[d] /\ todo'[d] = todo[d]
      /\ Waiting(c, "load")
  BY LifeOf, LifeMoves DEF Load, Goes, TInv, Lifecycle
<1>2. mounted /\ ~ Loaded /\ ~ Shutting
  BY <1>1 DEF Session, Loaded
<1>3. \A d \in Calls : ~ Waiting(d, "load")'
  <2>1. \A d \in Calls \ {c} : ~ Waiting(d, "load")
    BY <1>1 DEF Session
  <2> QED
    BY <1>1, <2>1, OtherCalls DEF Waiting, NextStep
<1>4. ~ Shutting'
  BY <1>1, <1>2, OtherCalls DEF Shutting
<1>5. mounted' /\ conn' = "open" /\ mem' = disk'
  BY <1>2 DEF Load
<1>6. (Lasting(disk) \subseteq Lasting(mem))'
  BY <1>5 DEF Lasting
<1> QED
  BY <1>3, <1>4, <1>5, <1>6 DEF Session

LEMMA SessionDisconnect ==
    ASSUME TInv, Session, NEW c \in Calls, Disconnect(c) \/ Shut(c)
    PROVE  Session'
<1>1. PICK name \in {"disconnect", "shut"} :
          /\ Waiting(c, name) /\ Goes(c, name)
          /\ conn' = IF name = "shut" THEN "none" ELSE "closed"
          /\ UNCHANGED <<disk, mem, mounted>>
  BY DEF Disconnect, Shut, Goes
<1>2. /\ c = Host /\ op[Host] = <<"close">> /\ todo[Host] # <<>> /\ op' = op /\ todo'[Host] # <<>>
      /\ Head(todo'[Host]).do = IF name = "shut" THEN "save" ELSE "shut"
      /\ \A d \in Calls \ {c} : op'[d] = op[d] /\ todo'[d] = todo[d]
  <2>1. CallsTyped /\ name \in Lifecycle
    BY DEF TInv, Lifecycle
  <2>2. /\ op[c] = <<"close">> /\ c = Host /\ Tail(todo[c]) # <<>>
        /\ Head(Tail(todo[c])).do = IF name = "shut" THEN "save" ELSE "shut"
    BY <1>1, <2>1, LifeOf
  <2>3. /\ op' = op /\ todo'[c] = Tail(todo[c]) /\ todo[c] # <<>>
        /\ \A d \in Calls \ {c} : todo'[d] = todo[d]
    BY <1>1, <2>1, LifeMoves
  <2> QED
    BY <2>2, <2>3
<1>3. Shutting /\ Loaded /\ Shutting' /\ Loaded'
  BY <1>2 DEF Shutting, Loaded
<1>4. mounted' /\ (Lasting(disk) \subseteq Lasting(mem))'
  BY <1>1, <1>3 DEF Session, Lasting
<1>5. \A d \in Calls : ~ Waiting(d, "load")'
  <2>1. \A d \in Calls : ~ Waiting(d, "load")
    BY <1>3 DEF Session
  <2> QED
    BY <1>2, <2>1, OtherCalls DEF Waiting, NextStep
<1>6. /\ Waiting(Host, "shut")' => conn' = "closed"
      /\ Waiting(Host, "save")' => conn' = "none"
      /\ ~ Waiting(Host, "unmount")'
  BY <1>1, <1>2 DEF Waiting, NextStep
<1> QED
  BY <1>2, <1>3, <1>4, <1>5, <1>6 DEF Session

LEMMA SessionSave ==
    ASSUME TInv, Session, NEW c \in Calls, Save(c)
    PROVE  Session' /\ Loaded /\ mounted
<1>1. /\ Waiting(c, "save") /\ disk' = mem /\ UNCHANGED <<mem, mounted, conn>>
      /\ Goes(c, "save")
  BY DEF Save, Goes
<1>2. /\ c = Host /\ op[Host] \in {<<"close">>, <<"syncfs">>} /\ todo[Host] # <<>> /\ op' = op
      /\ op[Host] = <<"close">> => todo'[Host] # <<>> /\ Head(todo'[Host]).do = "unmount"
      /\ op[Host] = <<"syncfs">> => todo'[Host] = <<>>
      /\ \A d \in Calls \ {c} : op'[d] = op[d] /\ todo'[d] = todo[d]
  BY <1>1, LifeOf, LifeMoves DEF TInv, Lifecycle
<1>3. Loaded /\ mounted
  BY <1>2 DEF Shutting, Loaded, Session
<1>4. \A d \in Calls : ~ Waiting(d, "load")'
  <2>1. \A d \in Calls : ~ Waiting(d, "load")
    BY <1>3 DEF Session
  <2> QED
    BY <1>2, <2>1, OtherCalls DEF Waiting, NextStep
<1>5. (Lasting(disk) \subseteq Lasting(mem))'
  BY <1>1 DEF Lasting
<1>6. CASE op[Host] = <<"close">>
  <2>1. conn = "none"
    BY <1>1, <1>2, <1>6 DEF Session, Shutting
  <2>2. /\ ~ Waiting(Host, "shut")' /\ ~ Waiting(Host, "save")'
    BY <1>2, <1>6 DEF Waiting, NextStep
  <2> QED
    BY <1>1, <1>2, <1>3, <1>4, <1>5, <1>6, <2>1, <2>2 DEF Session
<1>7. CASE op[Host] = <<"syncfs">>
  <2>1. ~ Shutting'
    BY <1>2, <1>7 DEF Shutting
  <2> QED
    BY <1>1, <1>2, <1>3, <1>4, <1>5, <1>7, <2>1 DEF Session
<1> QED
  BY <1>2, <1>3, <1>6, <1>7

LEMMA SessionUnmount ==
    ASSUME TInv, Session, NEW c \in Calls, Unmount(c)
    PROVE  Session' /\ disk = mem
<1>1. /\ Waiting(c, "unmount") /\ mem' = {} /\ ~ mounted' /\ UNCHANGED <<disk, conn>>
      /\ Goes(c, "unmount")
  BY DEF Unmount, Goes
<1>2. /\ c = Host /\ op[Host] = <<"close">> /\ todo[Host] # <<>> /\ op' = op /\ todo'[Host] = <<>>
      /\ \A d \in Calls \ {c} : op'[d] = op[d] /\ todo'[d] = todo[d]
  <2>1. CallsTyped /\ "unmount" \in Lifecycle
    BY DEF TInv, Lifecycle
  <2> QED
    BY <1>1, <2>1, LifeOf, LifeMoves
<1>3. Shutting /\ Loaded /\ conn = "none" /\ disk = mem
  BY <1>1, <1>2 DEF Shutting, Loaded, Session
<1>4. \A d \in Calls : ~ Waiting(d, "load")'
  <2>1. \A d \in Calls : ~ Waiting(d, "load")
    BY <1>3 DEF Session
  <2> QED
    BY <1>2, <2>1, OtherCalls DEF Waiting, NextStep
<1>5. ~ Shutting' /\ ~ Loaded'
  BY <1>1, <1>2, <1>3 DEF Shutting, Loaded
<1> QED
  BY <1>1, <1>2, <1>3, <1>4, <1>5 DEF Session

-----------------------------------------------------------------------------
(***************************************************************************)
(* What a quiet step leaves of a graph: the moves it records and every     *)
(* aqueduct; a strength it adds is that of a new aqueduct.                 *)
(***************************************************************************)

Tidy(g, h) ==
    /\ Lasting(g) \subseteq Lasting(h)
    /\ \A m \in Moves : Exists(h, m) => Exists(g, m)
    /\ \A f \in h : f[1] = "strength" => f \in g \/ (f[3] = 0 /\ ~ Exists(g, f[2]))

LEMMA NodeFact == ASSUME NEW n PROVE <<"node", n>>[1] = "node" /\ <<"node", n>>[2] = n
OBVIOUS

LEMMA TidyCreate ==
    ASSUME NEW g, NEW n, n \notin Moves, ~ Exists(g, n), NEW columns,
           \A f \in columns : f[1] # "node",
           \A f \in columns : f[1] = "strength" => f[2] = n /\ f[3] = 0
    PROVE  Tidy(g, Created(g, n, columns))
<1> DEFINE h == Created(g, n, columns)
<1>1. Lasting(g) \subseteq Lasting(h)
  BY DEF Lasting, Exists, Created
<1>2. ASSUME NEW m \in Moves, Exists(h, m) PROVE Exists(g, m)
  <2>1. <<"node", m>> \notin columns /\ m # n
    BY <1>2
  <2> QED
    BY <1>2, <2>1 DEF Exists, Created
<1>3. ASSUME NEW f \in h, f[1] = "strength" PROVE f \in g \/ (f[3] = 0 /\ ~ Exists(g, f[2]))
  BY <1>3, NodeFact DEF Created
<1> QED
  BY <1>1, <1>2, <1>3 DEF Tidy

LEMMA TidyJoin == ASSUME NEW g, NEW e PROVE Tidy(g, Joined(g, e))
<1>1. e \in Edges => e[1] # "node" /\ e[1] # "strength"
  BY DEF Edges
<1> QED
  BY <1>1 DEF Tidy, Joined, Lasting, Exists

LEMMA TidyUnjoin == ASSUME NEW g, NEW label \in Labels, NEW n PROVE Tidy(g, Unjoined(g, label, n))
<1>1. label # "node"
  BY DEF Labels
<1> QED
  BY <1>1 DEF Tidy, Unjoined, Lasting, Exists

LEMMA TidyDrop == ASSUME NEW g, NEW n \in Avatars \cup Triples PROVE Tidy(g, Dropped(g, n))
<1>1. n \notin Moves \cup Aqueducts
  BY FingerprintAssumption
<1>2. "node" \notin Labels
  BY DEF Labels
<1> QED
  BY <1>1, <1>2 DEF Tidy, Dropped, Of, Lasting, Exists

LEMMA TidyAssign ==
    ASSUME NEW g, NEW n, NEW values \in SUBSET Uncounted
    PROVE  Tidy(g, Assigned(g, n, values))
<1>1. \A v \in values : v[1] # "node" /\ v[1] # "strength"
  BY DEF Uncounted, Edges, Columns
<1> QED
  BY <1>1 DEF Tidy, Assigned, Lasting, Exists

LEMMA TidyTable == ASSUME NEW g, NEW s PROVE Tidy(g, g \cup {<<"table", s>>}) /\ Tidy(g, g)
BY DEF Tidy, Lasting, Exists

\* The queries that write, by their place.
LEMMA QuietWrites ==
    ASSUME TInv, NEW c \in Calls, Write(c), AtQuiet(op[c], todo[c]), memo[c] \in SUBSET Uncounted
    PROVE  Tidy(mem, mem')
<1> DEFINE s == NextStep(c)
<1>1. /\ s.do \in {"create", "join", "unjoin", "drop", "assign", "put", "raise"}
      /\ s.do \in {"create", "put"} => ~ Exists(mem, s.node)
      /\ mem' = Written(s, memo[c])
  BY DEF Write
<1>2. s \in Quiet /\ s.do # "raise"
  BY AtDo DEF NextStep, QuietDo
<1>3. CASE s.do = "create"
  <2>1. /\ s.node \notin Moves /\ s.columns \in SUBSET Columns
        /\ \A f \in s.columns : f[1] = "strength" => f[2] = s.node /\ f[3] = 0
    BY <1>2, <1>3, QuietFields DEF NewRows
  <2>2. \A f \in s.columns : f[1] # "node"
    BY <2>1 DEF Columns
  <2>3. mem' = Created(mem, s.node, s.columns) /\ ~ Exists(mem, s.node)
    BY <1>1, <1>3, WrittenBy
  <2> HIDE DEF s
  <2> QED
    BY <2>1, <2>2, <2>3, TidyCreate
<1>4. CASE s.do = "put"
  <2> DEFINE columns == (memo[c] \ Edges) \cup {<<"embedded", s.node, s.embedded>>}
  <2>1. s.node \notin Moves
    BY <1>2, <1>4, QuietFields, NodeKinds
  <2>2. \A f \in columns : f[1] # "node" /\ f[1] # "strength"
    BY DEF Uncounted, Columns, Edges
  <2>3. mem' = Created(mem, s.node, columns) /\ ~ Exists(mem, s.node)
    BY <1>1, <1>4, WrittenBy
  <2> HIDE DEF s, columns
  <2> QED
    BY <2>1, <2>2, <2>3, TidyCreate
<1>5. CASE s.do = "assign"
  <2>1. s.values \in SUBSET Uncounted
    BY <1>2, <1>5, QuietFields
  <2>2. mem' = Assigned(mem, s.node, s.values)
    BY <1>1, <1>5, WrittenBy
  <2> HIDE DEF s
  <2> QED
    BY <2>1, <2>2, TidyAssign
<1>6. CASE s.do \in {"join", "unjoin", "drop"}
  <2>1. \/ mem' = Joined(mem, s.edge)
        \/ mem' = Unjoined(mem, s.label, s.node) /\ s.label \in Labels
        \/ mem' = Dropped(mem, s.node) /\ s.node \in Avatars \cup Triples
    BY <1>1, <1>2, <1>6, WrittenBy, QuietFields
  <2> HIDE DEF s
  <2> QED
    BY <2>1, TidyJoin, TidyUnjoin, TidyDrop
<1> QED
  BY <1>1, <1>2, <1>3, <1>4, <1>5, <1>6

\* Every query that writes: quiet, or the second or the third step of a walk.
LEMMA WriteKinds ==
    ASSUME TInv, NEW c \in Calls, Write(c)
    PROVE  /\ conn = "open" /\ todo[c] # <<>> /\ op' = op /\ todo'[c] = Tail(todo[c])
           /\ UNCHANGED <<disk, mounted, conn, painted, overlapped>>
           /\ \A d \in Calls \ {c} : todo'[d] = todo[d] /\ memo'[d] = memo[d]
           /\ \/ AtQuiet(op[c], todo[c]) /\ Tidy(mem, mem')
              \/ /\ AtRaise(op[c], todo[c], memo[c])
                 /\ mem' = Assigned(mem, Way(op[c]),
                                    {<<"strength", Way(op[c]), f[3] + 1>> : f \in memo[c]})
              \/ /\ AtRecord(op[c], todo[c], memo[c]) /\ ~ Exists(mem, MoveOf(op[c]))
                 /\ mem' = Created(mem, MoveOf(op[c]), {})
<1>1. /\ conn = "open" /\ todo[c] # <<>> /\ op' = op /\ todo'[c] = Tail(todo[c])
      /\ UNCHANGED <<disk, mounted, conn, painted, overlapped>>
      /\ \A d \in Calls \ {c} : todo'[d] = todo[d] /\ memo'[d] = memo[d]
      /\ mem' = Written(NextStep(c), memo[c])
      /\ NextStep(c).do \in {"create", "put"} => ~ Exists(mem, NextStep(c).node)
      /\ NextStep(c).do \in {"create", "join", "unjoin", "drop", "assign", "put", "raise"}
  BY DEF Write, Usable, viewer, TInv, CallsTyped
<1>2. \/ AtQuiet(op[c], todo[c]) /\ memo[c] \in SUBSET Uncounted
      \/ AtRaise(op[c], todo[c], memo[c]) \/ AtRecord(op[c], todo[c], memo[c])
  BY <1>1, PlaceOf, AtDo DEF NextStep, Lifecycle, TInv
<1>3. CASE AtQuiet(op[c], todo[c]) /\ memo[c] \in SUBSET Uncounted
  BY <1>1, <1>3, QuietWrites
<1>4. CASE AtRaise(op[c], todo[c], memo[c])
  <2>1. NextStep(c).do = "raise" /\ NextStep(c).node = Way(op[c])
    BY <1>4, AtDo DEF NextStep
  <2>2. mem' = Assigned(mem, NextStep(c).node,
                        {<<"strength", NextStep(c).node, f[3] + 1>> : f \in memo[c]})
    BY <1>1, <2>1, WrittenBy
  <2>3. mem' = Assigned(mem, Way(op[c]), {<<"strength", Way(op[c]), f[3] + 1>> : f \in memo[c]})
    BY <2>1, <2>2
  <2> QED
    BY <1>1, <1>4, <2>3
<1>5. CASE AtRecord(op[c], todo[c], memo[c])
  <2>1. NextStep(c).do = "create" /\ NextStep(c).node = MoveOf(op[c]) /\ NextStep(c).columns = {}
    BY <1>5, AtDo DEF NextStep
  <2> QED
    BY <1>1, <1>5, <2>1, WrittenBy
<1> QED
  BY <1>1, <1>2, <1>3, <1>4, <1>5

\* A rebuild puts the edges back, and open() creates the tables.
LEMMA TidyWrites ==
    ASSUME TInv, NEW c \in Calls, Rejoins(c) \/ CreateTables(c)
    PROVE  /\ conn = "open" /\ todo[c] # <<>> /\ op' = op /\ Tidy(mem, mem')
           /\ UNCHANGED <<disk, mounted, conn, painted, overlapped>>
           /\ \A d \in Calls \ {c} : todo'[d] = todo[d] /\ memo'[d] = memo[d]
<1>1. CASE Rejoins(c)
  <2>1. mem' = mem \/ \E e : mem' = Joined(mem, e)
    BY <1>1, RejoinsTyped
  <2>2. Tidy(mem, mem')
    BY <2>1, TidyJoin, TidyTable
  <2> QED
    BY <1>1, <2>2 DEF Rejoins, Usable, viewer, TInv, CallsTyped, Waiting
<1>2. CASE CreateTables(c)
  <2>1. \E s : mem' = mem \cup {<<"table", s>>}
    BY <1>2 DEF CreateTables
  <2>2. Tidy(mem, mem')
    BY <2>1, TidyTable
  <2> QED
    BY <1>2, <2>2 DEF CreateTables, viewer, Waiting
<1> QED
  BY <1>1, <1>2

\* A raise and a record keep what lasts.
LEMMA WriteLasts ==
    ASSUME TInv, NEW c \in Calls, Write(c) \/ Rejoins(c) \/ CreateTables(c)
    PROVE  Lasting(mem) \subseteq Lasting(mem')
<1>1. ASSUME NEW q, NEW w, \A v \in w : v[1] = "strength"
      PROVE  Lasting(mem) \subseteq Lasting(Assigned(mem, q, w))
  BY <1>1 DEF Lasting, Exists, Assigned
<1>2. ASSUME NEW n PROVE Lasting(mem) \subseteq Lasting(Created(mem, n, {}))
  BY DEF Lasting, Exists, Created
<1>3. CASE Write(c)
  <2>1. Tidy(mem, mem') => Lasting(mem) \subseteq Lasting(mem')
    BY DEF Tidy
  <2>2. \/ Tidy(mem, mem')
        \/ \E q, w : mem' = Assigned(mem, q, w) /\ \A v \in w : v[1] = "strength"
        \/ \E n : mem' = Created(mem, n, {})
    <3>1. \A q, m : \A v \in {<<"strength", q, f[3] + 1>> : f \in m} : v[1] = "strength"
      OBVIOUS
    <3>2. CASE AtRaise(op[c], todo[c], memo[c])
               /\ mem' = Assigned(mem, Way(op[c]),
                                  {<<"strength", Way(op[c]), f[3] + 1>> : f \in memo[c]})
      BY <3>1, <3>2
    <3> QED
      BY <1>3, <3>2, WriteKinds
  <2> QED
    BY <1>1, <1>2, <2>1, <2>2
<1>4. CASE Rejoins(c) \/ CreateTables(c)
  BY <1>4, TidyWrites DEF Tidy
<1> QED
  BY <1>3, <1>4

-----------------------------------------------------------------------------
\* Every step keeps the session.

LEMMA QueryOf ==
    ASSUME CallsTyped, NEW c \in Calls, todo[c] # <<>>, Head(todo[c]).do \notin Lifecycle
    PROVE  op[c] \in Scriptable
BY PlaceOf, AtDo DEF AtLife, AtQuiet, AtStrength, AtRaise, AtRecord, AtMust, Walks

LEMMA ScriptedHead ==
    ASSUME NEW v \in Scriptable, NEW s, NEW m, Staged(v, s, m), s # <<>>
    PROVE  Head(s).do \notin Lifecycle
<1>1. ~ AtLife(v, s)
  BY OpKinds DEF AtLife
<1> QED
  BY <1>1, StepOf, AtDo DEF Lifecycle, QuietDo

LEMMA SessionScripted ==
    ASSUME Session, CallsTyped', NEW c \in Calls, op'[c] \in Scriptable \/ todo'[c] = <<>>,
           \A d \in Calls \ {c} : op'[d] = op[d] /\ todo'[d] = todo[d],
           UNCHANGED <<disk, mounted, conn>>,
           mem' = mem \/ (conn = "open" /\ Lasting(mem) \subseteq Lasting(mem'))
    PROVE  Session'
<1>1. CASE todo'[c] = <<>>
  BY <1>1, SessionKept
<1>2. CASE todo'[c] # <<>>
  <2>1. Staged(op'[c], todo'[c], memo'[c]) /\ op'[c] \in Scriptable
    BY <1>2 DEF CallsTyped
  <2>2. Head(todo'[c]).do \notin Lifecycle
    BY <1>2, <2>1, ScriptedHead
  <2>3. op'[c] \notin {<<"close">>, <<"syncfs">>}
    BY <2>1, OpKinds
  <2> QED
    BY <2>2, <2>3, SessionKept DEF Lifecycle
<1> QED
  BY <1>1, <1>2

LEMMA SessionStep ==
    ASSUME TInv, CallsTyped', Session, NEW c \in Calls, Step(c)
    PROVE  Session'
<1>1. CASE Mount(c)
  BY <1>1, SessionMount
<1>2. CASE Load(c)
  BY <1>2, SessionLoad
<1>3. CASE CreateTables(c)
  <2>1. /\ todo' = todo /\ op[c] = <<"open">> /\ Head(todo[c]).do = "ddl"
        /\ todo[c] # <<>>
    <3>1. Waiting(c, "ddl") /\ "ddl" \in Lifecycle /\ CallsTyped
      BY <1>3 DEF CreateTables, Lifecycle, TInv
    <3> QED
      BY <1>3, <3>1, LifeOf DEF CreateTables, Waiting, NextStep
  <2> QED
    BY <1>3, <2>1, SessionKept, TidyWrites, WriteLasts
<1>4. CASE TablesDone(c)
  <2>1. Goes(c, "ddl") /\ Waiting(c, "ddl") /\ "ddl" \in Lifecycle /\ CallsTyped
    BY <1>4 DEF TablesDone, Goes, Lifecycle, TInv
  <2>2. op' = op /\ todo'[c] = <<>> /\ \A d \in Calls \ {c} : todo'[d] = todo[d]
    BY <2>1, LifeOf, LifeMoves
  <2> QED
    BY <1>4, <2>2, SessionKept DEF TablesDone, graphs
<1>5. CASE Disconnect(c) \/ Shut(c)
  BY <1>5, SessionDisconnect
<1>6. CASE Save(c)
  BY <1>6, SessionSave
<1>7. CASE Unmount(c)
  BY <1>7, SessionUnmount
<1>8. CASE Read(c)
  <2>1. /\ todo[c] # <<>> /\ op' = op /\ UNCHANGED graphs
        /\ Head(todo[c]).do \in {"probe", "must", "row", "edges", "strength"}
    BY <1>8 DEF Read, NextStep
  <2>2. op[c] \in Scriptable
    BY <2>1, QueryOf DEF TInv, Lifecycle
  <2>3. \A d \in Calls \ {c} : todo'[d] = todo[d]
    BY <1>8 DEF Read, TInv, CallsTyped
  <2> QED
    BY <2>1, <2>2, <2>3, SessionScripted DEF graphs
<1>9. CASE Write(c)
  <2>1. Head(todo[c]).do \in {"create", "join", "unjoin", "drop", "assign", "put", "raise"}
    BY <1>9 DEF Write, NextStep
  <2>2. op[c] \in Scriptable
    BY <1>9, <2>1, WriteKinds, QueryOf DEF TInv, Lifecycle
  <2> QED
    BY <1>9, <2>2, SessionScripted, WriteKinds, WriteLasts
<1>10. CASE Rejoins(c)
  <2>1. Head(todo[c]).do = "rejoin"
    BY <1>10 DEF Rejoins, Waiting, NextStep
  <2>2. op[c] \in Scriptable
    BY <1>10, <2>1, TidyWrites, QueryOf DEF TInv, Lifecycle
  <2> QED
    BY <1>10, <2>2, SessionScripted, TidyWrites, WriteLasts
<1>11. CASE Refused(c) \/ Resolve(c)
  <2>1. Ended(c) /\ UNCHANGED graphs
    BY <1>11 DEF Refused, Rejected, Resolve
  <2>2. todo'[c] = <<>> /\ \A d \in Calls \ {c} : op'[d] = op[d] /\ todo'[d] = todo[d]
    BY <2>1 DEF Ended, TInv, CallsTyped
  <2> QED
    BY <2>1, <2>2, SessionKept DEF graphs
<1> QED
  BY <1>1, <1>2, <1>3, <1>4, <1>5, <1>6, <1>7, <1>8, <1>9, <1>10, <1>11 DEF Step

\* The calls that begin: c was idle.
LEMMA BeganHere ==
    ASSUME CallsTyped, NEW c \in Calls, NEW v, NEW s, Began(c, v, s)
    PROVE  /\ op[c] = Idle /\ op'[c] = v /\ todo'[c] = s
           /\ \A d \in Calls \ {c} : op'[d] = op[d] /\ todo'[d] = todo[d]
           /\ c = Host => ~ Shutting
<1>1. op[c] = Idle /\ op'[c] = v /\ todo'[c] = s
      /\ \A d \in Calls \ {c} : op'[d] = op[d] /\ todo'[d] = todo[d]
  BY DEF Began, CallsTyped
<1>2. Idle # <<"close">>
  BY DEF Idle
<1> QED
  BY <1>1, <1>2 DEF Shutting

LEMMA SessionOpen ==
    ASSUME TInv, Session, NEW c \in Calls, Open(c)
    PROVE  Session'
<1> DEFINE o == Do("mount") \o Do("load") \o Do("ddl")
           s == IF conn = "none" THEN o ELSE <<>>
<1>1. Began(c, <<"open">>, s) /\ UNCHANGED graphs
  BY DEF Open
<1>2. s = <<>> \/ Head(s).do = "mount"
  <2>1. o = <<[do |-> "mount"], [do |-> "load"], [do |-> "ddl"]>>
    BY Listed DEF Do
  <2>2. Head(<<[do |-> "mount"], [do |-> "load"], [do |-> "ddl"]>>) = [do |-> "mount"]
    OBVIOUS
  <2>3. Head(o).do = "mount"
    <3> HIDE DEF o
    <3> QED
      BY <2>1, <2>2
  <2> HIDE DEF o
  <2> QED
    BY <2>3 DEF s
<1> HIDE DEF s
<1>3. /\ op'[c] = <<"open">> /\ todo'[c] = s
      /\ \A d \in Calls \ {c} : op'[d] = op[d] /\ todo'[d] = todo[d]
  BY <1>1, BeganHere DEF TInv
<1> QED
  BY <1>1, <1>2, <1>3, SessionKept DEF graphs

LEMMA SessionClose ==
    ASSUME TInv, Session, Close \/ SyncOut
    PROVE  Session'
<1> DEFINE c1 == Do("disconnect") \o Do("shut") \o Do("save") \o Do("unmount")
<1>1. PICK v, s : /\ Began(Host, v, s) /\ UNCHANGED graphs
                  /\ \/ v = <<"close">> /\ s = <<>>
                     \/ v = <<"close">> /\ s = c1 /\ conn # "none"
                     \/ v = <<"syncfs">> /\ s = Do("save") /\ conn # "none"
  BY DEF Close, SyncOut
<1>2. Host \in Calls /\ CallsTyped
  BY DEF Calls, TInv
<1>3. /\ op'[Host] = v /\ todo'[Host] = s
      /\ \A d \in Calls \ {Host} : op'[d] = op[d] /\ todo'[d] = todo[d]
      /\ ~ Shutting
  BY <1>1, <1>2, BeganHere
<1>4. c1 # <<>> /\ Head(c1).do = "disconnect" /\ Head(Do("save")).do = "save"
  <2>1. c1 = <<[do |-> "disconnect"], [do |-> "shut"], [do |-> "save"], [do |-> "unmount"]>>
    BY Listed DEF Do
  <2> QED
    BY <2>1 DEF Do
<1> HIDE DEF c1
<1>5. CASE s = <<>>
  BY <1>1, <1>2, <1>3, <1>5, SessionKept DEF graphs
<1>6. CASE s # <<>>
  <2>1. conn # "none" /\ Loaded /\ Loaded' /\ UNCHANGED <<disk, mem, mounted, conn>>
    BY <1>1, <1>6 DEF graphs, Loaded
  <2>2. \A d \in Calls : ~ Waiting(d, "load")'
    <3>1. \A d \in Calls : ~ Waiting(d, "load")
      BY <2>1 DEF Session
    <3> QED
      BY <1>1, <1>3, <1>4, <1>6, <3>1 DEF Waiting, NextStep
  <2>3. (Lasting(disk) \subseteq Lasting(mem))' /\ mounted'
    BY <2>1 DEF Session, Lasting
  <2>4. Shutting' => ~ Waiting(Host, "shut")' /\ ~ Waiting(Host, "save")' /\ ~ Waiting(Host, "unmount")'
    BY <1>1, <1>3, <1>4, <1>6 DEF Waiting, NextStep, Shutting
  <2> QED
    BY <2>1, <2>2, <2>3, <2>4 DEF Session
<1> QED
  BY <1>5, <1>6

LEMMA SessionReload == ASSUME Reload PROVE Session'
<1>1. \A c \in Calls : op'[c] = Idle /\ todo'[c] = <<>>
  BY DEF Reload
<1>2. Host \in Calls
  BY DEF Calls
<1>3. ~ Shutting' /\ ~ Loaded' /\ \A c \in Calls : ~ Waiting(c, "load")'
  BY <1>1, <1>2 DEF Shutting, Loaded, Reload, Waiting
<1> QED
  BY <1>1, <1>2, <1>3 DEF Session, Reload

LEMMA SessionInit == Init => Session
<1> SUFFICES ASSUME Init PROVE Session
  OBVIOUS
<1>1. Host \in Calls /\ \A c \in Calls : op[c] = Idle /\ todo[c] = <<>>
  BY DEF Init, Calls
<1>2. ~ Shutting /\ ~ Loaded /\ \A c \in Calls : ~ Waiting(c, "load")
  BY <1>1 DEF Init, Shutting, Loaded, Waiting
<1> QED
  BY <1>1, <1>2 DEF Session, Init

LEMMA CallPlace ==
    ASSUME TInv, NEW c \in Calls, NEW v, Call(c, v)
    PROVE  /\ op[c] = Idle /\ op'[c] = v /\ UNCHANGED <<graphs, memo, painted>>
           /\ \A d \in Calls \ {c} : op'[d] = op[d] /\ todo'[d] = todo[d]
           /\ todo'[c] = Script(v) /\ (c = Host => ~ Shutting)
BY BeganHere DEF Call, TInv, viewer

LEMMA SessionNext == TInv /\ Session /\ [Next]_vars => Session'
<1> SUFFICES ASSUME TInv, Session, [Next]_vars PROVE Session'
  OBVIOUS
<1>1. TInv' /\ CallsTyped'
  BY TInvNext DEF TInv
<1>2. ASSUME NEW c \in Calls, NEW v \in Scriptable, Call(c, v) PROVE Session'
  BY <1>1, <1>2, CallPlace, SessionScripted DEF graphs
<1>3. ASSUME NEW v \in AllVerbs, Verb(v) PROVE Session'
  BY <1>2, <1>3, VerbScripted DEF Verb, Calls
<1>4. ASSUME NEW c \in Clicks, NEW r \in Rooms, Navigate(c, r) PROVE Session'
  BY <1>2, <1>4, NavigateCalls DEF Calls
<1>5. ASSUME NEW c \in Calls, Fail(c) PROVE Session'
  <2>1. Ended(c) /\ UNCHANGED graphs
    BY <1>5 DEF Fail, Rejected
  <2>2. todo'[c] = <<>> /\ \A d \in Calls \ {c} : op'[d] = op[d] /\ todo'[d] = todo[d]
    BY <2>1 DEF Ended, TInv, CallsTyped
  <2> QED
    BY <2>1, <2>2, SessionKept DEF graphs
<1>6. CASE UNCHANGED vars
  <2>1. Host \in Calls /\ op' = op /\ todo' = todo /\ UNCHANGED graphs
    BY <1>6 DEF Calls, vars
  <2> QED
    BY <2>1 DEF graphs, Session, Shutting, Loaded, Waiting, NextStep, Lasting
<1>7. ASSUME NEW c \in Calls, Step(c) PROVE Session'
  BY <1>1, <1>7, SessionStep
<1> QED
  BY <1>3, <1>4, <1>5, <1>6, <1>7, SessionOpen, SessionClose, SessionReload DEF Next

LEMMA SessionInvariant == Spec => []Session
BY TypeInvariant, SessionInit, SessionNext, PTL DEF Spec

-----------------------------------------------------------------------------
(***************************************************************************)
(* The graph callers see.                                                  *)
(***************************************************************************)

\* While the store is loaded, it is the one in memory.
LEMMA CurrentLoaded ==
    ASSUME Session, Loaded
    PROVE  /\ Lasting(Current) \subseteq Lasting(mem)
           /\ Lasting(Current) # {} => Current = mem
<1>1. Lasting({}) = {}
  BY DEF Lasting, Exists
<1> QED
  BY <1>1 DEF Session, Current

\* What a query that writes does to it.
LEMMA CurrentWritten ==
    ASSUME Session, conn = "open", Lasting(mem) \subseteq Lasting(mem'), disk' = disk
    PROVE  /\ Lasting(Current) \subseteq Lasting(Current')
           /\ Lasting(Current) # {} => Current = mem /\ Current' = mem'
<1>1. Loaded /\ Lasting({}) = {}
  BY DEF Loaded, Lasting, Exists
<1>2. Lasting(Current) \subseteq Lasting(mem) /\ (Lasting(Current) # {} => Current = mem)
  BY <1>1, CurrentLoaded
<1>3. Current' = IF mem' = {} THEN disk ELSE mem'
  BY DEF Current
<1> QED
  BY <1>1, <1>2, <1>3

\* Beside those queries and a reload, the steps of open() and close() alone
\* change the graphs.
LEMMA GraphMoves ==
    ASSUME [Next]_vars, ~ Reload, \A c \in Calls : ~ Write(c) /\ ~ Rejoins(c) /\ ~ CreateTables(c)
    PROVE  \/ UNCHANGED <<disk, mem>>
           \/ \E c \in Calls : Load(c) \/ Save(c) \/ Unmount(c)
<1>1. ASSUME NEW c \in Calls, Step(c)
      PROVE  Load(c) \/ Save(c) \/ Unmount(c) \/ UNCHANGED <<disk, mem>>
  BY <1>1 DEF Step, Mount, TablesDone, Disconnect, Shut, Read, Refused, Rejected, Resolve, graphs
<1>2. \/ UNCHANGED <<disk, mem>>
      \/ \E c \in Calls : Load(c) \/ Save(c) \/ Unmount(c)
  <2>1. \A v : Verb(v) => UNCHANGED <<disk, mem>>
    BY DEF Verb, Call, graphs
  <2>2. \A c, r : Navigate(c, r) => UNCHANGED <<disk, mem>>
    BY DEF Navigate, Call, graphs
  <2>3. \A c : Open(c) \/ Fail(c) => UNCHANGED <<disk, mem>>
    BY DEF Open, Fail, Rejected, graphs
  <2>4. Close \/ SyncOut \/ UNCHANGED vars => UNCHANGED <<disk, mem>>
    BY DEF Close, SyncOut, vars, graphs
  <2> QED
    BY <1>1, <2>1, <2>2, <2>3, <2>4 DEF Next
<1> QED
  BY <1>2

\* Everything but a reload and the queries that write leaves it as it is, or
\* finds nothing in it that lasts.
LEMMA CurrentKept ==
    ASSUME TInv, Session, [Next]_vars, ~ Reload,
           \A c \in Calls : ~ Write(c) /\ ~ Rejoins(c) /\ ~ CreateTables(c)
    PROVE  Current' = Current \/ Lasting(Current) = {}
<1>1. ASSUME UNCHANGED <<disk, mem>> PROVE Current' = Current
  BY <1>1 DEF Current
<1>2. ASSUME NEW c \in Calls, Load(c) PROVE Current' = Current
  <2>1. mem = {}
    BY <1>2 DEF Load, Goes, Session
  <2> QED
    BY <1>2, <2>1 DEF Load, Current
<1>3. ASSUME NEW c \in Calls, Save(c) PROVE Current' = Current \/ Lasting(Current) = {}
  <2>1. Loaded /\ disk' = mem /\ mem' = mem
    BY <1>3, SessionSave DEF Save
  <2> QED
    BY <2>1, CurrentLoaded DEF Current
<1>4. ASSUME NEW c \in Calls, Unmount(c) PROVE Current' = Current
  <2>1. disk = mem /\ disk' = disk /\ mem' = {}
    BY <1>4, SessionUnmount DEF Unmount
  <2> QED
    BY <2>1 DEF Current
<1> QED
  BY <1>1, <1>2, <1>3, <1>4, GraphMoves

LEMMA CurrentLasts ==
    ASSUME TInv, Session, [Next]_vars, ~ Reload
    PROVE  Lasting(Current) \subseteq Lasting(Current')
<1>1. CASE \A c \in Calls : ~ Write(c) /\ ~ Rejoins(c) /\ ~ CreateTables(c)
  <2>1. Current' = Current \/ Lasting(Current) = {}
    BY <1>1, CurrentKept
  <2> QED
    BY <2>1
<1>2. ASSUME NEW c \in Calls, Write(c) \/ Rejoins(c) \/ CreateTables(c)
      PROVE  Lasting(Current) \subseteq Lasting(Current')
  <2>1. conn = "open" /\ disk' = disk
    BY <1>2, WriteKinds, TidyWrites
  <2>2. Lasting(mem) \subseteq Lasting(mem')
    BY <1>2, WriteLasts
  <2> QED
    BY <2>1, <2>2, CurrentWritten
<1> QED
  BY <1>1, <1>2

-----------------------------------------------------------------------------
(***************************************************************************)
(* An arc is drawn once its move is recorded: a navigation whose remaining *)
(* steps are those of a recorded move has its move in the graph.           *)
(***************************************************************************)

Arcs ==
    /\ \A m \in painted : Exists(Current, m)
    /\ \A c \in Calls : Recorded(op[c], todo[c], memo[c]) => Exists(Current, MoveOf(op[c]))

LEMMA ArcsInit == Init => Arcs
<1> SUFFICES ASSUME Init PROVE Arcs
  OBVIOUS
<1>1. \A c \in Calls : op[c] = Idle
  BY DEF Init
<1> QED
  BY <1>1, OpKinds DEF Init, Arcs, Recorded

\* A navigation that has resolved was recorded.
LEMMA NavigationEnds ==
    ASSUME NEW v \in Navigations, NEW m, Staged(v, <<>>, m)
    PROVE  Recorded(v, <<>>, m)
<1>1. v \in Scriptable /\ IsNavigation(v) /\ Walks(v)
  BY OpKinds DEF Walks
<1>2. ~ Quieted(v, <<>>)
  <2>1. Ending(v) # <<>> /\ \E S : Ending(v) \in Seq(S)
    BY <1>1, EndingSteps
  <2>2. ASSUME NEW p \in Seq(Quiet) PROVE p \o Ending(v) # <<>>
    BY <2>1
  <2> QED
    BY <2>2 DEF Quieted
<1>3. ~ Raising(v, <<>>, m) /\ ~ Raised(v, <<>>, m)
  BY <1>1, EndingSteps DEF Raising, Raised, Recording
<1> QED
  BY <1>1, <1>2, <1>3, OpKinds DEF Staged

\* The call a step is about.
LEMMA Actor ==
    ASSUME TInv, [Next]_vars, ~ Reload
    PROVE  \E c \in Calls :
              /\ \A d \in Calls \ {c} : op'[d] = op[d] /\ todo'[d] = todo[d] /\ memo'[d] = memo[d]
              /\ \/ op'[c] \notin Scriptable
                 \/ op'[c] = op[c] /\ todo'[c] = todo[c] /\ memo'[c] = memo[c]
                 \/ \E v \in Scriptable : Call(c, v)
                 \/ Read(c) \/ Write(c) \/ Rejoins(c)
<1> DEFINE Others(c) == \A d \in Calls \ {c} :
                            op'[d] = op[d] /\ todo'[d] = todo[d] /\ memo'[d] = memo[d]
<1>1. /\ Idle \notin Scriptable /\ <<"open">> \notin Scriptable
      /\ <<"close">> \notin Scriptable /\ <<"syncfs">> \notin Scriptable
  BY OpKinds DEF Idle
<1>2. ASSUME NEW c \in Calls, NEW v \in Scriptable, Call(c, v) PROVE Others(c)
  BY <1>2, CallPlace DEF TInv, CallsTyped
<1>3. ASSUME NEW v \in AllVerbs, Verb(v) PROVE \E c \in Calls : Others(c) /\ Call(c, v)
  <2>1. Host \in Calls /\ v \in Scriptable /\ Call(Host, v)
    BY <1>3, VerbScripted DEF Verb, Calls
  <2> QED
    BY <1>2, <2>1
<1>4. ASSUME NEW c \in Clicks, NEW r \in Rooms, Navigate(c, r)
      PROVE  \E d \in Calls, v \in Scriptable : Others(d) /\ Call(d, v)
  <2>1. c \in Calls
    BY DEF Calls
  <2> QED
    BY <1>2, <1>4, <2>1, NavigateCalls
<1>5. ASSUME NEW c \in Calls, NEW v \in {<<"open">>, <<"close">>, <<"syncfs">>}, NEW s,
             Began(c, v, s), UNCHANGED memo
      PROVE  Others(c) /\ op'[c] \notin Scriptable
  BY <1>1, <1>5, BeganHere DEF TInv
<1>6. ASSUME NEW c \in Calls, Open(c) PROVE Others(c) /\ op'[c] \notin Scriptable
  BY <1>5, <1>6 DEF Open
<1>7. ASSUME Close \/ SyncOut PROVE Others(Host) /\ op'[Host] \notin Scriptable /\ Host \in Calls
  <2>1. Host \in Calls
    BY DEF Calls
  <2> QED
    BY <1>5, <1>7, <2>1 DEF Close, SyncOut
<1>8. ASSUME NEW c \in Calls, Ended(c) PROVE Others(c) /\ op'[c] \notin Scriptable
  BY <1>1, <1>8 DEF Ended, TInv, CallsTyped
<1>9. ASSUME NEW c \in Calls, NEW name \in Lifecycle, Goes(c, name)
      PROVE  Others(c) /\ op'[c] \notin Scriptable
  <2>1. op[c] \in {<<"open">>, <<"close">>, <<"syncfs">>}
    BY <1>9, GoesAtLife DEF Goes, TInv, AtLife
  <2> QED
    BY <1>1, <1>9, <2>1, LifeMoves DEF Goes, TInv
<1>10. ASSUME NEW c \in Calls, Step(c), ~ Read(c), ~ Write(c), ~ Rejoins(c)
       PROVE  Others(c) /\ (\/ op'[c] \notin Scriptable
                            \/ op'[c] = op[c] /\ todo'[c] = todo[c] /\ memo'[c] = memo[c])
  <2>1. \/ Ended(c) \/ CreateTables(c) \/ \E name \in Lifecycle : Goes(c, name)
    BY <1>10
       DEF Step, Mount, Load, TablesDone, Disconnect, Shut, Save, Unmount, Refused, Rejected,
           Resolve, Lifecycle
  <2>2. CASE CreateTables(c)
    BY <2>2 DEF CreateTables
  <2> QED
    BY <1>8, <1>9, <2>1, <2>2
<1>11. ASSUME NEW c \in Calls, Read(c) \/ Write(c) \/ Rejoins(c) PROVE Others(c)
  <2>1. op' = op
    BY <1>11 DEF Read, Write, Rejoins
  <2>2. CASE Read(c)
    BY <2>1, <2>2 DEF Read, TInv, CallsTyped
  <2>3. CASE Write(c) \/ Rejoins(c)
    BY <2>1, <2>3, WriteKinds, TidyWrites
  <2> QED
    BY <1>11, <2>2, <2>3
<1>12. ASSUME NEW c \in Calls, Fail(c) PROVE Others(c) /\ op'[c] \notin Scriptable
  BY <1>8, <1>12 DEF Fail, Rejected
<1>13. \A v \in AllVerbs : v \in Scriptable
  BY VerbScripted
<1> HIDE DEF Others
<1>14. \E c \in Calls :
          /\ Others(c)
          /\ \/ op'[c] \notin Scriptable
             \/ op'[c] = op[c] /\ todo'[c] = todo[c] /\ memo'[c] = memo[c]
             \/ \E v \in Scriptable : Call(c, v)
             \/ Read(c) \/ Write(c) \/ Rejoins(c)
  <2>1. CASE Next
    <3>1. CASE \E v \in AllVerbs : Verb(v)
      BY <1>3, <1>13, <3>1
    <3>2. CASE \E c \in Clicks, r \in Rooms : Navigate(c, r)
      BY <1>4, <3>2
    <3>3. CASE (\E c \in Calls : Open(c)) \/ Close \/ SyncOut
      BY <1>6, <1>7, <3>3
    <3>4. CASE \E c \in Calls : Step(c)
      BY <1>10, <1>11, <3>4
    <3>5. CASE \E c \in Calls : Fail(c)
      BY <1>12, <3>5
    <3> QED
      BY <2>1, <3>1, <3>2, <3>3, <3>4, <3>5 DEF Next
  <2>2. CASE UNCHANGED vars
    <3>1. Host \in Calls
      BY DEF Calls
    <3>2. op' = op /\ todo' = todo /\ memo' = memo
      BY <2>2 DEF vars
    <3> QED
      BY <3>1, <3>2 DEF Others
  <2> QED
    BY <2>1, <2>2
<1> QED
  BY <1>14 DEF Others

\* The places of a navigation are told apart by the number of steps left.
LEMMA StagesApart ==
    ASSUME NEW v \in Scriptable, IsNavigation(v), NEW s,
           Quieted(v, s) \/ s = <<Raise(Way(v))>> \o Recording(v) \/ s = Recording(v)
    PROVE  s # <<>> /\ s # <<Must(Way(v))>>
<1> DEFINE a == ReadStrength(Way(v))
           b == Raise(Way(v))
           d == Create(MoveOf(v), {})
           e == Must(Way(v))
<1>1. Recording(v) = <<d, e>> /\ Walks(v)
  BY DEF Recording, Walks
<1>2. Ending(v) = <<a, b>> \o <<d, e>>
  BY <1>1, EndingSteps
<1> HIDE DEF a, b, d, e
<1>3. /\ Len(<<d, e>>) = 2 /\ Len(<<b>> \o <<d, e>>) = 3 /\ Len(<<a, b>> \o <<d, e>>) = 4
      /\ \A t \in Seq(Quiet) : Len(t \o (<<a, b>> \o <<d, e>>)) = Len(t) + 4 /\ Len(t) \in Nat
  OBVIOUS
<1> DEFINE none == <<>>
           one == <<e>>
<1>4. Len(none) = 0 /\ Len(one) = 1
  OBVIOUS
<1> HIDE DEF none, one
<1>5. ASSUME Quieted(v, s) PROVE s # none /\ s # one
  <2>1. PICK p \in Seq(Quiet) : s = p \o (<<a, b>> \o <<d, e>>)
    BY <1>2, <1>5 DEF Quieted
  <2>2. Len(s) = Len(p) + 4 /\ Len(p) \in Nat
    BY <1>3, <2>1
  <2>3. Len(s) # 0 /\ Len(s) # 1
    BY <2>2
  <2> QED
    BY <1>4, <2>3
<1>6. ASSUME s = <<b>> \o <<d, e>> \/ s = <<d, e>> PROVE s # none /\ s # one
  BY <1>3, <1>4, <1>6
<1> QED
  BY <1>1, <1>5, <1>6 DEF b, e, none, one

\* A move gets recorded by the query that creates its row.
LEMMA NewlyRecorded ==
    ASSUME TInv, [Next]_vars, ~ Reload, NEW d \in Calls, Recorded(op'[d], todo'[d], memo'[d])
    PROVE  /\ op'[d] = op[d]
           /\ \/ Recorded(op[d], todo[d], memo[d])
              \/ Write(d) /\ AtRecord(op[d], todo[d], memo[d])
<1>1. PICK c \in Calls :
          /\ \A e \in Calls \ {c} : op'[e] = op[e] /\ todo'[e] = todo[e] /\ memo'[e] = memo[e]
          /\ \/ op'[c] \notin Scriptable
             \/ op'[c] = op[c] /\ todo'[c] = todo[c] /\ memo'[c] = memo[c]
             \/ \E v \in Scriptable : Call(c, v)
             \/ Read(c) \/ Write(c) \/ Rejoins(c)
  BY Actor
<1>2. /\ op'[d] \in Scriptable /\ IsNavigation(op'[d])
      /\ todo'[d] \in {<<Must(Way(op'[d]))>>, <<>>}
  BY DEF Recorded
<1>3. CASE d # c \/ (op'[c] = op[c] /\ todo'[c] = todo[c] /\ memo'[c] = memo[c])
  BY <1>1, <1>3
<1>4. ASSUME NEW v \in Scriptable, Call(d, v) PROVE FALSE
  <2>1. op'[d] = v /\ todo'[d] = Script(v)
    BY <1>4, CallPlace
  <2> QED
    BY <1>2, <2>1, ScriptShape, StagesApart
<1>5. CallsTyped /\ memo[d] \in SUBSET Facts
  BY CallHere DEF TInv
<1>6. ASSUME Quieted(op[d], todo'[d]) \/ todo'[d] = <<Raise(Way(op[d]))>> \o Recording(op[d])
                 \/ todo'[d] = Recording(op[d]),
             op'[d] = op[d]
      PROVE  FALSE
  BY <1>2, <1>6, StagesApart
<1>7. CASE Read(d)
  <2>1. /\ todo[d] # <<>> /\ op'[d] = op[d]
        /\ Head(todo[d]).do \in {"probe", "must", "row", "edges", "strength"}
    BY <1>7 DEF Read, NextStep
  <2>2. CASE AtMust(op[d], todo[d])
    <3>1. todo[d] = <<Must(Way(op[d]))>>
      <4>1. todo[d] \in Seq(Steps)
        BY <1>5, StagedSteps DEF CallsTyped
      <4>2. todo[d] = <<Head(todo[d])>> \o Tail(todo[d])
        BY <2>1, <4>1
      <4>3. <<Head(todo[d])>> \o <<>> = <<Head(todo[d])>>
        OBVIOUS
      <4> QED
        BY <2>2, <4>2, <4>3 DEF AtMust
    <3> QED
      BY <1>5, <2>1, <2>2, <3>1 DEF Recorded, AtMust
  <2>3. CASE AtStrength(op[d], todo[d])
    <3>1. Head(todo[d]).do = "strength"
      BY <2>3, AtDo
    <3>2. todo'[d] = Tail(todo[d])
      BY <1>5, <1>7, <3>1 DEF Read, NextStep, CallsTyped
    <3> QED
      BY <1>6, <2>1, <2>3, <3>2 DEF AtStrength
  <2>4. CASE AtQuiet(op[d], todo[d])
    <3>1. Head(todo[d]) \in Quiet
      BY <2>4 DEF AtQuiet
    <3>2. \/ todo'[d] = Tail(todo[d])
          \/ \E t \in Seq(Quiet) : todo'[d] = t \o Tail(todo[d])
      BY <1>5, <1>7, <3>1, QuietFields DEF Read, NextStep, CallsTyped
    <3>3. Quieted(op[d], todo'[d])
      BY <2>4, <3>2 DEF AtQuiet
    <3> QED
      BY <1>6, <2>1, <3>3
  <2> QED
    BY <1>5, <2>1, <2>2, <2>3, <2>4, PlaceOf, AtDo DEF Lifecycle
<1>8. CASE Write(d)
  <2>1. op'[d] = op[d] /\ todo'[d] = Tail(todo[d])
    BY <1>8, WriteKinds
  <2>2. AtQuiet(op[d], todo[d]) => Quieted(op[d], todo'[d])
    BY <2>1 DEF AtQuiet
  <2>3. AtRaise(op[d], todo[d], memo[d]) => todo'[d] = Recording(op[d])
    BY <2>1 DEF AtRaise
  <2> QED
    BY <1>6, <1>8, <2>1, <2>2, <2>3, WriteKinds
<1>9. CASE Rejoins(d)
  <2>1. op'[d] = op[d] /\ AtQuiet(op[d], todo[d])
    BY <1>9, RejoinsTyped DEF Rejoins
  <2>2. todo'[d] = todo[d] \/ todo'[d] = Tail(todo[d])
    BY <1>5, <1>9 DEF Rejoins, CallsTyped
  <2>3. todo'[d] = Tail(todo[d]) => Quieted(op[d], todo'[d])
    BY <2>1 DEF AtQuiet
  <2> QED
    BY <1>2, <1>5, <1>6, <2>1, <2>2, <2>3 DEF Recorded
<1> QED
  BY <1>1, <1>2, <1>3, <1>4, <1>7, <1>8, <1>9

\* Arcs are drawn when a navigation resolves.
LEMMA PaintedBy ==
    ASSUME [Next]_vars, ~ Reload, NEW m \in painted' \ painted
    PROVE  \E c \in Calls : Resolve(c) /\ op[c] \in Navigations
                               /\ m = <<op[c][2], op[c][3], op[c][4]>>
<1>1. \A c \in Calls : Resolve(c) \/ UNCHANGED painted \/ ~ Step(c)
  BY DEF Step, Mount, Load, CreateTables, TablesDone, Disconnect, Shut, Save, Unmount, Goes,
         Read, Write, Rejoins, Refused, Rejected, viewer
<1>2. (\E c \in Calls : Resolve(c)) \/ UNCHANGED painted
  <2>1. \A v : Verb(v) => UNCHANGED painted
    BY DEF Verb, Call, viewer
  <2>2. \A c, r : Navigate(c, r) => UNCHANGED painted
    BY DEF Navigate, Call, viewer
  <2>3. \A c : Open(c) \/ Fail(c) => UNCHANGED painted
    BY DEF Open, Fail, Rejected, viewer
  <2>4. Close \/ SyncOut \/ UNCHANGED vars => UNCHANGED painted
    BY DEF Close, SyncOut, vars, viewer
  <2> QED
    BY <1>1, <2>1, <2>2, <2>3, <2>4 DEF Next
<1>3. PICK c \in Calls : Resolve(c)
  BY <1>2
<1> QED
  BY <1>3 DEF Resolve

LEMMA ArcsNext == TInv /\ Session /\ Arcs /\ [Next]_vars => Arcs'
<1> SUFFICES ASSUME TInv, Session, Arcs, [Next]_vars PROVE Arcs'
  OBVIOUS
<1>1. CASE Reload
  <2>1. \A c \in Calls : op'[c] = Idle
    BY <1>1 DEF Reload
  <2> QED
    BY <1>1, <2>1, OpKinds DEF Reload, Arcs, Recorded
<1>2. CASE ~ Reload
  <2>1. \A m \in Moves : Exists(Current, m) => Exists(Current', m)
    BY <1>2, CurrentLasts DEF Lasting
  <2>2. \A c \in Calls : Recorded(op[c], todo[c], memo[c]) => MoveOf(op[c]) \in Moves
    BY ScriptShape DEF Recorded
  <2>3. ASSUME NEW c \in Calls, Recorded(op'[c], todo'[c], memo'[c])
        PROVE  Exists(Current', MoveOf(op'[c]))
    <3>1. CASE Recorded(op[c], todo[c], memo[c]) /\ op'[c] = op[c]
      BY <2>1, <2>2, <3>1 DEF Arcs
    <3>2. CASE Write(c) /\ AtRecord(op[c], todo[c], memo[c]) /\ op'[c] = op[c]
      <4>1. mem' = Created(mem, MoveOf(op[c]), {})
        <5>1. Head(todo[c]).do = "create" /\ Head(todo[c]).node = MoveOf(op[c])
              /\ Head(todo[c]).columns = {}
          BY <3>2, AtDo
        <5> QED
          BY <3>2, <5>1, WrittenBy DEF Write, NextStep
      <4>2. Exists(mem', MoveOf(op[c])) /\ mem' # {}
        BY <4>1 DEF Created, Exists
      <4> QED
        BY <3>2, <4>2 DEF Current
    <3> QED
      BY <1>2, <2>3, <3>1, <3>2, NewlyRecorded
  <2>4. ASSUME NEW m \in painted' PROVE Exists(Current', m)
    <3>1. painted \subseteq Moves
      BY DEF TInv, RestTyped
    <3>2. CASE m \in painted
      BY <2>1, <3>1, <3>2 DEF Arcs
    <3>3. CASE m \notin painted
      <4>1. PICK c \in Calls : Resolve(c) /\ op[c] \in Navigations
                               /\ m = <<op[c][2], op[c][3], op[c][4]>>
        BY <1>2, <2>4, <3>3, PaintedBy
      <4>2. Recorded(op[c], todo[c], memo[c])
        BY <4>1, CallHere, NavigationEnds DEF Resolve, TInv
      <4> QED
        BY <2>1, <2>2, <4>1, <4>2 DEF Arcs, MoveOf
    <3> QED
      BY <3>2, <3>3
  <2> QED
    BY <2>3, <2>4 DEF Arcs
<1> QED
  BY <1>1, <1>2

\* The viewer draws an arc for moves that are recorded only, and the record
\* outlives closing and reopening the store, however calls overlap and fail.
THEOREM StoreArcAfterPersist == Spec => []ArcAfterPersist
<1>1. Arcs => ArcAfterPersist
  BY DEF Arcs, ArcAfterPersist
<1> QED
  BY <1>1, TypeInvariant, SessionInvariant, ArcsInit, ArcsNext, PTL DEF Spec

-----------------------------------------------------------------------------
(***************************************************************************)
(* Walks are counted.                                                      *)
(***************************************************************************)

LEMMA MovesFinite == IsFiniteSet(Moves)
<1> DEFINE A == {Palace} \cup Rooms
           B == 0 .. MaxClock
           S == (A \X Rooms) \X B
           f == [p \in S |-> <<p[1][1], p[1][2], p[2]>>]
<1>1. IsFiniteSet(A)
  BY StoreRoomsAssumption, FS_Singleton, FS_Union
<1>2. IsFiniteSet(B)
  BY StoreBoundsAssumption, FS_Interval
<1>3. IsFiniteSet(S)
  BY <1>1, <1>2, StoreRoomsAssumption, FS_Product
<1>4. f \in Surjection(S, Moves)
  <2>1. f \in [S -> Moves]
    BY DEF Moves
  <2>2. ASSUME NEW m \in Moves PROVE \E p \in S : f[p] = m
    <3>1. m = <<m[1], m[2], m[3]>> /\ m[1] \in A /\ m[2] \in Rooms /\ m[3] \in B
      BY DEF Moves
    <3>2. <<<<m[1], m[2]>>, m[3]>> \in S
      BY <3>1
    <3> QED
      BY <3>1, <3>2
  <2> QED
    BY <2>1, <2>2 DEF Surjection
<1> QED
  BY <1>3, <1>4, FS_Surjection

LEMMA WalkedFinite ==
    ASSUME NEW g, NEW q
    PROVE  IsFiniteSet(Walked(g, q)) /\ Cardinality(Walked(g, q)) \in Nat
<1>1. Walked(g, q) \subseteq Moves
  BY DEF Walked
<1> QED
  BY <1>1, MovesFinite, FS_Subset, FS_CardinalityType

\* A walk has read what the strength was; it has counted itself.
Readied(g, q, m) ==
    /\ Exists(g, q)
    /\ \A f \in m : Cardinality(Walked(g, q)) <= f[3]
    /\ m = {} => ~ \E f \in g : f[1] = "strength" /\ f[2] = q

Ahead(g, q) ==
    /\ Exists(g, q)
    /\ \A f \in g : f[1] = "strength" /\ f[2] = q => Cardinality(Walked(g, q)) + 1 <= f[3]

\* What the walks of q rely on is kept.
KeepsCount(g, h, q) ==
    /\ Tallied(g, q) => Tallied(h, q)
    /\ Ahead(g, q) => Ahead(h, q)
    /\ \A m : Readied(g, q, m) => Readied(h, q, m)

LEMMA TidyWalked ==
    ASSUME NEW g, NEW h, Tidy(g, h), NEW q \in Aqueducts
    PROVE  Walked(h, q) = Walked(g, q) /\ (Exists(g, q) => Exists(h, q))
BY DEF Tidy, Walked, Lasting

LEMMA TidyTallied ==
    ASSUME NEW g, NEW h, Tidy(g, h), NEW q \in Aqueducts
    PROVE  KeepsCount(g, h, q)
<1>1. Walked(h, q) = Walked(g, q) /\ (Exists(g, q) => Exists(h, q))
  BY TidyWalked
<1>2. Exists(g, q) => \A f \in h : f[1] = "strength" /\ f[2] = q => f \in g
  BY DEF Tidy
<1>3. ASSUME Tallied(g, q) PROVE Tallied(h, q)
  <2>1. ASSUME NEW f \in h, f[1] = "strength", f[2] = q
        PROVE  Cardinality(Walked(h, q)) <= f[3]
    <3>1. CASE f \in g
      BY <1>1, <1>3, <2>1, <3>1 DEF Tallied
    <3>2. CASE f[3] = 0 /\ ~ Exists(g, q)
      <4>1. Walked(g, q) = {}
        BY <1>3, <3>2 DEF Tallied
      <4> QED
        BY <1>1, <3>2, <4>1, FS_EmptySet
    <3> QED
      BY <2>1, <3>1, <3>2 DEF Tidy
  <2> QED
    BY <1>1, <1>3, <2>1 DEF Tallied
<1> QED
  BY <1>1, <1>2, <1>3 DEF KeepsCount, Ahead, Readied

\* The second step of a walk.
LEMMA RaiseCounts ==
    ASSUME NEW g \in SUBSET Facts, NEW q \in Aqueducts, NEW m \in SUBSET StrengthsOf(q),
           NEW w, \A v \in w : v[1] = "strength" /\ v[2] = q,
           \A v \in w : \E f \in m : v[3] = f[3] + 1, m # {} => w # {},
           NEW h, h = Assigned(g, q, w)
    PROVE  /\ Readied(g, q, m) => Ahead(h, q)
           /\ \A p \in Aqueducts \ {q} : KeepsCount(g, h, p)
<1>1. \A v \in w : v[1] = "strength" /\ v[2] = q
  OBVIOUS
<1>2. h = Assigned(g, q, w)
  OBVIOUS
<1>3. \A v \in w : \E f \in m : v[3] = f[3] + 1
  OBVIOUS
<1>4. m # {} => w # {}
  OBVIOUS
<1>5. \A f \in m : f[3] \in Nat
  BY DEF StrengthsOf, Facts, Edges, Columns
<1>6. \A n : Exists(h, n) <=> Exists(g, n)
  BY <1>1, <1>2 DEF Assigned, Exists
<1>7. \A p : Walked(h, p) = Walked(g, p)
  BY <1>6 DEF Walked
<1>8. ASSUME Readied(g, q, m) PROVE Ahead(h, q)
  <2>1. h = {f \in g : ~ \E v \in w : f[1] = v[1] /\ f[2] = v[2]} \cup w
    BY <1>2, <1>8 DEF Assigned, Readied
  <2>2. ASSUME NEW f \in h, f[1] = "strength", f[2] = q
        PROVE  Cardinality(Walked(g, q)) + 1 <= f[3]
    <3>1. CASE f \in w
      <4>1. PICK e \in m : f[3] = e[3] + 1
        BY <1>3, <3>1
      <4>2. Cardinality(Walked(g, q)) <= e[3] /\ e[3] \in Nat /\ Cardinality(Walked(g, q)) \in Nat
        BY <1>5, <1>8, WalkedFinite DEF Readied
      <4> QED
        BY <4>1, <4>2
    <3>2. CASE f \notin w
      <4>1. f \in g /\ w = {}
        BY <1>1, <2>1, <2>2, <3>2
      <4> QED
        BY <1>4, <1>8, <2>2, <4>1 DEF Readied
    <3> QED
      BY <3>1, <3>2
  <2> QED
    BY <1>6, <1>7, <1>8, <2>2 DEF Ahead, Readied
<1>9. ASSUME NEW p \in Aqueducts \ {q}
      PROVE  \A f : f[1] = "strength" /\ f[2] = p => (f \in h <=> f \in g)
  BY <1>1, <1>2 DEF Assigned
<1>10. ASSUME NEW p \in Aqueducts \ {q}
       PROVE  KeepsCount(g, h, p)
  <2>1. \A f : f[1] = "strength" /\ f[2] = p => (f \in h <=> f \in g)
    BY <1>9
  <2>2. Tallied(g, p) => Tallied(h, p)
    BY <1>6, <1>7, <2>1 DEF Tallied
  <2>3. Ahead(g, p) => Ahead(h, p)
    BY <1>6, <1>7, <2>1 DEF Ahead
  <2>4. \A n : Readied(g, p, n) => Readied(h, p, n)
    BY <1>6, <1>7, <2>1 DEF Readied
  <2> QED
    BY <2>2, <2>3, <2>4 DEF KeepsCount
<1> QED
  BY <1>8, <1>10

\* The third.
LEMMA RecordCounts ==
    ASSUME NEW g \in SUBSET Facts, NEW m \in Moves, NEW h, h = Created(g, m, {})
    PROVE  LET q == Aqueduct(m[1], m[2])
           IN  /\ Ahead(g, q) => Tallied(h, q)
               /\ \A p \in Aqueducts \ {q} : KeepsCount(g, h, p)
<1> DEFINE q == Aqueduct(m[1], m[2])
<1>1. \A n : Exists(h, n) <=> Exists(g, n) \/ n = m
  BY DEF Created, Exists
<1>2. \A f : f[1] = "strength" => (f \in h <=> f \in g)
  BY NodeFact DEF Created
<1>3. \A p : p # q => Walked(h, p) = Walked(g, p)
  BY <1>1 DEF Walked
<1>4. Walked(h, q) = Walked(g, q) \cup {m}
  BY <1>1 DEF Walked
<1>5. \A p \in Aqueducts : Exists(h, p) <=> Exists(g, p)
  BY <1>1, NodeKinds
<1> HIDE DEF q
<1>6. ASSUME Ahead(g, q) PROVE Tallied(h, q)
  <2>1. Cardinality(Walked(h, q)) <= Cardinality(Walked(g, q)) + 1
    <3>1. IsFiniteSet(Walked(g, q)) /\ Cardinality(Walked(g, q)) \in Nat
      BY WalkedFinite
    <3> QED
      BY <1>4, <3>1, FS_AddElement
  <2>2. Cardinality(Walked(h, q)) \in Nat /\ Cardinality(Walked(g, q)) \in Nat
    BY WalkedFinite
  <2>3. ASSUME NEW f \in h, f[1] = "strength", f[2] = q
        PROVE  Cardinality(Walked(h, q)) <= f[3]
    <3>1. f \in g /\ f[3] \in Nat
      BY <1>2, <2>3 DEF Facts, Edges, Columns
    <3> QED
      BY <1>6, <2>1, <2>2, <2>3, <3>1 DEF Ahead
  <2> QED
    BY <1>1, <1>6, <2>3 DEF Ahead, Tallied
<1>7. ASSUME NEW p \in Aqueducts \ {q}
      PROVE  KeepsCount(g, h, p)
  <2>1. Walked(h, p) = Walked(g, p) /\ (Exists(h, p) <=> Exists(g, p))
    BY <1>3, <1>5
  <2> QED
    BY <1>2, <2>1 DEF KeepsCount, Tallied, Ahead, Readied
<1> QED
  BY <1>6, <1>7 DEF q

-----------------------------------------------------------------------------
\* The places of any walk are told apart by the number of steps left.
LEMMA WalkLengths ==
    ASSUME NEW v \in Scriptable, Walks(v), NEW s
    PROVE  LET n == Len(Recording(v))
           IN  /\ n \in Nat /\ (IsNavigation(v) => n = 2)
               /\ Quieted(v, s) => Len(s) \in Nat /\ Len(s) > n + 1
               /\ s = <<Raise(Way(v))>> \o Recording(v) => Len(s) = n + 1
               /\ s = <<>> => Len(s) = 0
               /\ s = <<Must(Way(v))>> => Len(s) = 1
<1> DEFINE a == ReadStrength(Way(v))
           b == Raise(Way(v))
           r == Recording(v)
           n == Len(r)
<1>1. PICK S : r \in Seq(S) /\ a \in S /\ b \in S
  <2> DEFINE d == Create(MoveOf(v), {})
             e == Must(Way(v))
             S == {a, b, d, e}
  <2>1. a \in S /\ b \in S /\ d \in S /\ e \in S
    OBVIOUS
  <2>2. r \in Seq(S)
    <3>1. r = IF IsNavigation(v) THEN <<d, e>> ELSE <<>>
      BY DEF Recording
    <3> HIDE DEF a, b, d, e, S, r
    <3> QED
      BY <2>1, <3>1
  <2> QED
    BY <2>1, <2>2
<1>2. Ending(v) = <<a, b>> \o r
  BY EndingSteps
<1>3. n \in Nat
  BY <1>1, LenProperties
<1>4. IsNavigation(v) => n = 2
  BY DEF Recording
<1> HIDE DEF a, b, r
<1>5. Len(<<b>> \o r) = n + 1 /\ Len(<<a, b>> \o r) = n + 2 /\ <<a, b>> \o r \in Seq(S)
  BY <1>1
<1>6. ASSUME Quieted(v, s) PROVE Len(s) \in Nat /\ Len(s) > n + 1
  <2>1. PICK p \in Seq(Quiet) : s = p \o (<<a, b>> \o r)
    BY <1>2, <1>6 DEF Quieted
  <2> DEFINE T == Quiet \cup S
  <2>2. p \in Seq(T) /\ <<a, b>> \o r \in Seq(T)
    BY <1>5, SeqWider
  <2> HIDE DEF T
  <2>3. Len(s) = Len(p) + Len(<<a, b>> \o r) /\ Len(p) \in Nat
    BY <2>1, <2>2, ConcatProperties, LenProperties
  <2> HIDE DEF n
  <2>4. Len(s) = Len(p) + (n + 2) /\ Len(p) \in Nat
    BY <1>5, <2>3
  <2> QED
    BY <1>3, <2>4
<1>7. s = <<>> => Len(s) = 0
  OBVIOUS
<1>8. s = <<Must(Way(v))>> => Len(s) = 1
  OBVIOUS
<1> QED
  BY <1>3, <1>4, <1>5, <1>6, <1>7, <1>8 DEF b, r

\* Where a walk is after a step.
LEMMA PlaceAfter ==
    ASSUME TInv, [Next]_vars, ~ Reload, NEW d \in Calls, Walks(op'[d])
    PROVE  \/ Quieted(op'[d], todo'[d])
           \/ /\ op'[d] = op[d] /\ todo'[d] = todo[d]
              /\ memo'[d] = memo[d] \/ AtQuiet(op[d], todo[d])
           \/ /\ op'[d] = op[d] /\ AtStrength(op[d], todo[d]) /\ todo'[d] = Tail(todo[d])
              /\ conn = "open" /\ UNCHANGED <<disk, mem>> /\ Exists(mem, Way(op[d]))
              /\ memo'[d] = {f \in mem : f[1] = "strength" /\ f[2] = Way(op[d])}
           \/ op'[d] = op[d] /\ Write(d) /\ AtRaise(op[d], todo[d], memo[d])
           \/ op'[d] = op[d] /\ IsNavigation(op[d]) /\ todo'[d] \in {<<Must(Way(op[d]))>>, <<>>}
<1>1. PICK c \in Calls :
          /\ \A e \in Calls \ {c} : op'[e] = op[e] /\ todo'[e] = todo[e] /\ memo'[e] = memo[e]
          /\ \/ op'[c] \notin Scriptable
             \/ op'[c] = op[c] /\ todo'[c] = todo[c] /\ memo'[c] = memo[c]
             \/ \E v \in Scriptable : Call(c, v)
             \/ Read(c) \/ Write(c) \/ Rejoins(c)
  BY Actor
<1>2. CallsTyped
  BY DEF TInv
<1>3. CASE d # c \/ op'[c] \notin Scriptable
              \/ (op'[c] = op[c] /\ todo'[c] = todo[c] /\ memo'[c] = memo[c])
  BY <1>1, <1>3 DEF Walks
<1>4. ASSUME NEW v \in Scriptable, Call(d, v) PROVE Quieted(op'[d], todo'[d])
  <2>1. op'[d] = v /\ todo'[d] = Script(v)
    BY <1>4, CallPlace
  <2> QED
    BY <2>1, ScriptShape
<1>5. CASE Read(d)
  <2>1. /\ todo[d] # <<>> /\ op'[d] = op[d] /\ conn = "open" /\ UNCHANGED <<disk, mem>>
        /\ Head(todo[d]).do \in {"probe", "must", "row", "edges", "strength"}
    BY <1>5 DEF Read, NextStep, Usable, graphs
  <2>2. CASE AtMust(op[d], todo[d])
    <3>1. Head(todo[d]).do = "must"
      BY <2>2, AtDo
    <3>2. todo'[d] = Tail(todo[d])
      BY <1>2, <1>5, <3>1 DEF Read, NextStep, CallsTyped
    <3> QED
      BY <2>1, <2>2, <3>2 DEF AtMust
  <2>3. CASE AtStrength(op[d], todo[d])
    <3>1. Head(todo[d]).do = "strength" /\ Head(todo[d]).node = Way(op[d])
      BY <2>3, AtDo
    <3>2. /\ todo'[d] = Tail(todo[d]) /\ Exists(mem, Head(todo[d]).node)
          /\ memo'[d] = {f \in mem : f[1] = "strength" /\ f[2] = Head(todo[d]).node}
      BY <1>2, <1>5, <3>1 DEF Read, NextStep, CallsTyped
    <3>3. /\ Exists(mem, Way(op[d]))
          /\ memo'[d] = {f \in mem : f[1] = "strength" /\ f[2] = Way(op[d])}
      BY <3>1, <3>2
    <3> QED
      BY <2>1, <2>3, <3>2, <3>3
  <2>4. CASE AtQuiet(op[d], todo[d])
    <3>1. Head(todo[d]) \in Quiet
      BY <2>4 DEF AtQuiet
    <3>2. \/ todo'[d] = Tail(todo[d])
          \/ \E t \in Seq(Quiet) : todo'[d] = t \o Tail(todo[d])
      BY <1>2, <1>5, <3>1, QuietFields DEF Read, NextStep, CallsTyped
    <3> QED
      BY <2>1, <2>4, <3>2 DEF AtQuiet
  <2> QED
    BY <1>2, <2>1, <2>2, <2>3, <2>4, PlaceOf, AtDo DEF Lifecycle
<1>6. CASE Write(d)
  <2>1. op'[d] = op[d] /\ todo'[d] = Tail(todo[d])
    BY <1>6, WriteKinds
  <2>2. AtQuiet(op[d], todo[d]) => Quieted(op'[d], todo'[d])
    BY <2>1 DEF AtQuiet
  <2>3. AtRecord(op[d], todo[d], memo[d]) =>
            IsNavigation(op[d]) /\ todo'[d] = <<Must(Way(op[d]))>>
    BY <2>1 DEF AtRecord
  <2> QED
    BY <1>6, <2>1, <2>2, <2>3, WriteKinds
<1>7. CASE Rejoins(d)
  <2>1. op'[d] = op[d] /\ AtQuiet(op[d], todo[d])
    BY <1>7, RejoinsTyped DEF Rejoins
  <2>2. todo'[d] = todo[d] \/ todo'[d] = Tail(todo[d])
    BY <1>2, <1>7 DEF Rejoins, CallsTyped
  <2> QED
    BY <2>1, <2>2 DEF AtQuiet
<1> QED
  BY <1>1, <1>3, <1>4, <1>5, <1>6, <1>7

\* A walk comes to the second step by reading, and past it by raising.
LEMMA NewlyRaising ==
    ASSUME TInv, [Next]_vars, ~ Reload, NEW d \in Calls, Raising(op'[d], todo'[d], memo'[d])
    PROVE  /\ op'[d] = op[d] /\ op[d] \in Scriptable
           /\ \/ Raising(op[d], todo[d], memo[d]) /\ memo'[d] = memo[d] /\ todo'[d] = todo[d]
              \/ /\ conn = "open" /\ UNCHANGED <<disk, mem>> /\ Exists(mem, Way(op[d]))
                 /\ memo'[d] = {f \in mem : f[1] = "strength" /\ f[2] = Way(op[d])}
<1> DEFINE v == op'[d]
           s == todo'[d]
<1>1. v \in Scriptable /\ Walks(v) /\ s = <<Raise(Way(v))>> \o Recording(v)
  BY DEF Raising, Walks
<1> DEFINE n == Len(Recording(v))
<1>2. /\ n \in Nat /\ (IsNavigation(v) => n = 2) /\ Len(s) = n + 1
      /\ Quieted(v, s) => Len(s) > n + 1
      /\ s = <<>> => Len(s) = 0
      /\ s = <<Must(Way(v))>> => Len(s) = 1
  BY <1>1, WalkLengths
<1>3. /\ Recording(v) = <<>> \/ IsNavigation(v)
      /\ s # Recording(v) /\ ~ Quieted(v, s)
      /\ ~ (IsNavigation(v) /\ s \in {<<Must(Way(v))>>, <<>>})
  <2>1. Recording(v) = <<>> \/ IsNavigation(v)
    BY DEF Recording
  <2>2. s # Recording(v)
    BY <1>2
  <2> HIDE DEF n, v, s
  <2>3. ~ Quieted(v, s) /\ ~ (IsNavigation(v) /\ s \in {<<Must(Way(v))>>, <<>>})
    BY <1>2
  <2> QED
    BY <2>1, <2>2, <2>3
<1>4. AtQuiet(op[d], todo[d]) /\ op'[d] = op[d] /\ todo'[d] = todo[d] => FALSE
  <2>1. Head(s) = Raise(Way(v)) /\ Raise(Way(v)).do = "raise"
    BY <1>1, EndingSteps DEF Raise
  <2> QED
    BY <2>1 DEF AtQuiet, QuietDo
<1>5. Write(d) /\ AtRaise(op[d], todo[d], memo[d]) /\ op'[d] = op[d] => FALSE
  BY <1>3, WriteKinds DEF AtRaise
<1> QED
  BY <1>1, <1>3, <1>4, <1>5, PlaceAfter

LEMMA NewlyRaised ==
    ASSUME TInv, [Next]_vars, ~ Reload, NEW d \in Calls, Raised(op'[d], todo'[d], memo'[d]),
           IsNavigation(op'[d])
    PROVE  /\ op'[d] = op[d] /\ op[d] \in Scriptable
           /\ \/ Raised(op[d], todo[d], memo[d]) /\ todo'[d] = todo[d]
              \/ Write(d) /\ AtRaise(op[d], todo[d], memo[d])
<1> DEFINE v == op'[d]
           s == todo'[d]
           n == Len(Recording(v))
<1>1. v \in Scriptable /\ Walks(v) /\ s = Recording(v)
  BY DEF Raised, Walks
<1>2. /\ n = 2 /\ Len(s) = n
      /\ Quieted(v, s) => Len(s) > n + 1
      /\ s = <<>> => Len(s) = 0
      /\ s = <<Must(Way(v))>> => Len(s) = 1
      /\ s = <<Raise(Way(v))>> \o Recording(v) => Len(s) = n + 1
  BY <1>1, WalkLengths
<1>3. /\ s # <<Raise(Way(v))>> \o Recording(v) /\ ~ Quieted(v, s)
      /\ s \notin {<<Must(Way(v))>>, <<>>}
  <2> HIDE DEF n, v, s
  <2> QED
    BY <1>2
<1>4. CallsTyped
  BY DEF TInv
<1>5. AtStrength(op[d], todo[d]) /\ op'[d] = op[d] /\ todo'[d] = Tail(todo[d]) => FALSE
  BY <1>3 DEF AtStrength
<1>6. op'[d] = op[d] /\ todo'[d] = todo[d] => Raised(op[d], todo[d], memo[d])
  BY <1>4 DEF Raised, CallsTyped
<1> QED
  BY <1>1, <1>3, <1>5, <1>6, PlaceAfter

-----------------------------------------------------------------------------
\* Two calls that strengthen one aqueduct are known to overlap.
Overlaps ==
    \A c, d \in Calls, q \in Aqueducts :
        c # d /\ Strengthens(op[c], q) /\ Strengthens(op[d], q) => q \in overlapped

LEMMA WayStrengthened ==
    ASSUME NEW v
    PROVE  /\ Walks(v) => Strengthens(v, Way(v)) /\ Way(v) \in Aqueducts
           /\ v \in Ops /\ v \notin Scriptable => \A q : ~ Strengthens(v, q)
<1>1. Walks(v) => Strengthens(v, Way(v)) /\ Way(v) \in Aqueducts
  BY ScriptShape DEF Walks, Strengthens, Way, IsNavigation, IsMove
<1>2. ASSUME v \in Ops, v \notin Scriptable PROVE \A q : ~ Strengthens(v, q)
  <2>1. v \in {Idle, <<"open">>, <<"close">>, <<"syncfs">>}
    BY <1>2, OpKinds
  <2>2. v[1] \in {"idle", "open", "close", "syncfs"}
    BY <2>1 DEF Idle
  <2> QED
    BY <2>2 DEF Strengthens
<1> QED
  BY <1>1, <1>2

LEMMA OverlapsInit == Init => Overlaps
<1> SUFFICES ASSUME Init PROVE Overlaps
  OBVIOUS
<1>1. \A c \in Calls : op[c] = Idle
  BY DEF Init
<1>2. \A q : ~ Strengthens(Idle, q)
  BY WayStrengthened, OpKinds DEF Idle
<1> QED
  BY <1>1, <1>2 DEF Overlaps

LEMMA OverlappedGrows == [Next]_vars => overlapped \subseteq overlapped'
<1>1. \A c : Step(c) => UNCHANGED overlapped
  BY DEF Step, Mount, Load, CreateTables, TablesDone, Disconnect, Shut, Save, Unmount, Goes,
         Read, Write, Rejoins, Refused, Rejected, Resolve
<1>2. \A c, v : Call(c, v) => overlapped \subseteq overlapped'
  BY DEF Call
<1>3. (\E v \in AllVerbs : Verb(v)) \/ (\E c \in Clicks, r \in Rooms : Navigate(c, r)) =>
          overlapped \subseteq overlapped'
  BY <1>2 DEF Verb, Navigate
<1>4. \A c : Open(c) \/ Fail(c) => UNCHANGED overlapped
  BY DEF Open, Fail, Rejected
<1>5. Close \/ SyncOut \/ Reload \/ UNCHANGED vars => UNCHANGED overlapped
  BY DEF Close, SyncOut, Reload, vars
<1> QED
  BY <1>1, <1>3, <1>4, <1>5 DEF Next

LEMMA OverlapsNext == TInv /\ Overlaps /\ [Next]_vars => Overlaps'
<1> SUFFICES ASSUME TInv, Overlaps, [Next]_vars PROVE Overlaps'
  OBVIOUS
<1>1. TInv' /\ overlapped \subseteq overlapped'
  BY TInvNext, OverlappedGrows
<1>2. CASE Reload
  <2>1. \A c \in Calls : op'[c] = Idle
    BY <1>2 DEF Reload
  <2>2. \A q : ~ Strengthens(Idle, q)
    BY WayStrengthened, OpKinds DEF Idle
  <2> QED
    BY <2>1, <2>2 DEF Overlaps
<1>3. CASE ~ Reload
  <2>1. PICK e \in Calls :
            /\ \A d \in Calls \ {e} : op'[d] = op[d]
            /\ op'[e] \notin Scriptable \/ op'[e] = op[e] \/ \E v \in Scriptable : Call(e, v)
    BY <1>3, Actor DEF Read, Write, Rejoins
  <2>2. CASE op'[e] \notin Scriptable
    <3>1. \A q : ~ Strengthens(op'[e], q)
      BY <1>1, <2>2, WayStrengthened DEF TInv, CallsTyped
    <3> QED
      BY <1>1, <2>1, <3>1 DEF Overlaps
  <2>3. CASE op'[e] = op[e]
    BY <1>1, <2>1, <2>3 DEF Overlaps
  <2>4. ASSUME NEW v \in Scriptable, Call(e, v) PROVE Overlaps'
    <3>1. op'[e] = v
      BY <2>4, CallPlace
    <3>2. \A q \in Aqueducts : (Strengthens(v, q) /\ \E d \in Calls \ {e} : Strengthens(op[d], q))
                                   => q \in overlapped'
      BY <2>4 DEF Call
    <3>3. ASSUME NEW c \in Calls, NEW d \in Calls, NEW q \in Aqueducts, c # d,
                 Strengthens(op'[c], q), Strengthens(op'[d], q)
          PROVE  q \in overlapped'
      <4>1. CASE c # e /\ d # e
        BY <1>1, <2>1, <3>3, <4>1 DEF Overlaps
      <4>2. CASE c = e \/ d = e
        BY <2>1, <3>1, <3>2, <3>3, <4>2
      <4> QED
        BY <4>1, <4>2
    <3> QED
      BY <3>3 DEF Overlaps
  <2> QED
    BY <2>1, <2>2, <2>3, <2>4
<1> QED
  BY <1>2, <1>3

-----------------------------------------------------------------------------
\* Both graphs have counted their walks, and a walk on its way will have.
Tallies ==
    \A q \in Aqueducts \ overlapped :
        /\ Tallied(disk, q) /\ Tallied(mem, q)
        /\ \A c \in Calls : q = Way(op[c]) =>
              /\ Raising(op[c], todo[c], memo[c]) => Readied(Current, q, memo[c])
              /\ Raised(op[c], todo[c], memo[c]) /\ IsNavigation(op[c]) => Ahead(Current, q)

LEMMA NothingTallied == \A q : Tallied({}, q)
BY FS_EmptySet DEF Tallied, Walked, Exists

LEMMA TalliesInit == Init => Tallies
<1> SUFFICES ASSUME Init PROVE Tallies
  OBVIOUS
<1>1. \A c \in Calls : op[c] = Idle
  BY DEF Init
<1>2. \A s, m : ~ Raising(Idle, s, m) /\ ~ Raised(Idle, s, m)
  BY OpKinds DEF Raising, Raised, Walks
<1> QED
  BY <1>1, <1>2, NothingTallied, StoreSeedsAssumption DEF Init, Tallies

\* What a query that writes does to the count of one aqueduct and to the calls
\* that walk it, the one that writes excepted.
LEMMA WrittenTallied ==
    ASSUME TInv, Session, Overlaps, Tallies, NEW e \in Calls,
           Write(e) \/ Rejoins(e) \/ CreateTables(e), NEW q \in Aqueducts \ overlapped
    PROVE  /\ Tallied(mem', q)
           /\ \A c \in Calls \ {e} : q = Way(op[c]) /\ Walks(op[c]) => KeepsCount(mem, mem', q)
           /\ Tidy(mem, mem') => KeepsCount(mem, mem', q)
           /\ Write(e) /\ AtRaise(op[e], todo[e], memo[e]) /\ q = Way(op[e]) => Ahead(mem', q)
<1>1. conn = "open" /\ Loaded /\ Tallied(mem, q) /\ mem \in SUBSET Facts
  BY WriteKinds, TidyWrites DEF Loaded, Tallies, TInv, GraphsTyped
<1>2. Exists(Current, q) => Current = mem
  BY <1>1, CurrentLoaded DEF Lasting
<1>3. \A c \in Calls \ {e} : Walks(op[e]) /\ Walks(op[c]) => q # Way(op[e]) \/ q # Way(op[c])
  BY WayStrengthened DEF Overlaps
<1>4. Tidy(mem, mem') => Tallied(mem', q) /\ KeepsCount(mem, mem', q)
  BY <1>1, TidyTallied DEF KeepsCount
<1>5. CASE Tidy(mem, mem') /\ ~ (Write(e) /\ AtRaise(op[e], todo[e], memo[e]))
  BY <1>4, <1>5
<1>6. CASE Write(e) /\ AtRaise(op[e], todo[e], memo[e])
  <2> DEFINE p == Way(op[e])
  <2>1. /\ mem' = Assigned(mem, p, {<<"strength", p, f[3] + 1>> : f \in memo[e]})
        /\ memo[e] \in SUBSET StrengthsOf(p) /\ Walks(op[e]) /\ p \in Aqueducts
    <3>1. /\ memo[e] \in SUBSET StrengthsOf(p) /\ Walks(op[e])
      BY <1>6 DEF AtRaise, Raising
    <3>2. NextStep(e).do = "raise" /\ NextStep(e).node = p
      BY <1>6, AtDo DEF NextStep
    <3>3. mem' = Assigned(mem, NextStep(e).node,
                          {<<"strength", NextStep(e).node, f[3] + 1>> : f \in memo[e]})
      BY <1>6, <3>2, WrittenBy DEF Write
    <3> QED
      BY <3>1, <3>2, <3>3, WayStrengthened
  <2> HIDE DEF p
  <2>2. /\ Readied(mem, p, memo[e]) => Ahead(mem', p)
        /\ \A x \in Aqueducts \ {p} : KeepsCount(mem, mem', x)
    <3> DEFINE m == memo[e]
               w == {<<"strength", p, f[3] + 1>> : f \in m}
    <3>1. \A v \in w : v[1] = "strength" /\ v[2] = p
      OBVIOUS
    <3>2. \A v \in w : \E f \in m : v[3] = f[3] + 1
      OBVIOUS
    <3>3. m # {} => w # {}
      OBVIOUS
    <3>4. PICK h : h = mem'
      OBVIOUS
    <3>5. p \in Aqueducts /\ m \in SUBSET StrengthsOf(p) /\ h = Assigned(mem, p, w)
      BY <2>1, <3>4
    <3> HIDE DEF m, w
    <3>6. /\ Readied(mem, p, m) => Ahead(h, p)
          /\ \A x \in Aqueducts \ {p} : KeepsCount(mem, h, x)
      BY <1>1, <3>1, <3>2, <3>3, <3>5, RaiseCounts
    <3> QED
      BY <3>4, <3>6 DEF m
  <2>3. CASE q = p
    <3>1. Readied(Current, q, memo[e])
      BY <1>6, <2>3 DEF Tallies, AtRaise, p
    <3>2. Ahead(mem', q)
      BY <1>2, <2>2, <2>3, <3>1 DEF Readied
    <3>3. Tallied(mem', q)
      <4>1. mem' \in SUBSET Facts
        BY <1>6, WriteTyped
      <4>2. \A f \in mem' : f[1] = "strength" => f[3] \in Nat
        BY <4>1 DEF Facts, Edges, Columns
      <4>3. Cardinality(Walked(mem', q)) \in Nat
        BY WalkedFinite
      <4> QED
        BY <3>2, <4>2, <4>3 DEF Ahead, Tallied
    <3> QED
      BY <1>3, <1>4, <2>1, <2>3, <3>2, <3>3 DEF p
  <2>4. CASE q # p
    BY <1>1, <2>2, <2>4 DEF p, KeepsCount
  <2> QED
    BY <2>3, <2>4
<1>7. CASE Write(e) /\ AtRecord(op[e], todo[e], memo[e]) /\ mem' = Created(mem, MoveOf(op[e]), {})
  <2> DEFINE m == MoveOf(op[e])
             p == Aqueduct(m[1], m[2])
  <2>1. m \in Moves /\ p = Way(op[e]) /\ Walks(op[e]) /\ IsNavigation(op[e])
    BY <1>7, ScriptShape DEF AtRecord, MoveOf, Way, Walks
  <2>2. /\ Ahead(mem, p) => Tallied(mem', p)
        /\ \A x \in Aqueducts \ {p} : KeepsCount(mem, mem', x)
    BY <1>1, <1>7, <2>1, RecordCounts
  <2>3. ~ AtRaise(op[e], todo[e], memo[e])
    BY <1>7, AtDo
  <2> HIDE DEF m, p
  <2>4. CASE q = p
    <3>1. Ahead(Current, q)
      BY <1>7, <2>1, <2>4 DEF Tallies, AtRecord
    <3>2. Tallied(mem', q)
      BY <1>2, <2>2, <2>4, <3>1 DEF Ahead
    <3> QED
      BY <1>3, <1>4, <2>1, <2>3, <2>4, <3>2
  <2>5. CASE q # p
    BY <1>1, <2>2, <2>3, <2>5 DEF KeepsCount
  <2> QED
    BY <2>4, <2>5
<1>8. CASE Rejoins(e) \/ CreateTables(e)
  <2>1. Tidy(mem, mem') /\ ~ Write(e)
    <3>1. Tidy(mem, mem')
      BY <1>8, TidyWrites
    <3>2. Write(e) => NextStep(e).do \in {"create", "join", "unjoin", "drop", "assign", "put", "raise"}
      BY DEF Write
    <3>3. NextStep(e).do \in {"rejoin", "ddl"}
      BY <1>8 DEF Rejoins, CreateTables, Waiting
    <3> QED
      BY <3>1, <3>2, <3>3
  <2> QED
    BY <1>5, <2>1
<1>9. Write(e) => \/ Tidy(mem, mem') \/ AtRaise(op[e], todo[e], memo[e])
                  \/ AtRecord(op[e], todo[e], memo[e]) /\ mem' = Created(mem, MoveOf(op[e]), {})
  BY WriteKinds
<1> QED
  BY <1>5, <1>6, <1>7, <1>8, <1>9

\* The other steps keep the counts, and move no graph a walk relies on.
LEMMA KeptTallied ==
    ASSUME TInv, Session, Tallies, [Next]_vars, ~ Reload,
           \A e \in Calls : ~ Write(e) /\ ~ Rejoins(e) /\ ~ CreateTables(e),
           NEW q \in Aqueducts \ overlapped
    PROVE  /\ Tallied(disk', q) /\ Tallied(mem', q)
           /\ Exists(Current, q) => Current' = Current
<1>1. disk' \in {disk, mem} /\ mem' \in {mem, disk, {}}
  BY GraphMoves DEF Load, Save, Unmount
<1>2. Tallied(disk, q) /\ Tallied(mem, q) /\ Tallied({}, q)
  BY NothingTallied DEF Tallies
<1>3. Exists(Current, q) => Current' = Current
  BY CurrentKept DEF Lasting
<1> QED
  BY <1>1, <1>2, <1>3

\* A walk that waits finds the graph as it was, or counting as it did.
LEMMA WaitingKept ==
    ASSUME TInv, Session, Overlaps, Tallies, [Next]_vars, ~ Reload,
           NEW c \in Calls, Walks(op[c]), NEW q \in Aqueducts \ overlapped, q = Way(op[c]),
           todo'[c] = todo[c], Exists(Current, q)
    PROVE  KeepsCount(Current, Current', q)
<1>1. CASE \A e \in Calls : ~ Write(e) /\ ~ Rejoins(e) /\ ~ CreateTables(e)
  <2>1. Current' = Current
    BY <1>1, KeptTallied
  <2> QED
    BY <2>1 DEF KeepsCount
<1>2. ASSUME NEW e \in Calls, Write(e) \/ Rejoins(e) \/ CreateTables(e)
      PROVE  KeepsCount(Current, Current', q)
  <2>1. /\ conn = "open" /\ disk' = disk /\ (Write(e) => todo[e] # <<>> /\ todo'[e] = Tail(todo[e]))
        /\ Rejoins(e) \/ CreateTables(e) => Tidy(mem, mem')
    BY <1>2, WriteKinds, TidyWrites
  <2>2. Lasting(mem) \subseteq Lasting(mem')
    BY <1>2, WriteLasts
  <2>3. Current = mem /\ Current' = mem'
    BY <2>1, <2>2, CurrentWritten DEF Lasting
  <2>4. /\ \A d \in Calls \ {e} : q = Way(op[d]) /\ Walks(op[d]) => KeepsCount(mem, mem', q)
        /\ Tidy(mem, mem') => KeepsCount(mem, mem', q)
    BY <1>2, WrittenTallied
  <2>5. c = e => ~ Write(e)
    <3>1. todo[c] \in Seq(Steps)
      BY TInvTypes DEF TypeOK
    <3>2. \A s \in Seq(Steps) : s # <<>> => Tail(s) # s
      OBVIOUS
    <3> QED
      BY <2>1, <3>1, <3>2
  <2> QED
    BY <1>2, <2>1, <2>3, <2>4, <2>5
<1> QED
  BY <1>1, <1>2

LEMMA TalliesNext == TInv /\ Session /\ Overlaps /\ Tallies /\ [Next]_vars => Tallies'
<1> SUFFICES ASSUME TInv, Session, Overlaps, Tallies, [Next]_vars PROVE Tallies'
  OBVIOUS
<1>1. overlapped \subseteq overlapped'
  BY OverlappedGrows
<1>2. CASE Reload
  <2>1. mem' = {} /\ disk' = disk /\ \A c \in Calls : op'[c] = Idle
    BY <1>2 DEF Reload
  <2>2. \A s, m : ~ Raising(Idle, s, m) /\ ~ Raised(Idle, s, m)
    BY OpKinds DEF Raising, Raised, Walks
  <2> QED
    BY <1>1, <2>1, <2>2, NothingTallied DEF Tallies
<1>3. CASE ~ Reload
  <2> SUFFICES ASSUME NEW q \in Aqueducts \ overlapped'
               PROVE  /\ Tallied(disk', q) /\ Tallied(mem', q)
                      /\ \A c \in Calls : q = Way(op'[c]) =>
                            /\ Raising(op'[c], todo'[c], memo'[c]) => Readied(Current', q, memo'[c])
                            /\ Raised(op'[c], todo'[c], memo'[c]) /\ IsNavigation(op'[c])
                                  => Ahead(Current', q)
    BY DEF Tallies
  <2>1. q \in Aqueducts \ overlapped
    BY <1>1
  <2>2. Tallied(disk', q) /\ Tallied(mem', q)
    <3>1. CASE \A e \in Calls : ~ Write(e) /\ ~ Rejoins(e) /\ ~ CreateTables(e)
      BY <1>3, <2>1, <3>1, KeptTallied
    <3>2. ASSUME NEW e \in Calls, Write(e) \/ Rejoins(e) \/ CreateTables(e)
          PROVE  Tallied(disk', q) /\ Tallied(mem', q)
      <4>1. disk' = disk
        BY <3>2, WriteKinds, TidyWrites
      <4>2. Tallied(mem', q)
        BY <2>1, <3>2, WrittenTallied
      <4> QED
        BY <2>1, <4>1, <4>2 DEF Tallies
    <3> QED
      BY <3>1, <3>2
  <2>3. ASSUME NEW c \in Calls, q = Way(op'[c]), Raising(op'[c], todo'[c], memo'[c])
        PROVE  Readied(Current', q, memo'[c])
    <3>1. op'[c] = op[c] /\ Walks(op[c])
      BY <1>3, <2>3, NewlyRaising DEF Raising
    <3>2. CASE Raising(op[c], todo[c], memo[c]) /\ memo'[c] = memo[c] /\ todo'[c] = todo[c]
      <4>1. Readied(Current, q, memo[c])
        BY <2>1, <2>3, <3>1, <3>2 DEF Tallies
      <4>2. KeepsCount(Current, Current', q)
        BY <1>3, <2>1, <2>3, <3>1, <3>2, <4>1, WaitingKept DEF Readied
      <4> QED
        BY <3>2, <4>1, <4>2 DEF KeepsCount
    <3>3. CASE /\ conn = "open" /\ UNCHANGED <<disk, mem>> /\ Exists(mem, Way(op[c]))
               /\ memo'[c] = {f \in mem : f[1] = "strength" /\ f[2] = Way(op[c])}
      <4>1. Current' = mem /\ Exists(mem, q) /\ Tallied(mem, q)
        BY <2>1, <2>3, <3>1, <3>3 DEF Current, Exists, Tallies
      <4>2. memo'[c] = {f \in mem : f[1] = "strength" /\ f[2] = q}
        BY <2>3, <3>1, <3>3
      <4> HIDE DEF Current
      <4> QED
        BY <4>1, <4>2 DEF Tallied, Readied
    <3> QED
      BY <1>3, <2>3, <3>2, <3>3, NewlyRaising
  <2>4. ASSUME NEW c \in Calls, q = Way(op'[c]), IsNavigation(op'[c]),
               Raised(op'[c], todo'[c], memo'[c])
        PROVE  Ahead(Current', q)
    <3>1. op'[c] = op[c] /\ Walks(op[c])
      BY <1>3, <2>4, NewlyRaised DEF Raised
    <3>2. CASE Raised(op[c], todo[c], memo[c]) /\ todo'[c] = todo[c]
      <4>1. Ahead(Current, q)
        BY <2>1, <2>4, <3>1, <3>2 DEF Tallies
      <4>2. KeepsCount(Current, Current', q)
        BY <1>3, <2>1, <2>4, <3>1, <3>2, <4>1, WaitingKept DEF Ahead
      <4> QED
        BY <4>1, <4>2 DEF KeepsCount
    <3>3. CASE Write(c) /\ AtRaise(op[c], todo[c], memo[c])
      <4>1. Ahead(mem', q)
        BY <2>1, <2>4, <3>1, <3>3, WrittenTallied
      <4>2. Current' = mem'
        BY <4>1 DEF Ahead, Exists, Current
      <4> QED
        BY <4>1, <4>2
    <3> QED
      BY <1>3, <2>4, <3>2, <3>3, NewlyRaised
  <2> QED
    BY <2>2, <2>3, <2>4
<1> QED
  BY <1>2, <1>3

\* Every recorded walk along an aqueduct has strengthened it once, in the graph
\* any session reads, unless two walks of it overlapped: each call reads the
\* strength, raises what it has read and records the move after that, and
\* whatever runs in between leaves the count alone.
THEOREM StoreTraversalsCounted == Spec => []TraversalsCounted
<1>1. Tallies => TraversalsCounted
  BY DEF Tallies, TraversalsCounted, Tallied, Current
<1> QED
  BY <1>1, TypeInvariant, SessionInvariant, OverlapsInit, OverlapsNext, TalliesInit, TalliesNext,
     PTL DEF Spec

-----------------------------------------------------------------------------
(***************************************************************************)
(* What a call owes and has not done yet is in the lines it has still to   *)
(* run: one of them gives the fact, no later one takes it away, and the    *)
(* nodes it needs are there before.                                        *)
(***************************************************************************)

\* What a verb does, or the kind of action it mirrors.
Kind(v) == IF v[1] = "mirrorAction" THEN v[3] ELSE v

Redoes(k) == k[1] \in {"upsertEmbedding", "deleteEmbedding", "reembed", "deleteTriple", "updateTriple"}
Crowns(k) == k[1] \in {"setMythosHead", "true-naming"}
CrownEdge(k) == <<"MYTHOS_HEAD", Palace, k[2]>>
CrownColumn(k) == <<"head", Palace, k[2]>>

\* The facts it may take away.
Hurts(k, f) ==
    IF Redoes(k) THEN f[2] = k[2] \/ (f[1] \in Labels /\ f[3] = k[2])
    ELSE /\ f[1] \in {"MYTHOS_HEAD", "head", "source", "revision", "orphaned"}
         /\ \E w \in Contract(k) : f[1] = w[1] /\ f[2] = w[2]

\* What a statement of the kind may do.
Law(k, x) ==
    /\ x.do = "create" => \A f \in x.columns : f[1] # "head"
    /\ x.do = "create" /\ k[1] = "navigate" => x.node \notin Triples
    /\ x.do = "join" => x.edge[1] \in Labels
    /\ x.do = "join" /\ x.edge[1] = "MYTHOS_HEAD" => Crowns(k) /\ x.edge = CrownEdge(k)
    /\ x.do = "unjoin" => Crowns(k) /\ x.label = "MYTHOS_HEAD" /\ x.node = Palace
    /\ x.do = "assign" => \A f \in x.values :
          /\ f[1] \in {"head", "source", "revision", "orphaned"} /\ f[2] = x.node
          /\ \A h : h[1] = f[1] /\ h[2] = f[2] => Hurts(k, h)
          /\ f[1] = "head" => Crowns(k) /\ f = CrownColumn(k)
    /\ x.do = "drop" => Redoes(k) /\ x.node = k[2]

\* What a probe that finds nothing adds: nodes before the edges they end.
Adds(k, s) ==
    /\ \A j \in 1 .. Len(s) : s[j].do \in {"create", "join"} /\ Law(k, s[j])
    /\ \A i, j \in 1 .. Len(s) :
          s[i].do = "create" /\ s[j].do = "join" /\ s[i].node \in {s[j].edge[2], s[j].edge[3]} => i < j

\* A line of a verb that recreates no inscription.
Flat(k, x) ==
    /\ x.do \in {"probe", "must", "create", "join", "unjoin", "assign", "drop", "strength", "raise"}
    /\ Law(k, x)
    /\ x.do = "probe" => x.found = <<>> /\ Adds(k, x.missing)

Lines(k, s) == \A j \in 1 .. Len(s) : Flat(k, s[j])

\* The nodes a fact needs.
Ends(f) == IF f[1] \in Labels THEN {f[2], f[3]} ELSE IF f[1] = "node" THEN {} ELSE {f[2]}

Puts(x, f) ==
    \/ x.do = "create" /\ f = <<"node", x.node>>
    \/ x.do = "join" /\ f = x.edge
    \/ x.do = "assign" /\ f \in x.values

\* What facts that were found tell of others.
Told(F, f) ==
    \/ f \in F
    \/ f[1] = "node" /\ \E e \in F : e[1] \in Labels /\ e[2] = f[2]
    \/ f[1] = "HAS_KNOWLEDGE" /\ <<"node", f[3]>> \in F

Gives(x, f) ==
    \/ Puts(x, f)
    \/ x.do = "probe" /\ Told(x.facts, f) /\ \E j \in 1 .. Len(x.missing) : Puts(x.missing[j], f)

Spares(x, f) ==
    /\ x.do = "unjoin" => ~ (f[1] = x.label /\ f[2] = x.node)
    /\ x.do = "assign" => f \in x.values \/ ~ \E v \in x.values : f[1] = v[1] /\ f[2] = v[2]
    /\ x.do = "drop" => f[2] # x.node /\ (f[1] \in Labels => f[3] # x.node)

\* Node n is there once line i has run.
Comes(s, i, n, g) ==
    \/ Exists(g, n) /\ \A j \in 1 .. i : Spares(s[j], <<"node", n>>)
    \/ \E k \in 1 .. i : /\ Gives(s[k], <<"node", n>>)
                         /\ \A j \in k + 1 .. i : Spares(s[j], <<"node", n>>)

\* Line i gives f for good; the edge of a triple only if the triple is new.
Given(s, i, f, g) ==
    /\ Gives(s[i], f) /\ \A j \in i + 1 .. Len(s) : Spares(s[j], f)
    /\ \A n \in Ends(f) : Comes(s, i, n, g)
    /\ f[1] = "HAS_KNOWLEDGE" /\ s[i].do = "probe" =>
          ~ Exists(g, f[3]) /\ \A j \in 1 .. i - 1 : s[j].do = "drop"

Ready(s, f, g) ==
    \/ f \in g /\ \A j \in 1 .. Len(s) : Spares(s[j], f)
    \/ \E i \in 1 .. Len(s) : Given(s, i, f, g)

LEMMA ReadyStays ==
    ASSUME NEW s, NEW f, NEW g, NEW h, f \in g => f \in h,
           \A n \in Ends(f) : Exists(g, n) => Exists(h, n),
           f[1] = "HAS_KNOWLEDGE" => (Exists(h, f[3]) => Exists(g, f[3])),
           Ready(s, f, g)
    PROVE  Ready(s, f, h)
<1>1. CASE f \in g /\ \A j \in 1 .. Len(s) : Spares(s[j], f)
  BY <1>1 DEF Ready
<1>2. ASSUME NEW i \in 1 .. Len(s), Given(s, i, f, g) PROVE Ready(s, f, h)
  <2>1. \A n \in Ends(f) : Comes(s, i, n, h)
    BY <1>2 DEF Given, Comes
  <2>2. Given(s, i, f, h)
    BY <1>2, <2>1 DEF Given
  <2> QED
    BY <2>2 DEF Ready
<1> QED
  BY <1>1, <1>2 DEF Ready

LEMMA TailPlaces ==
    ASSUME NEW S, NEW s \in Seq(S), s # <<>>
    PROVE  /\ Len(s) \in Nat \ {0} /\ Head(s) = s[1]
           /\ Tail(s) \in Seq(S) /\ Len(Tail(s)) = Len(s) - 1
           /\ \A j \in 1 .. Len(s) - 1 : Tail(s)[j] = s[j + 1]
OBVIOUS

LEMMA JoinedPlaces ==
    ASSUME NEW S, NEW T, NEW m \in Seq(S), NEW t \in Seq(T)
    PROVE  /\ Len(m) \in Nat /\ Len(t) \in Nat /\ Len(m \o t) = Len(m) + Len(t)
           /\ \A j \in 1 .. Len(m) : (m \o t)[j] = m[j]
           /\ \A j \in 1 .. Len(t) : (m \o t)[Len(m) + j] = t[j]
<1> DEFINE U == S \cup T
<1>1. m \in Seq(U) /\ t \in Seq(U)
  BY SeqWider
<1> HIDE DEF U
<1> QED
  BY <1>1, ConcatProperties

\* A step that is no probe and has run.
LEMMA ComesAfter ==
    ASSUME NEW S, NEW s \in Seq(S), s # <<>>, NEW g, NEW h,
           \A e \in g : e[1] # "strength" /\ Spares(s[1], e) => e \in h,
           \A n : Gives(s[1], <<"node", n>>) => Exists(h, n),
           NEW i \in 1 .. Len(s), NEW n, Comes(s, i, n, g)
    PROVE  /\ i = 1 => Exists(h, n)
           /\ i > 1 => Comes(Tail(s), i - 1, n, h)
<1>1. Len(s) \in Nat /\ \A j \in 1 .. Len(s) - 1 : Tail(s)[j] = s[j + 1]
  BY TailPlaces
<1>2. i \in Nat /\ i >= 1 /\ 1 \in 1 .. i
  BY <1>1
<1>3. <<"node", n>>[1] # "strength"
  OBVIOUS
<1>4. CASE Exists(g, n) /\ \A j \in 1 .. i : Spares(s[j], <<"node", n>>)
  <2>1. Exists(h, n)
    BY <1>2, <1>3, <1>4 DEF Exists
  <2>2. \A j \in 1 .. i - 1 : Spares(Tail(s)[j], <<"node", n>>)
    BY <1>1, <1>2, <1>4
  <2> QED
    BY <2>1, <2>2 DEF Comes
<1>5. ASSUME NEW k \in 1 .. i, Gives(s[k], <<"node", n>>),
             \A j \in k + 1 .. i : Spares(s[j], <<"node", n>>)
      PROVE  (i = 1 => Exists(h, n)) /\ (i > 1 => Comes(Tail(s), i - 1, n, h))
  <2>1. CASE k = 1
    <3>1. Exists(h, n)
      BY <1>5, <2>1
    <3>2. \A j \in 1 .. i - 1 : Spares(Tail(s)[j], <<"node", n>>)
      BY <1>1, <1>2, <1>5, <2>1
    <3> QED
      BY <3>1, <3>2 DEF Comes
  <2>2. CASE k > 1
    <3>1. k - 1 \in 1 .. i - 1 /\ Gives(Tail(s)[k - 1], <<"node", n>>)
      BY <1>1, <1>2, <1>5, <2>2
    <3>2. \A j \in (k - 1) + 1 .. i - 1 : Spares(Tail(s)[j], <<"node", n>>)
      <4>1. ASSUME NEW j \in (k - 1) + 1 .. i - 1 PROVE Spares(Tail(s)[j], <<"node", n>>)
        <5>1. j \in 1 .. Len(s) - 1 /\ j + 1 \in k + 1 .. i
          BY <1>2, <1>5, <2>2, <4>1
        <5>2. Tail(s)[j] = s[j + 1]
          BY <1>1, <5>1
        <5> QED
          BY <1>5, <5>1, <5>2
      <4> QED
        BY <4>1
    <3>3. i # 1
      BY <1>2, <2>2
    <3> QED
      BY <3>1, <3>2, <3>3 DEF Comes
  <2> QED
    BY <1>2, <2>1, <2>2
<1> QED
  BY <1>4, <1>5 DEF Comes

\* The lines that remain are ready, once the first has run and has given what
\* it gives.
LEMMA ReadyAfter ==
    ASSUME NEW S, NEW s \in Seq(S), s # <<>>, NEW g, NEW h, NEW f, f[1] # "strength",
           \A e \in g : e[1] # "strength" /\ Spares(s[1], e) => e \in h,
           \A n : Gives(s[1], <<"node", n>>) => Exists(h, n),
           Given(s, 1, f, g) => f \in h,
           f[1] = "HAS_KNOWLEDGE" /\ s[1].do = "drop" => (Exists(h, f[3]) => Exists(g, f[3])),
           Ready(s, f, g)
    PROVE  Ready(Tail(s), f, h)
<1>1. /\ Len(s) \in Nat /\ Len(Tail(s)) = Len(s) - 1
      /\ \A j \in 1 .. Len(s) - 1 : Tail(s)[j] = s[j + 1]
      /\ 1 \in 1 .. Len(s)
  BY TailPlaces
<1>2. CASE f \in g /\ \A j \in 1 .. Len(s) : Spares(s[j], f)
  <2>1. f \in h
    BY <1>1, <1>2
  <2>2. \A j \in 1 .. Len(Tail(s)) : Spares(Tail(s)[j], f)
    BY <1>1, <1>2
  <2> QED
    BY <2>1, <2>2 DEF Ready
<1>3. ASSUME NEW i \in 1 .. Len(s), Given(s, i, f, g) PROVE Ready(Tail(s), f, h)
  <2>1. CASE i = 1
    <3>1. f \in h
      BY <1>3, <2>1
    <3>2. \A j \in 1 .. Len(Tail(s)) : Spares(Tail(s)[j], f)
      BY <1>1, <1>3, <2>1 DEF Given
    <3> QED
      BY <3>1, <3>2 DEF Ready
  <2>2. CASE i > 1
    <3>1. i - 1 \in 1 .. Len(Tail(s)) /\ Tail(s)[i - 1] = s[i]
      BY <1>1, <2>2
    <3>2. Gives(Tail(s)[i - 1], f)
      BY <1>3, <3>1 DEF Given
    <3>3. \A j \in (i - 1) + 1 .. Len(Tail(s)) : Spares(Tail(s)[j], f)
      BY <1>1, <1>3, <2>2 DEF Given
    <3>4. \A n \in Ends(f) : Comes(Tail(s), i - 1, n, h)
      BY <1>3, <2>2, ComesAfter DEF Given
    <3>5. ASSUME f[1] = "HAS_KNOWLEDGE", Tail(s)[i - 1].do = "probe"
          PROVE  ~ Exists(h, f[3]) /\ \A j \in 1 .. (i - 1) - 1 : Tail(s)[j].do = "drop"
      <4>1. ~ Exists(g, f[3]) /\ \A j \in 1 .. i - 1 : s[j].do = "drop"
        BY <1>3, <3>1, <3>5 DEF Given
      <4>2. s[1].do = "drop"
        BY <1>1, <2>2, <4>1
      <4> QED
        BY <1>1, <2>2, <3>5, <4>1, <4>2
    <3>6. Given(Tail(s), i - 1, f, h)
      BY <3>2, <3>3, <3>4, <3>5 DEF Given
    <3> QED
      BY <3>1, <3>6 DEF Ready
  <2> QED
    BY <1>1, <2>1, <2>2
<1> QED
  BY <1>2, <1>3 DEF Ready

\* A statement that is no probe has run.
LEMMA ReadyRan ==
    ASSUME NEW S, NEW s \in Seq(S), s # <<>>, NEW k, Flat(k, s[1]), s[1].do # "probe",
           NEW g, NEW h, NEW f \in Facts, f[1] # "strength",
           \A e \in g : e[1] # "strength" /\ Spares(s[1], e) => e \in h,
           \A e \in Facts : Puts(s[1], e) /\ (\A n \in Ends(e) : Exists(g, n)) => e \in h,
           \A n : Puts(s[1], <<"node", n>>) => Exists(h, n),
           s[1].do = "drop" => \A n : Exists(h, n) => Exists(g, n),
           Ready(s, f, g)
    PROVE  Ready(Tail(s), f, h)
<1>1. \A n : Gives(s[1], <<"node", n>>) => Exists(h, n)
  BY DEF Gives
<1>2. ASSUME Given(s, 1, f, g) PROVE f \in h
  <2>1. Puts(s[1], f)
    BY <1>2 DEF Given, Gives
  <2>2. ASSUME NEW n \in Ends(f) PROVE Exists(g, n)
    <3>1. Comes(s, 1, n, g)
      BY <1>2, <2>2 DEF Given
    <3>2. f[1] # "node"
      <4>1. SUFFICES ASSUME f[1] = "node" PROVE Ends(f) = {}
        BY <2>2
      <4> QED
        BY <4>1 DEF Ends, Labels
    <3>3. ~ Gives(s[1], <<"node", n>>)
      <4>1. SUFFICES ASSUME Puts(s[1], <<"node", n>>) PROVE FALSE
        BY DEF Gives
      <4>2. s[1].do # "create"
        BY <2>1, <3>2 DEF Puts
      <4>3. s[1].do # "join"
        BY <2>1, <3>2, <4>1 DEF Puts
      <4>4. s[1].do # "assign"
        <5>1. ASSUME s[1].do = "assign", <<"node", n>> \in s[1].values PROVE FALSE
          <6>1. <<"node", n>>[1] \in {"head", "source", "revision", "orphaned"}
            BY <5>1 DEF Flat, Law
          <6> QED
            BY <6>1
        <5> QED
          BY <4>1, <4>2, <4>3, <5>1 DEF Puts
      <4> QED
        BY <4>1, <4>2, <4>3, <4>4 DEF Puts
    <3>4. \A j \in 1 .. 1 : j = 1
      OBVIOUS
    <3> QED
      BY <3>1, <3>3, <3>4 DEF Comes
  <2> QED
    BY <2>1, <2>2
<1> HIDE DEF Ready, Given, Spares, Gives
<1> QED
  BY <1>1, <1>2, ReadyAfter

\* A probe of a rooted graph knows what the facts it has found tell.
LEMMA ToldFound ==
    ASSUME NEW g \in SUBSET Facts, Rooted(g), NEW F \in SUBSET g, NEW f, Told(F, f),
           f[1] = "HAS_KNOWLEDGE" => ~ Exists(g, f[3]), f[1] = "node" => f = <<"node", f[2]>>
    PROVE  f \in g
<1>1. CASE f[1] = "node" /\ \E e \in F : e[1] \in Labels /\ e[2] = f[2]
  BY <1>1 DEF Rooted, Exists
<1> QED
  BY <1>1 DEF Told, Exists

LEMMA ReadyFound ==
    ASSUME NEW S, NEW s \in Seq(S), s # <<>>, s[1].do = "probe",
           NEW g \in SUBSET Facts, Rooted(g), s[1].facts \subseteq g,
           NEW f \in Facts, f[1] # "strength", Ready(s, f, g)
    PROVE  Ready(Tail(s), f, g)
<1>1. ASSUME NEW e, Gives(s[1], e) PROVE Told(s[1].facts, e)
  BY <1>1 DEF Gives, Puts
<1>2. ASSUME NEW n, Gives(s[1], <<"node", n>>) PROVE Exists(g, n)
  <2>1. Told(s[1].facts, <<"node", n>>)
    BY <1>1, <1>2
  <2> HIDE DEF Told
  <2>2. <<"node", n>> \in g
    BY <2>1, ToldFound
  <2> QED
    BY <2>2 DEF Exists
<1>3. ASSUME Given(s, 1, f, g) PROVE f \in g
  <2>1. Told(s[1].facts, f)
    BY <1>1, <1>3 DEF Given
  <2>2. f[1] = "HAS_KNOWLEDGE" => ~ Exists(g, f[3])
    BY <1>3 DEF Given
  <2>3. f[1] = "node" => f = <<"node", f[2]>>
    BY DEF Facts, Edges, Columns
  <2> HIDE DEF Told
  <2> QED
    BY <2>1, <2>2, <2>3, ToldFound
<1> HIDE DEF Ready, Given, Spares, Gives
<1> QED
  BY <1>2, <1>3, ReadyAfter

LEMMA AddsSpare ==
    ASSUME NEW k, NEW m, Adds(k, m), NEW j \in 1 .. Len(m), NEW f
    PROVE  Spares(m[j], f) /\ m[j].do # "probe"
BY DEF Adds, Spares

\* The probe found nothing.
LEMMA ReadyMissing ==
    ASSUME NEW S, NEW s \in Seq(S), s # <<>>, NEW k, Flat(k, s[1]), s[1].do = "probe",
           NEW T, s[1].missing \in Seq(T), NEW g, NEW f \in Facts, Ready(s, f, g)
    PROVE  Ready(s[1].missing \o Tail(s), f, g)
<1> DEFINE m == s[1].missing
           t == Tail(s)
           u == m \o t
<1>1. /\ Len(s) \in Nat /\ Len(t) = Len(s) - 1 /\ t \in Seq(S)
      /\ \A j \in 1 .. Len(s) - 1 : t[j] = s[j + 1]
      /\ 1 \in 1 .. Len(s)
  BY TailPlaces
<1>2. /\ Len(m) \in Nat /\ Len(u) = Len(m) + Len(t)
      /\ \A j \in 1 .. Len(m) : u[j] = m[j]
      /\ \A j \in 1 .. Len(t) : u[Len(m) + j] = t[j]
  BY <1>1, JoinedPlaces
<1>3. Adds(k, m)
  BY DEF Flat
<1> HIDE DEF m, t, u
<1>4. \A j \in 1 .. Len(m) : \A e : Spares(u[j], e) /\ u[j].do # "probe"
  BY <1>2, <1>3, AddsSpare
<1>5. \A i \in 2 .. Len(s) : Len(m) + i - 1 \in 1 .. Len(u) /\ u[Len(m) + i - 1] = s[i]
  <2>1. ASSUME NEW i \in 2 .. Len(s) PROVE Len(m) + i - 1 \in 1 .. Len(u) /\ u[Len(m) + i - 1] = s[i]
    <3>1. i - 1 \in 1 .. Len(t) /\ t[i - 1] = s[i]
      BY <1>1
    <3>2. u[Len(m) + (i - 1)] = t[i - 1]
      BY <1>2, <3>1
    <3> QED
      BY <1>1, <1>2, <3>1, <3>2
  <2> QED
    BY <2>1
<1>5a. Len(u) \in Nat /\ Len(u) = Len(m) + Len(s) - 1
  BY <1>1, <1>2
<1>5b. \A j \in Len(m) + 1 .. Len(u) : j - Len(m) + 1 \in 2 .. Len(s) /\ u[j] = s[j - Len(m) + 1]
  <2>1. SUFFICES ASSUME NEW j \in Len(m) + 1 .. Len(u)
                 PROVE  j - Len(m) + 1 \in 2 .. Len(s) /\ u[j] = s[j - Len(m) + 1]
    OBVIOUS
  <2>2. j - Len(m) + 1 \in 2 .. Len(s)
    BY <1>1, <1>2, <1>5a
  <2>3. Len(m) + (j - Len(m) + 1) - 1 = j
    BY <1>2, <1>5a
  <2> QED
    BY <1>5, <2>2, <2>3
<1>5c. \A j \in 1 .. Len(u) : j \in 1 .. Len(m) \/ j \in Len(m) + 1 .. Len(u)
  BY <1>2, <1>5a
<1>6. ASSUME NEW e, NEW i \in 1 .. Len(s), \A j \in i + 1 .. Len(s) : Spares(s[j], e)
      PROVE  \A j \in Len(m) + i .. Len(u) : Spares(u[j], e)
  <2>1. SUFFICES ASSUME NEW j \in Len(m) + i .. Len(u) PROVE Spares(u[j], e)
    OBVIOUS
  <2>2. j \in Len(m) + 1 .. Len(u) /\ j - Len(m) + 1 \in i + 1 .. Len(s)
    BY <1>1, <1>2, <1>5a
  <2>3. u[j] = s[j - Len(m) + 1]
    BY <1>5b, <2>2
  <2> QED
    BY <1>6, <2>2, <2>3
<1>7. ASSUME NEW i \in 2 .. Len(s), NEW n, Comes(s, i, n, g)
      PROVE  Comes(u, Len(m) + i - 1, n, g)
  <2> DEFINE e == <<"node", n>>
  <2>1. \A j \in Len(m) + 1 .. Len(m) + i - 1 : j - Len(m) + 1 \in 2 .. i /\ u[j] = s[j - Len(m) + 1]
    <3>1. ASSUME NEW j \in Len(m) + 1 .. Len(m) + i - 1
          PROVE  j - Len(m) + 1 \in 2 .. i /\ u[j] = s[j - Len(m) + 1]
      <4>1. j - Len(m) + 1 \in 2 .. i /\ j \in Len(m) + 1 .. Len(u)
        BY <1>1, <1>2, <1>5a
      <4> QED
        BY <1>5b, <4>1
    <3> QED
      BY <3>1
  <2>2. CASE Exists(g, n) /\ \A j \in 1 .. i : Spares(s[j], e)
    <3>1. ASSUME NEW j \in 1 .. Len(m) + i - 1 PROVE Spares(u[j], e)
      <4>1. CASE j \in 1 .. Len(m)
        BY <1>4, <4>1
      <4>2. CASE j \in Len(m) + 1 .. Len(m) + i - 1
        <5>1. j - Len(m) + 1 \in 1 .. i /\ u[j] = s[j - Len(m) + 1]
          BY <1>1, <1>2, <2>1, <4>2
        <5> QED
          BY <2>2, <5>1
      <4> QED
        BY <1>1, <1>2, <4>1, <4>2
    <3> QED
      BY <2>2, <3>1 DEF Comes
  <2>3. ASSUME NEW p \in 1 .. i, Gives(s[p], e), \A j \in p + 1 .. i : Spares(s[j], e)
        PROVE  Comes(u, Len(m) + i - 1, n, g)
    <3>1. CASE p = 1
      <4>1. PICK q \in 1 .. Len(m) : Puts(m[q], e)
        BY <2>3, <3>1 DEF Gives, Puts, m
      <4>2. q \in 1 .. Len(m) + i - 1 /\ Gives(u[q], e)
        BY <1>1, <1>2, <4>1 DEF Gives
      <4>3. ASSUME NEW j \in q + 1 .. Len(m) + i - 1 PROVE Spares(u[j], e)
        <5>1. CASE j \in 1 .. Len(m)
          BY <1>4, <5>1
        <5>2. CASE j \in Len(m) + 1 .. Len(m) + i - 1
          <6>1. j - Len(m) + 1 \in p + 1 .. i /\ u[j] = s[j - Len(m) + 1]
            BY <1>1, <1>2, <2>1, <3>1, <5>2
          <6> QED
            BY <2>3, <6>1
        <5> QED
          BY <1>1, <1>2, <4>1, <5>1, <5>2
      <4> QED
        BY <4>2, <4>3 DEF Comes
    <3>2. CASE p > 1
      <4>1. /\ Len(m) + p - 1 \in 1 .. Len(m) + i - 1 /\ u[Len(m) + p - 1] = s[p]
        BY <1>1, <1>2, <1>5, <3>2
      <4>2. ASSUME NEW j \in (Len(m) + p - 1) + 1 .. Len(m) + i - 1 PROVE Spares(u[j], e)
        <5>1. j \in Len(m) + 1 .. Len(m) + i - 1 /\ j - Len(m) + 1 \in p + 1 .. i
          BY <1>1, <1>2, <3>2
        <5> QED
          BY <2>1, <2>3, <5>1
      <4> QED
        BY <2>3, <4>1, <4>2 DEF Comes
    <3> QED
      BY <1>1, <3>1, <3>2
  <2> QED
    BY <1>7, <2>2, <2>3 DEF Comes
<1>8. CASE f \in g /\ \A j \in 1 .. Len(s) : Spares(s[j], f)
  <2>1. \A j \in 1 + 1 .. Len(s) : Spares(s[j], f)
    BY <1>1, <1>8
  <2>2. \A j \in Len(m) + 1 .. Len(u) : Spares(u[j], f)
    BY <1>1, <1>6, <2>1
  <2>3. \A j \in 1 .. Len(u) : Spares(u[j], f)
    BY <1>4, <1>5c, <2>2
  <2> QED
    BY <1>8, <2>3 DEF Ready, u, m, t
<1>9. ASSUME NEW i \in 1 .. Len(s), Given(s, i, f, g) PROVE Ready(u, f, g)
  <2>1. CASE i > 1
    <3>1. i \in 2 .. Len(s) /\ Len(m) + i - 1 \in 1 .. Len(u) /\ u[Len(m) + i - 1] = s[i]
      BY <1>1, <1>5, <2>1
    <3>2. \A j \in (Len(m) + i - 1) + 1 .. Len(u) : Spares(u[j], f)
      <4>1. \A j \in Len(m) + i .. Len(u) : Spares(u[j], f)
        BY <1>6, <1>9 DEF Given
      <4> QED
        BY <1>1, <1>2, <4>1
    <3>3. \A n \in Ends(f) : Comes(u, Len(m) + i - 1, n, g)
      BY <1>7, <1>9, <3>1 DEF Given
    <3>4. ~ (f[1] = "HAS_KNOWLEDGE" /\ s[i].do = "probe")
      <4>1. SUFFICES ASSUME f[1] = "HAS_KNOWLEDGE", s[i].do = "probe" PROVE FALSE
        OBVIOUS
      <4>2. 1 \in 1 .. i - 1 /\ s[1].do = "drop"
        BY <1>1, <1>9, <2>1, <4>1 DEF Given
      <4> QED
        BY <4>2
    <3>5. Given(u, Len(m) + i - 1, f, g)
      BY <1>9, <3>1, <3>2, <3>3, <3>4 DEF Given
    <3> QED
      BY <3>1, <3>5 DEF Ready
  <2>2. CASE i = 1
    <3>1. PICK q \in 1 .. Len(m) : Puts(m[q], f)
      BY <1>9, <2>2 DEF Given, Gives, Puts, m
    <3>2. q \in 1 .. Len(u) /\ u[q] = m[q] /\ Gives(u[q], f) /\ u[q].do # "probe"
      <4>1. q \in 1 .. Len(u)
        BY <1>2, <1>5a, <1>1
      <4>2. u[q] = m[q] /\ u[q].do # "probe"
        BY <1>2, <1>4
      <4> QED
        BY <3>1, <4>1, <4>2 DEF Gives
    <3>3. \A j \in q + 1 .. Len(u) : Spares(u[j], f)
      <4>1. \A j \in Len(m) + 1 .. Len(u) : Spares(u[j], f)
        BY <1>1, <1>6, <1>9, <2>2 DEF Given
      <4>2. \A j \in q + 1 .. Len(u) : j \in 1 .. Len(u)
        BY <1>2, <1>5a, <3>1
      <4> QED
        BY <1>4, <1>5c, <4>1, <4>2
    <3>4. ASSUME NEW n \in Ends(f) PROVE Comes(u, q, n, g)
      <4>1. Comes(s, 1, n, g)
        BY <1>9, <2>2, <3>4 DEF Given
      <4>2. CASE Exists(g, n)
        <5>1. \A j \in 1 .. q : j \in 1 .. Len(m)
          BY <1>2
        <5>2. \A j \in 1 .. q : Spares(u[j], <<"node", n>>)
          BY <1>4, <5>1
        <5> QED
          BY <4>2, <5>2 DEF Comes
      <4>3. CASE Gives(s[1], <<"node", n>>)
        <5>1. PICK p \in 1 .. Len(m) : Puts(m[p], <<"node", n>>)
          BY <4>3 DEF Gives, Puts, m
        <5>2. m[p].do \in {"create", "join"} /\ Law(k, m[p]) /\ m[q].do \in {"create", "join"} /\ Law(k, m[q])
          BY <1>3 DEF Adds
        <5>3. m[p].do = "create" /\ m[p].node = n
          BY <5>1, <5>2 DEF Puts, Law, Labels
        <5>4. m[q].do = "join" /\ m[q].edge = f
          BY <3>1, <3>4, <5>2 DEF Puts, Ends, Labels
        <5>5. n \in {m[q].edge[2], m[q].edge[3]}
          BY <3>4, <5>2, <5>4 DEF Ends, Law
        <5>6. p < q
          BY <1>3, <5>3, <5>4, <5>5 DEF Adds
        <5>7. p \in 1 .. q /\ Gives(u[p], <<"node", n>>)
          BY <1>2, <5>1, <5>6 DEF Gives
        <5>8. \A j \in p + 1 .. q : j \in 1 .. Len(m)
          BY <1>2, <5>1
        <5>9. \A j \in p + 1 .. q : Spares(u[j], <<"node", n>>)
          BY <1>4, <5>8
        <5> QED
          BY <5>7, <5>9 DEF Comes
      <4>4. \A j \in 1 .. 1 : j = 1
        OBVIOUS
      <4> QED
        BY <4>1, <4>2, <4>3, <4>4 DEF Comes
    <3>5. Given(u, q, f, g)
      BY <3>2, <3>3, <3>4 DEF Given
    <3> QED
      BY <3>2, <3>5 DEF Ready
  <2> QED
    BY <1>1, <2>1, <2>2
<1> QED
  BY <1>8, <1>9 DEF Ready, u, m, t

(***************************************************************************)
(* The lines of every kind of verb that recreates no inscription give what *)
(* its contract promises.                                                  *)
(***************************************************************************)
Honours(k, s) ==
    /\ Lines(k, s)
    /\ Crowns(k) => /\ \E i \in 1 .. Len(s) : s[i].do = "unjoin"
                    /\ \E i \in 1 .. Len(s) : s[i].do = "assign"
    /\ \A f \in Contract(k) : \A g :
          (/\ \A n \in Ends(f) : Exists(g, n) \/ <<"node", n>> \in Contract(k)
           /\ f[1] = "HAS_KNOWLEDGE" => ~ Exists(g, f[3])) => Ready(s, f, g)

Calm(x) == x.do \notin {"unjoin", "assign", "drop"}

LEMMA CalmHonours ==
    ASSUME NEW S, NEW s \in Seq(S), NEW k, Lines(k, s), ~ Crowns(k),
           \A j \in 1 .. Len(s) : Calm(s[j]),
           \A f \in Contract(k) :
              /\ f[1] # "HAS_KNOWLEDGE" /\ \E i \in 1 .. Len(s) : Gives(s[i], f)
              /\ \A n \in Ends(f) : <<"node", n>> \in Contract(k) => Gives(s[1], <<"node", n>>)
    PROVE  Honours(k, s)
<1>1. Len(s) \in Nat
  OBVIOUS
<1>2. \A j \in 1 .. Len(s) : \A f : Spares(s[j], f)
  BY DEF Calm, Spares
<1>3. ASSUME NEW f \in Contract(k), NEW g,
             \A n \in Ends(f) : Exists(g, n) \/ <<"node", n>> \in Contract(k)
      PROVE  Ready(s, f, g)
  <2>1. PICK i \in 1 .. Len(s) : Gives(s[i], f)
    OBVIOUS
  <2>2. \A j \in i + 1 .. Len(s) : j \in 1 .. Len(s)
    BY <1>1
  <2>3. 1 \in 1 .. i /\ \A j \in 1 .. i : j \in 1 .. Len(s)
    BY <1>1
  <2>4. ASSUME NEW n \in Ends(f) PROVE Comes(s, i, n, g)
    <3>1. CASE Exists(g, n)
      BY <1>2, <2>3, <3>1 DEF Comes
    <3>2. CASE Gives(s[1], <<"node", n>>)
      <4>1. \A j \in 1 + 1 .. i : j \in 1 .. Len(s)
        BY <1>1
      <4> QED
        BY <1>2, <2>3, <3>2, <4>1 DEF Comes
    <3> QED
      BY <1>3, <3>1, <3>2
  <2>5. f[1] # "HAS_KNOWLEDGE" /\ \A j \in i + 1 .. Len(s) : Spares(s[j], f)
    BY <1>2, <2>2
  <2>6. Given(s, i, f, g)
    BY <2>1, <2>4, <2>5 DEF Given
  <2> QED
    BY <2>6 DEF Ready
<1> QED
  BY <1>3 DEF Honours

NodeProbe(n, columns) == Probe({<<"node", n>>}, <<>>, <<Create(n, columns)>>)
EdgeProbe(e) == Probe({e}, <<>>, <<Join(e)>>)

LEMMA NodeProbeFlat ==
    ASSUME NEW k, NEW n, NEW columns, \A f \in columns : f[1] # "head",
           k[1] = "navigate" => n \notin Triples
    PROVE  /\ EnsureNode(n, columns) = <<NodeProbe(n, columns)>>
           /\ Flat(k, NodeProbe(n, columns)) /\ Calm(NodeProbe(n, columns))
           /\ Gives(NodeProbe(n, columns), <<"node", n>>)
<1> DEFINE x == Create(n, columns)
<1>1. x.do = "create" /\ x.node = n /\ x.columns = columns
  BY DEF Create
<1>2. Law(k, x) /\ Puts(x, <<"node", n>>)
  BY <1>1 DEF Law, Puts
<1> HIDE DEF x
<1>3. Len(<<x>>) = 1 /\ <<x>>[1] = x /\ 1 .. 1 = {1}
  OBVIOUS
<1>4. Adds(k, <<x>>)
  BY <1>1, <1>2, <1>3 DEF Adds
<1>5. NodeProbe(n, columns) = Probe({<<"node", n>>}, <<>>, <<x>>)
  BY DEF NodeProbe, x
<1>6. LET y == NodeProbe(n, columns)
      IN  y.do = "probe" /\ y.facts = {<<"node", n>>} /\ y.found = <<>> /\ y.missing = <<x>>
  BY <1>5 DEF Probe
<1>7. Flat(k, NodeProbe(n, columns)) /\ Calm(NodeProbe(n, columns))
  BY <1>4, <1>6 DEF Flat, Law, Calm
<1>8. Gives(NodeProbe(n, columns), <<"node", n>>)
  BY <1>2, <1>3, <1>6 DEF Gives, Told
<1> QED
  BY <1>7, <1>8 DEF EnsureNode, NodeProbe

LEMMA EdgeProbeFlat ==
    ASSUME NEW k, NEW label \in Labels, label # "MYTHOS_HEAD", NEW n, NEW m
    PROVE  LET e == <<label, n, m>>
           IN  /\ EnsureEdge(e) = <<EdgeProbe(e)>>
               /\ Flat(k, EdgeProbe(e)) /\ Calm(EdgeProbe(e)) /\ Gives(EdgeProbe(e), e)
<1> DEFINE e == <<label, n, m>>
           x == Join(e)
<1>1. x.do = "join" /\ x.edge = e /\ e[1] = label
  BY DEF Join
<1>2. Law(k, x) /\ Puts(x, e)
  BY <1>1 DEF Law, Puts
<1> HIDE DEF e, x
<1>3. Len(<<x>>) = 1 /\ <<x>>[1] = x /\ 1 .. 1 = {1}
  OBVIOUS
<1>4. Adds(k, <<x>>)
  BY <1>1, <1>2, <1>3 DEF Adds
<1>5. LET y == EdgeProbe(e)
      IN  y.do = "probe" /\ y.facts = {e} /\ y.found = <<>> /\ y.missing = <<x>>
  BY DEF EdgeProbe, Probe, x
<1>6. Flat(k, EdgeProbe(e)) /\ Calm(EdgeProbe(e))
  BY <1>4, <1>5 DEF Flat, Law, Calm
<1>7. Gives(EdgeProbe(e), e)
  BY <1>2, <1>3, <1>5 DEF Gives, Told
<1> QED
  BY <1>6, <1>7 DEF EnsureEdge, EdgeProbe, e

\* Lists of a few lines.
LEMMA FewLines ==
    ASSUME NEW k, NEW a, NEW b, NEW c, NEW d, NEW e, Flat(k, a)
    PROVE  /\ Lines(k, <<a>>)
           /\ Flat(k, b) => Lines(k, <<a, b>>)
           /\ Flat(k, b) /\ Flat(k, c) => Lines(k, <<a, b, c>>)
           /\ Flat(k, b) /\ Flat(k, c) /\ Flat(k, d) => Lines(k, <<a, b, c, d>>)
           /\ Flat(k, b) /\ Flat(k, c) /\ Flat(k, d) /\ Flat(k, e) => Lines(k, <<a, b, c, d, e>>)
<1>1. /\ Len(<<a>>) = 1 /\ Len(<<a, b>>) = 2 /\ Len(<<a, b, c>>) = 3
      /\ Len(<<a, b, c, d>>) = 4 /\ Len(<<a, b, c, d, e>>) = 5
  OBVIOUS
<1>2. /\ \A i \in 1 .. 1 : i = 1
      /\ \A i \in 1 .. 2 : i = 1 \/ i = 2
      /\ \A i \in 1 .. 3 : i = 1 \/ i = 2 \/ i = 3
      /\ \A i \in 1 .. 4 : i = 1 \/ i = 2 \/ i = 3 \/ i = 4
      /\ \A i \in 1 .. 5 : i = 1 \/ i = 2 \/ i = 3 \/ i = 4 \/ i = 5
  OBVIOUS
<1>3. Lines(k, <<a>>)
  BY <1>1, <1>2 DEF Lines
<1>4. Flat(k, b) => Lines(k, <<a, b>>)
  BY <1>1, <1>2 DEF Lines
<1>5. Flat(k, b) /\ Flat(k, c) => Lines(k, <<a, b, c>>)
  BY <1>1, <1>2 DEF Lines
<1>6. Flat(k, b) /\ Flat(k, c) /\ Flat(k, d) => Lines(k, <<a, b, c, d>>)
  BY <1>1, <1>2 DEF Lines
<1>7. Flat(k, b) /\ Flat(k, c) /\ Flat(k, d) /\ Flat(k, e) => Lines(k, <<a, b, c, d, e>>)
  BY <1>1, <1>2 DEF Lines
<1> QED
  BY <1>3, <1>4, <1>5, <1>6, <1>7

LEMMA UpToFive ==
    /\ \A i \in 1 .. 1 : i = 1
    /\ \A i \in 1 .. 2 : i = 1 \/ i = 2
    /\ \A i \in 1 .. 3 : i = 1 \/ i = 2 \/ i = 3
    /\ \A i \in 1 .. 4 : i = 1 \/ i = 2 \/ i = 3 \/ i = 4
    /\ \A i \in 1 .. 5 : i = 1 \/ i = 2 \/ i = 3 \/ i = 4 \/ i = 5
    /\ 1 \in 1 .. 1 /\ {1, 2} \subseteq 1 .. 2 /\ {1, 2, 3} \subseteq 1 .. 3
    /\ {1, 2, 3, 4} \subseteq 1 .. 4 /\ {1, 2, 3, 4, 5} \subseteq 1 .. 5
OBVIOUS

LEMMA CalmOne ==
    ASSUME NEW k, ~ Crowns(k), NEW a,
           Flat(k, a) /\ Calm(a),
           \A f \in Contract(k) : f[1] # "HAS_KNOWLEDGE" /\ (Gives(a, f)),
           \A n : <<"node", n>> \in Contract(k) => \A f \in Contract(k) : n \in Ends(f) => Gives(a, <<"node", n>>)
    PROVE  Honours(k, <<a>>)
<1> DEFINE s == <<a>>
<1>1. Lines(k, s)
  BY FewLines
<1>2. /\ s \in Seq({a}) /\ Len(s) = 1
      /\ s[1] = a
  OBVIOUS
<1> HIDE DEF s
<1>3. \A i \in 1 .. Len(s) : Calm(s[i])
  BY <1>2, UpToFive
<1>4. ASSUME NEW f \in Contract(k) PROVE \E i \in 1 .. Len(s) : Gives(s[i], f)
  <2>1. {1} \subseteq 1 .. Len(s)
    BY <1>2, UpToFive
  <2> QED
    BY <1>2, <2>1
<1> QED
  BY <1>1, <1>2, <1>3, <1>4, CalmHonours DEF s

LEMMA CalmTwo ==
    ASSUME NEW k, ~ Crowns(k), NEW a, NEW b,
           Flat(k, a) /\ Calm(a),
           Flat(k, b) /\ Calm(b),
           \A f \in Contract(k) : f[1] # "HAS_KNOWLEDGE" /\ (Gives(a, f) \/ Gives(b, f)),
           \A n : <<"node", n>> \in Contract(k) => \A f \in Contract(k) : n \in Ends(f) => Gives(a, <<"node", n>>)
    PROVE  Honours(k, <<a, b>>)
<1> DEFINE s == <<a, b>>
<1>1. Lines(k, s)
  BY FewLines
<1>2. /\ s \in Seq({a, b}) /\ Len(s) = 2
      /\ s[1] = a /\ s[2] = b
  OBVIOUS
<1> HIDE DEF s
<1>3. \A i \in 1 .. Len(s) : Calm(s[i])
  BY <1>2, UpToFive
<1>4. ASSUME NEW f \in Contract(k) PROVE \E i \in 1 .. Len(s) : Gives(s[i], f)
  <2>1. {1, 2} \subseteq 1 .. Len(s)
    BY <1>2, UpToFive
  <2> QED
    BY <1>2, <2>1
<1> QED
  BY <1>1, <1>2, <1>3, <1>4, CalmHonours DEF s

LEMMA CalmThree ==
    ASSUME NEW k, ~ Crowns(k), NEW a, NEW b, NEW c,
           Flat(k, a) /\ Calm(a),
           Flat(k, b) /\ Calm(b),
           Flat(k, c) /\ Calm(c),
           \A f \in Contract(k) : f[1] # "HAS_KNOWLEDGE" /\ (Gives(a, f) \/ Gives(b, f) \/ Gives(c, f)),
           \A n : <<"node", n>> \in Contract(k) => \A f \in Contract(k) : n \in Ends(f) => Gives(a, <<"node", n>>)
    PROVE  Honours(k, <<a, b, c>>)
<1> DEFINE s == <<a, b, c>>
<1>1. Lines(k, s)
  BY FewLines
<1>2. /\ s \in Seq({a, b, c}) /\ Len(s) = 3
      /\ s[1] = a /\ s[2] = b /\ s[3] = c
  OBVIOUS
<1> HIDE DEF s
<1>3. \A i \in 1 .. Len(s) : Calm(s[i])
  BY <1>2, UpToFive
<1>4. ASSUME NEW f \in Contract(k) PROVE \E i \in 1 .. Len(s) : Gives(s[i], f)
  <2>1. {1, 2, 3} \subseteq 1 .. Len(s)
    BY <1>2, UpToFive
  <2> QED
    BY <1>2, <2>1
<1> QED
  BY <1>1, <1>2, <1>3, <1>4, CalmHonours DEF s

LEMMA CalmFive ==
    ASSUME NEW k, ~ Crowns(k), NEW a, NEW b, NEW c, NEW d, NEW e,
           Flat(k, a) /\ Calm(a),
           Flat(k, b) /\ Calm(b),
           Flat(k, c) /\ Calm(c),
           Flat(k, d) /\ Calm(d),
           Flat(k, e) /\ Calm(e),
           \A f \in Contract(k) : f[1] # "HAS_KNOWLEDGE" /\ (Gives(a, f) \/ Gives(b, f) \/ Gives(c, f) \/ Gives(d, f) \/ Gives(e, f)),
           \A n : <<"node", n>> \in Contract(k) => \A f \in Contract(k) : n \in Ends(f) => Gives(a, <<"node", n>>)
    PROVE  Honours(k, <<a, b, c, d, e>>)
<1> DEFINE s == <<a, b, c, d, e>>
<1>1. Lines(k, s)
  BY FewLines
<1>2. /\ s \in Seq({a, b, c, d, e}) /\ Len(s) = 5
      /\ s[1] = a /\ s[2] = b /\ s[3] = c /\ s[4] = d /\ s[5] = e
  OBVIOUS
<1> HIDE DEF s
<1>3. \A i \in 1 .. Len(s) : Calm(s[i])
  BY <1>2, UpToFive
<1>4. ASSUME NEW f \in Contract(k) PROVE \E i \in 1 .. Len(s) : Gives(s[i], f)
  <2>1. {1, 2, 3, 4, 5} \subseteq 1 .. Len(s)
    BY <1>2, UpToFive
  <2> QED
    BY <1>2, <2>1
<1> QED
  BY <1>1, <1>2, <1>3, <1>4, CalmHonours DEF s

LEMMA HonoursNode ==
    ASSUME NEW k, k[1] \in {"ensurePalace", "createAgent", "palace-minted"}
    PROVE  Honours(k, EnsureNode(k[2], {}))
<1> DEFINE x == NodeProbe(k[2], {})
<1>1. EnsureNode(k[2], {}) = <<x>> /\ Flat(k, x) /\ Calm(x) /\ Gives(x, <<"node", k[2]>>)
  BY NodeProbeFlat
<1>2. Contract(k) = {<<"node", k[2]>>} /\ ~ Crowns(k)
  BY DEF Contract, Crowns
<1>3. <<"node", k[2]>>[1] = "node" /\ Ends(<<"node", k[2]>>) = {}
  BY DEF Ends, Labels
<1> HIDE DEF x
<1> QED
  BY <1>1, <1>2, <1>3, CalmOne

LEMMA HonoursAction ==
    ASSUME NEW k, k[1] = "recordAction"
    PROVE  Honours(k, RecordAction(k[2]))
<1> DEFINE x == Create(k[2], {})
<1>1. x.do = "create" /\ x.node = k[2] /\ x.columns = {}
  BY DEF Create
<1>2. RecordAction(k[2]) = <<x>> /\ Flat(k, x) /\ Calm(x) /\ Gives(x, <<"node", k[2]>>)
  BY <1>1 DEF RecordAction, Flat, Law, Calm, Gives, Puts
<1>3. Contract(k) = {<<"node", k[2]>>} /\ ~ Crowns(k)
  BY DEF Contract, Crowns
<1>4. <<"node", k[2]>>[1] = "node" /\ Ends(<<"node", k[2]>>) = {}
  BY DEF Ends, Labels
<1> HIDE DEF x
<1> QED
  BY <1>2, <1>3, <1>4, CalmOne

LEMMA HonoursRoom ==
    ASSUME NEW k, k[1] \in {"addRoom", "room-added"}
    PROVE  Honours(k, AddRoom(k[2]))
<1> DEFINE e == <<"CONTAINS", Palace, k[2]>>
           n == <<"node", k[2]>>
           x == NodeProbe(k[2], {})
           y == EdgeProbe(e)
<1>1. EnsureNode(k[2], {}) = <<x>> /\ Flat(k, x) /\ Calm(x) /\ Gives(x, n)
  BY NodeProbeFlat
<1>2. EnsureEdge(e) = <<y>> /\ Flat(k, y) /\ Calm(y) /\ Gives(y, e)
  BY EdgeProbeFlat DEF Labels
<1>3. Contract(k) = {n, e} /\ ~ Crowns(k)
  BY DEF Contract, Crowns
<1>4. /\ n[1] = "node" /\ e[1] = "CONTAINS" /\ Ends(n) = {}
      /\ \A m : <<"node", m>> \in {n, e} => <<"node", m>> = n
  BY DEF Ends, Labels
<1>5. AddRoom(k[2]) = <<x, y>>
  BY <1>1, <1>2, Listed DEF AddRoom
<1> HIDE DEF x, y, n, e
<1> QED
  BY <1>1, <1>2, <1>3, <1>4, <1>5, CalmTwo

LEMMA HonoursInscribe ==
    ASSUME NEW k, k[1] \in {"inscribeAvatar", "avatar-inscribed"}
    PROVE  Honours(k, InscribeAvatar(k[2], k[3], k[4]))
<1> DEFINE a == k[3]
           cs == {<<"source", a, k[4]>>, <<"revision", a, 0>>, <<"orphaned", a, FALSE>>}
           e == <<"CONTAINS", k[2], a>>
           h == <<"LIVES_IN", a, k[2]>>
           n == <<"node", a>>
           x == NodeProbe(a, cs)
           y == EdgeProbe(e)
           z == EdgeProbe(h)
<1>1. EnsureNode(a, cs) = <<x>> /\ Flat(k, x) /\ Calm(x) /\ Gives(x, n)
  <2>1. ASSUME NEW f \in cs PROVE f[1] # "head"
    <3>1. f = <<"source", a, k[4]>> \/ f = <<"revision", a, 0>> \/ f = <<"orphaned", a, FALSE>>
      OBVIOUS
    <3>2. \A p, q : /\ <<"source", p, q>>[1] = "source" /\ <<"revision", p, q>>[1] = "revision"
                    /\ <<"orphaned", p, q>>[1] = "orphaned"
      OBVIOUS
    <3>3. f[1] = "source" \/ f[1] = "revision" \/ f[1] = "orphaned"
      BY <3>1, <3>2, Zenon
    <3> QED
      BY <3>3
  <2> HIDE DEF cs
  <2> QED
    BY <2>1, NodeProbeFlat
<1>2. EnsureEdge(e) = <<y>> /\ Flat(k, y) /\ Calm(y) /\ Gives(y, e)
  BY EdgeProbeFlat DEF Labels
<1>3. EnsureEdge(h) = <<z>> /\ Flat(k, z) /\ Calm(z) /\ Gives(z, h)
  BY EdgeProbeFlat DEF Labels
<1>4. Contract(k) = {n, e, h} /\ ~ Crowns(k)
  BY DEF Contract, Crowns
<1>5. /\ n[1] = "node" /\ e[1] = "CONTAINS" /\ h[1] = "LIVES_IN" /\ Ends(n) = {}
      /\ \A m : <<"node", m>> \in {n, e, h} => <<"node", m>> = n
  BY DEF Ends, Labels
<1>6. InscribeAvatar(k[2], k[3], k[4]) = <<x, y, z>>
  <2>1. InscribeAvatar(k[2], k[3], k[4]) = EnsureNode(a, cs) \o EnsureEdge(e) \o EnsureEdge(h)
    BY DEF InscribeAvatar
  <2>2. EnsureNode(a, cs) = <<x>> /\ EnsureEdge(e) = <<y>> /\ EnsureEdge(h) = <<z>>
    BY <1>1, <1>2, <1>3
  <2> HIDE DEF x, y, z, e, h, cs, a
  <2>3. InscribeAvatar(k[2], k[3], k[4]) = <<x>> \o <<y>> \o <<z>>
    BY <2>1, <2>2
  <2> QED
    BY <2>3, Listed
<1> HIDE DEF x, y, z, n, e, h
<1>7. \A f \in Contract(k) : f[1] # "HAS_KNOWLEDGE" /\ (Gives(x, f) \/ Gives(y, f) \/ Gives(z, f))
  BY <1>1, <1>2, <1>3, <1>4, <1>5
<1>8. \A m : <<"node", m>> \in Contract(k) =>
               \A f \in Contract(k) : m \in Ends(f) => Gives(x, <<"node", m>>)
  BY <1>1, <1>4, <1>5
<1> QED
  BY <1>1, <1>2, <1>3, <1>4, <1>6, <1>7, <1>8, CalmThree

LEMMA HonoursAppend ==
    ASSUME NEW k, k[1] = "appendMythos"
    PROVE  Honours(k, AppendMythos(k[2], k[3]))
<1> DEFINE e == <<"PREDECESSOR", k[2], k[3]>>
           n == <<"node", k[2]>>
           x == NodeProbe(k[2], {})
           y == EdgeProbe(e)
<1>1. EnsureNode(k[2], {}) = <<x>> /\ Flat(k, x) /\ Calm(x) /\ Gives(x, n)
  BY NodeProbeFlat
<1>2. EnsureEdge(e) = <<y>> /\ Flat(k, y) /\ Calm(y) /\ Gives(y, e)
  BY EdgeProbeFlat DEF Labels
<1>3. Contract(k) = {n, e} /\ ~ Crowns(k)
  BY DEF Contract, Crowns
<1>4. /\ n[1] = "node" /\ e[1] = "PREDECESSOR" /\ Ends(n) = {}
      /\ \A m : <<"node", m>> \in {n, e} => <<"node", m>> = n
  BY DEF Ends, Labels
<1>5. AppendMythos(k[2], k[3]) = <<x, y>>
  BY <1>1, <1>2, Listed DEF AppendMythos
<1> HIDE DEF x, y, n, e
<1> QED
  BY <1>1, <1>2, <1>3, <1>4, <1>5, CalmTwo

LEMMA PassageApart ==
    ASSUME NEW x \in {Palace} \cup Rooms, NEW y \in Rooms
    PROVE  LET q == Aqueduct(x, y)
           IN  /\ q \in Aqueducts /\ q \notin Triples /\ Birth(q) \notin Triples
               /\ Birth(q) \notin {q, x, y}
<1>1. Aqueduct(x, y) \in Aqueducts
  BY DEF Aqueducts
<1> DEFINE q == Aqueduct(x, y)
<1>2. Birth(q) \in {Birth(p) : p \in Aqueducts}
  BY <1>1
<1> HIDE DEF q
<1>3. q \in Aqueducts
  BY <1>1 DEF q
<1> QED
  BY <1>2, <1>3, FingerprintAssumption DEF q

LEMMA PassageGiven ==
    ASSUME NEW k, NEW x \in {Palace} \cup Rooms, NEW y \in Rooms
    PROVE  \E p : /\ GetOrCreateAqueduct(x, y) = <<p>> /\ Flat(k, p) /\ Calm(p)
                  /\ \A f \in Passage(x, y) : Gives(p, f)
<1> DEFINE q == Aqueduct(x, y)
           from == <<"AQUEDUCT_FROM", q, x>>
           to == <<"AQUEDUCT_TO", q, y>>
           a == Create(q, {<<"strength", q, 0>>})
           b == Join(from)
           c == Join(to)
           d == Create(Birth(q), {})
           m == <<a, b, c, d>>
           p == Probe({from, to}, <<>>, m)
<1>1. q \notin Triples /\ Birth(q) \notin Triples /\ Birth(q) \notin {q, x, y}
  BY PassageApart
<1>2. /\ a.do = "create" /\ a.node = q /\ a.columns = {<<"strength", q, 0>>}
      /\ b.do = "join" /\ b.edge = from /\ c.do = "join" /\ c.edge = to
      /\ d.do = "create" /\ d.node = Birth(q) /\ d.columns = {}
  BY DEF Create, Join
<1>3. /\ from[1] = "AQUEDUCT_FROM" /\ from[2] = q /\ from[3] = x
      /\ to[1] = "AQUEDUCT_TO" /\ to[2] = q /\ to[3] = y
      /\ <<"strength", q, 0>>[1] = "strength"
  OBVIOUS
<1> DEFINE br == Birth(q)
           st == <<"strength", q, 0>>
<1> HIDE DEF a, b, c, d, from, to, q, br, st
<1>4. Law(k, a) /\ Law(k, b) /\ Law(k, c) /\ Law(k, d)
  BY <1>1, <1>2, <1>3 DEF Law, Labels, st, br
<1>5. Puts(a, <<"node", q>>) /\ Puts(b, from) /\ Puts(c, to)
  BY <1>2 DEF Puts
<1>6. Len(m) = 4 /\ m[1] = a /\ m[2] = b /\ m[3] = c /\ m[4] = d
  OBVIOUS
<1> HIDE DEF m
<1>7. /\ \A i \in 1 .. Len(m) : i = 1 \/ i = 2 \/ i = 3 \/ i = 4
      /\ 1 \in 1 .. Len(m) /\ 2 \in 1 .. Len(m) /\ 3 \in 1 .. Len(m)
  BY <1>6, UpToFive
<1>8. \A j \in 1 .. Len(m) : m[j].do \in {"create", "join"} /\ Law(k, m[j])
  BY <1>2, <1>4, <1>6, <1>7
<1>9. ASSUME NEW i \in 1 .. Len(m), NEW j \in 1 .. Len(m), m[i].do = "create", m[j].do = "join",
             m[i].node \in {m[j].edge[2], m[j].edge[3]}
      PROVE  i < j
  <2>1. j = 2 \/ j = 3
    BY <1>2, <1>6, <1>7, <1>9
  <2>2. {m[j].edge[2], m[j].edge[3]} \subseteq {q, x, y}
    BY <1>2, <1>3, <1>6, <2>1
  <2>3. i # 4
    BY <1>1, <1>2, <1>6, <1>9, <2>2 DEF br
  <2>4. i # 2 /\ i # 3
    BY <1>2, <1>6, <1>9
  <2> QED
    BY <1>7, <2>1, <2>3, <2>4
<1>10. Adds(k, m)
  BY <1>8, <1>9 DEF Adds
<1>11. p.do = "probe" /\ p.facts = {from, to} /\ p.found = <<>> /\ p.missing = m
  BY DEF Probe
<1>12. GetOrCreateAqueduct(x, y) = <<p>>
  BY DEF GetOrCreateAqueduct, p, m, a, b, c, d, from, to, q
<1> HIDE DEF p
<1>13. Flat(k, p) /\ Calm(p)
  BY <1>10, <1>11 DEF Flat, Law, Calm
<1>14. Gives(p, <<"node", q>>)
  <2>1. Told(p.facts, <<"node", q>>)
    BY <1>3, <1>11 DEF Told, Labels
  <2> QED
    BY <1>5, <1>6, <1>7, <1>11, <2>1 DEF Gives
<1>15. Gives(p, from) /\ Gives(p, to)
  BY <1>5, <1>6, <1>7, <1>11 DEF Gives, Told
<1>16. ASSUME NEW f \in Passage(x, y) PROVE Gives(p, f)
  BY <1>14, <1>15, <1>16 DEF Passage, q, from, to
<1> QED
  BY <1>12, <1>13, <1>16

LEMMA PassageKinds ==
    ASSUME NEW x \in {Palace} \cup Rooms, NEW y \in Rooms, NEW f \in Passage(x, y)
    PROVE  /\ f[1] # "HAS_KNOWLEDGE" /\ f[1] \in {"node", "AQUEDUCT_FROM", "AQUEDUCT_TO"}
           /\ f[1] = "node" => f = <<"node", Aqueduct(x, y)>>
           /\ f[1] # "node" => f[2] = Aqueduct(x, y) /\ f[3] \in Rooms /\ Ends(f) = {f[2], f[3]}
           /\ f[1] = "node" => Ends(f) = {}
<1> DEFINE q == Aqueduct(x, y)
<1> HIDE DEF q
<1>1. CASE f = <<"node", q>>
  BY <1>1 DEF Ends, Labels, q
<1>2. CASE f = <<"AQUEDUCT_FROM", q, x>> /\ f \in Edges
  <2>1. x \in Rooms
    BY <1>2 DEF Edges
  <2> QED
    BY <1>2, <2>1 DEF Ends, Labels, q
<1>3. CASE f = <<"AQUEDUCT_TO", q, y>>
  BY <1>3 DEF Ends, Labels, q
<1> QED
  BY <1>1, <1>2, <1>3 DEF Passage, q

LEMMA PassageNode ==
    ASSUME NEW x \in {Palace} \cup Rooms, NEW y \in Rooms
    PROVE  \A n : <<"node", n>> \in Passage(x, y) <=> n = Aqueduct(x, y)
<1>1. \A n : <<"node", n>>[1] = "node" /\ (<<"node", n>> = <<"node", Aqueduct(x, y)>> => n = Aqueduct(x, y))
  OBVIOUS
<1>2. \A n : <<"node", n>> \in Passage(x, y) => n = Aqueduct(x, y)
  BY <1>1, PassageKinds
<1>3. <<"node", Aqueduct(x, y)>> \in Passage(x, y)
  BY DEF Passage
<1> QED
  BY <1>2, <1>3

LEMMA ListedTwo ==
    ASSUME NEW a, NEW b, NEW c, NEW d, NEW e
    PROVE  /\ <<a>> \o <<b, c>> = <<a, b, c>>
           /\ (<<a>> \o <<b, c>>) \o <<d, e>> = <<a, b, c, d, e>>
<1> DEFINE S == {a, b, c, d, e}
<1>1. /\ <<a>> \in Seq(S) /\ <<b, c>> \in Seq(S) /\ <<d, e>> \in Seq(S)
      /\ <<a, b, c>> \in Seq(S) /\ <<a, b, c, d, e>> \in Seq(S)
  OBVIOUS
<1> HIDE DEF S
<1>2. <<a>> \o <<b, c>> = <<a, b, c>>
  <2>1. Len(<<a>> \o <<b, c>>) = 3 /\ \A i \in 1 .. 3 : (<<a>> \o <<b, c>>)[i] = <<a, b, c>>[i]
    BY <1>1, ConcatProperties
  <2> QED
    BY <1>1, <2>1, ConcatProperties, SeqEqual
<1>3. <<a, b, c>> \o <<d, e>> = <<a, b, c, d, e>>
  <2>1. /\ Len(<<a, b, c>> \o <<d, e>>) = 5
        /\ \A i \in 1 .. 5 : (<<a, b, c>> \o <<d, e>>)[i] = <<a, b, c, d, e>>[i]
    BY <1>1, ConcatProperties
  <2> QED
    BY <1>1, <2>1, ConcatProperties, SeqEqual
<1> QED
  BY <1>2, <1>3

LEMMA StrengthFlat ==
    ASSUME NEW k, NEW q
    PROVE  /\ Flat(k, ReadStrength(q)) /\ Calm(ReadStrength(q))
           /\ Flat(k, Raise(q)) /\ Calm(Raise(q))
           /\ Flat(k, Must(q)) /\ Calm(Must(q))
BY DEF ReadStrength, Raise, Must, Flat, Law, Calm

LEMMA HonoursAqueduct ==
    ASSUME NEW k, k[1] = "getOrCreateAqueduct", k[2] \in Rooms, k[3] \in Rooms
    PROVE  Honours(k, GetOrCreateAqueduct(k[2], k[3]))
<1>1. PICK p : /\ GetOrCreateAqueduct(k[2], k[3]) = <<p>> /\ Flat(k, p) /\ Calm(p)
               /\ \A f \in Passage(k[2], k[3]) : Gives(p, f)
  BY PassageGiven
<1>2. Contract(k) = Passage(k[2], k[3]) /\ ~ Crowns(k)
  BY DEF Contract, Crowns
<1>3. \A f \in Contract(k) : f[1] # "HAS_KNOWLEDGE" /\ Gives(p, f)
  BY <1>1, <1>2, PassageKinds
<1> QED
  BY <1>1, <1>2, <1>3, CalmOne

LEMMA HonoursMove ==
    ASSUME NEW k, k[1] = "move", k[2] \in Rooms, k[3] \in Rooms
    PROVE  Honours(k, Walk(k[2], k[3]))
<1> DEFINE q == Aqueduct(k[2], k[3])
<1>1. PICK p : /\ GetOrCreateAqueduct(k[2], k[3]) = <<p>> /\ Flat(k, p) /\ Calm(p)
               /\ \A f \in Passage(k[2], k[3]) : Gives(p, f)
  BY PassageGiven
<1>2. Contract(k) = Passage(k[2], k[3]) /\ ~ Crowns(k)
  BY DEF Contract, Crowns
<1>3. \A f \in Contract(k) : f[1] # "HAS_KNOWLEDGE" /\ Gives(p, f)
  BY <1>1, <1>2, PassageKinds
<1> DEFINE b == ReadStrength(q)
           c == Raise(q)
<1>4. Flat(k, b) /\ Calm(b) /\ Flat(k, c) /\ Calm(c)
  BY StrengthFlat
<1>5. Walk(k[2], k[3]) = <<p>> \o <<b, c>>
  BY <1>1 DEF Walk, UpdateAqueductStrength
<1> HIDE DEF b, c
<1>6. <<p>> \o <<b, c>> = <<p, b, c>>
  BY ListedTwo
<1> QED
  BY <1>1, <1>2, <1>3, <1>4, <1>5, <1>6, CalmThree

LEMMA HonoursNavigate ==
    ASSUME NEW k \in Navigations
    PROVE  Honours(k, RecordTraversal(k[2], k[3], k[4]))
<1> DEFINE q == Aqueduct(k[2], k[3])
           t == <<k[2], k[3], k[4]>>
<1>0. /\ k[1] = "navigate" /\ k[2] \in {Palace} \cup Rooms /\ k[3] \in Rooms /\ k[4] \in 0 .. MaxClock
  BY DEF Navigations
<1>1. PICK p : /\ GetOrCreateAqueduct(k[2], k[3]) = <<p>> /\ Flat(k, p) /\ Calm(p)
               /\ \A f \in Passage(k[2], k[3]) : Gives(p, f)
  BY <1>0, PassageGiven
<1>2. Contract(k) = Passage(k[2], k[3]) \cup {<<"node", t>>} /\ ~ Crowns(k)
  BY <1>0 DEF Contract, Crowns
<1>3. t \in Moves
  BY <1>0 DEF Moves
<1> DEFINE b == ReadStrength(q)
           c == Raise(q)
           d == Create(t, {})
           e == Must(q)
<1>4. Flat(k, b) /\ Calm(b) /\ Flat(k, c) /\ Calm(c) /\ Flat(k, e) /\ Calm(e)
  BY StrengthFlat
<1>5. RecordTraversal(k[2], k[3], k[4]) = (<<p>> \o <<b, c>>) \o <<d, e>>
  BY <1>1 DEF RecordTraversal, Walk, UpdateAqueductStrength
<1> HIDE DEF t
<1>6. d.do = "create" /\ d.node = t /\ d.columns = {}
  BY DEF Create
<1>7. t \notin Triples
  BY <1>3, FingerprintAssumption
<1>8. Flat(k, d) /\ Calm(d) /\ Gives(d, <<"node", t>>)
  BY <1>6, <1>7 DEF Flat, Law, Calm, Gives, Puts
<1> HIDE DEF b, c, d, e, q
<1>9. (<<p>> \o <<b, c>>) \o <<d, e>> = <<p, b, c, d, e>>
  BY ListedTwo
<1>10. /\ <<"node", t>>[1] = "node" /\ Ends(<<"node", t>>) = {}
       /\ \A n : <<"node", n>> = <<"node", t>> => n = t
  BY DEF Ends, Labels
<1>11. \A f \in Contract(k) : f[1] # "HAS_KNOWLEDGE" /\ (Gives(p, f) \/ Gives(d, f))
  BY <1>0, <1>1, <1>2, <1>8, <1>10, PassageKinds
<1>12. ASSUME NEW n, <<"node", n>> \in Contract(k), NEW f \in Contract(k), n \in Ends(f)
       PROVE  Gives(p, <<"node", n>>)
  <2>1. f \in Passage(k[2], k[3])
    BY <1>2, <1>10, <1>12
  <2>2. n = q \/ n \in Rooms
    BY <1>0, <1>12, <2>1, PassageKinds DEF q
  <2>3. t \notin Rooms
    BY <1>3, FingerprintAssumption
  <2>4. <<"node", n>> \in Passage(k[2], k[3])
    BY <1>0, <1>2, <1>10, <1>12, <2>2, <2>3, PassageNode DEF q
  <2> QED
    BY <1>1, <2>4
<1> QED
  BY <1>1, <1>2, <1>4, <1>5, <1>8, <1>9, <1>11, <1>12, CalmFive

LEMMA HonoursBirth ==
    ASSUME NEW k, k[1] = "aqueduct-created", k[2] \in Rooms, k[3] \in Rooms
    PROVE  LET q == Aqueduct(k[2], k[3])
           IN  Honours(k, EnsureNode(q, {<<"strength", q, 0>>})
                             \o EnsureEdge(<<"AQUEDUCT_FROM", q, k[2]>>)
                             \o EnsureEdge(<<"AQUEDUCT_TO", q, k[3]>>))
<1> DEFINE q == Aqueduct(k[2], k[3])
           cs == {<<"strength", q, 0>>}
           e == <<"AQUEDUCT_FROM", q, k[2]>>
           h == <<"AQUEDUCT_TO", q, k[3]>>
           n == <<"node", q>>
           x == NodeProbe(q, cs)
           y == EdgeProbe(e)
           z == EdgeProbe(h)
<1> HIDE DEF q
<1>1. EnsureNode(q, cs) = <<x>> /\ Flat(k, x) /\ Calm(x) /\ Gives(x, n)
  <2>1. \A f \in cs : f[1] # "head"
    OBVIOUS
  <2> HIDE DEF cs
  <2> QED
    BY <2>1, NodeProbeFlat
<1>2. EnsureEdge(e) = <<y>> /\ Flat(k, y) /\ Calm(y) /\ Gives(y, e)
  BY EdgeProbeFlat DEF Labels
<1>3. EnsureEdge(h) = <<z>> /\ Flat(k, z) /\ Calm(z) /\ Gives(z, h)
  BY EdgeProbeFlat DEF Labels
<1>4. Contract(k) = Passage(k[2], k[3]) /\ ~ Crowns(k)
  BY DEF Contract, Crowns
<1>5. \A f \in Contract(k) : f \in {n, e, h}
  BY <1>4 DEF Passage, q
<1>6. \A f \in Contract(k) : f[1] # "HAS_KNOWLEDGE"
  BY <1>4, PassageKinds
<1>7. \A m : <<"node", m>> \in Contract(k) => <<"node", m>> = n
  BY <1>4, PassageNode DEF q
<1> HIDE DEF x, y, z, n, e, h, cs
<1>8. EnsureNode(q, cs) \o EnsureEdge(e) \o EnsureEdge(h) = <<x, y, z>>
  BY <1>1, <1>2, <1>3, Listed
<1>9. Honours(k, <<x, y, z>>)
  BY <1>1, <1>2, <1>3, <1>4, <1>5, <1>6, <1>7, CalmThree
<1>10. Honours(k, EnsureNode(q, cs) \o EnsureEdge(e) \o EnsureEdge(h))
  BY <1>8, <1>9
<1> QED
  BY <1>10 DEF q, cs, e, h

\* The columns a verb sets are those it promises.
LEMMA HonoursAssign ==
    ASSUME NEW k, NEW a, ~ Redoes(k), ~ Crowns(k),
           \A f \in Contract(k) : f[1] \in {"source", "revision", "orphaned"} /\ f[2] = a
    PROVE  Honours(k, <<Assign(a, Contract(k))>>)
<1> DEFINE x == Assign(a, Contract(k))
           s == <<x>>
<1>1. x.do = "assign" /\ x.node = a /\ x.values = Contract(k)
  BY DEF Assign
<1> HIDE DEF x
<1>2. ASSUME NEW f \in x.values, NEW h, h[1] = f[1], h[2] = f[2] PROVE Hurts(k, h)
  BY <1>1, <1>2 DEF Hurts
<1>3. Flat(k, x)
  BY <1>1, <1>2 DEF Flat, Law
<1>4. Len(s) = 1 /\ s[1] = x /\ \A i \in 1 .. 1 : i = 1
  OBVIOUS
<1> HIDE DEF s
<1>5. ASSUME NEW f \in Contract(k), NEW g,
             \A n \in Ends(f) : Exists(g, n) \/ <<"node", n>> \in Contract(k)
      PROVE  Ready(s, f, g)
  <2>1. Gives(s[1], f)
    BY <1>1, <1>4 DEF Gives, Puts
  <2>2. ASSUME NEW n \in Ends(f) PROVE Comes(s, 1, n, g)
    <3>1. <<"node", n>>[1] = "node"
      OBVIOUS
    <3>2. Exists(g, n)
      BY <1>5, <3>1
    <3>3. Spares(s[1], <<"node", n>>)
      BY <1>1, <1>4, <3>1 DEF Spares
    <3> QED
      BY <1>4, <3>2, <3>3 DEF Comes
  <2>3. \A j \in 1 + 1 .. Len(s) : FALSE
    BY <1>4
  <2>4. f[1] # "HAS_KNOWLEDGE" /\ 1 \in 1 .. Len(s)
    BY <1>4
  <2> QED
    BY <2>1, <2>2, <2>3, <2>4 DEF Ready, Given
<1>6. Lines(k, s)
  BY <1>3, <1>4 DEF Lines
<1>7. Honours(k, s)
  BY <1>5, <1>6 DEF Honours
<1> QED
  BY <1>7 DEF s, x

LEMMA HonoursInscription ==
    ASSUME NEW k
    PROVE  /\ k[1] = "updateInscription" => Honours(k, UpdateInscription(k[2], k[3], k[4]))
           /\ k[1] \in {"markOrphaned", "inscription-orphaned"} => Honours(k, MarkOrphaned(k[2]))
           /\ k[1] = "inscription-updated" => Honours(k, <<Assign(k[2], {<<"source", k[2], k[3]>>})>>)
<1>1. \A p, q : /\ <<"source", p, q>>[1] = "source" /\ <<"source", p, q>>[2] = p
                /\ <<"revision", p, q>>[1] = "revision" /\ <<"revision", p, q>>[2] = p
                /\ <<"orphaned", p, q>>[1] = "orphaned" /\ <<"orphaned", p, q>>[2] = p
  OBVIOUS
<1>2. CASE k[1] = "updateInscription"
  <2>1. Contract(k) = {<<"source", k[2], k[3]>>, <<"revision", k[2], k[4]>>} /\ ~ Redoes(k) /\ ~ Crowns(k)
    BY <1>2 DEF Contract, Redoes, Crowns
  <2>2. \A f \in Contract(k) : f[1] \in {"source", "revision", "orphaned"} /\ f[2] = k[2]
    BY <1>1, <2>1
  <2>3. Honours(k, <<Assign(k[2], Contract(k))>>)
    BY <2>1, <2>2, HonoursAssign
  <2> QED
    BY <1>2, <2>1, <2>3 DEF UpdateInscription
<1>3. CASE k[1] \in {"markOrphaned", "inscription-orphaned"}
  <2>1. Contract(k) = {<<"orphaned", k[2], TRUE>>} /\ ~ Redoes(k) /\ ~ Crowns(k)
    BY <1>3 DEF Contract, Redoes, Crowns
  <2>2. \A f \in Contract(k) : f[1] \in {"source", "revision", "orphaned"} /\ f[2] = k[2]
    BY <1>1, <2>1
  <2>3. Honours(k, <<Assign(k[2], Contract(k))>>)
    BY <2>1, <2>2, HonoursAssign
  <2> QED
    BY <1>3, <2>1, <2>3 DEF MarkOrphaned
<1>4. CASE k[1] = "inscription-updated"
  <2>1. Contract(k) = {<<"source", k[2], k[3]>>} /\ ~ Redoes(k) /\ ~ Crowns(k)
    BY <1>4 DEF Contract, Redoes, Crowns
  <2>2. \A f \in Contract(k) : f[1] \in {"source", "revision", "orphaned"} /\ f[2] = k[2]
    BY <1>1, <2>1
  <2>3. Honours(k, <<Assign(k[2], Contract(k))>>)
    BY <2>1, <2>2, HonoursAssign
  <2> QED
    BY <1>4, <2>1, <2>3
<1> QED
  BY <1>2, <1>3, <1>4

LEMMA TripleProbe ==
    ASSUME NEW k, k[1] # "navigate", NEW t
    PROVE  \E p : /\ InsertTriple(t) = <<p>> /\ Flat(k, p) /\ Calm(p) /\ p.do = "probe"
                  /\ Gives(p, <<"node", t>>) /\ Gives(p, <<"HAS_KNOWLEDGE", Oracle, t>>)
<1> DEFINE e == <<"HAS_KNOWLEDGE", Oracle, t>>
           n == <<"node", t>>
           a == Create(t, {})
           b == Join(e)
           m == <<a, b>>
           p == Probe({n}, <<>>, m)
<1>1. /\ a.do = "create" /\ a.node = t /\ a.columns = {} /\ b.do = "join" /\ b.edge = e
      /\ e[1] = "HAS_KNOWLEDGE" /\ e[3] = t /\ n[1] = "node"
  BY DEF Create, Join
<1>2. Puts(a, n) /\ Puts(b, e) /\ Law(k, a) /\ Law(k, b)
  BY <1>1 DEF Puts, Law, Labels
<1>3. <<"node", e[3]>> = n
  BY <1>1
<1>4. InsertTriple(t) = <<p>>
  BY DEF InsertTriple
<1> HIDE DEF a, b, n, e
<1>5. Len(m) = 2 /\ m[1] = a /\ m[2] = b
  OBVIOUS
<1> HIDE DEF m
<1>6. (\A i \in 1 .. Len(m) : i = 1 \/ i = 2) /\ 1 \in 1 .. Len(m) /\ 2 \in 1 .. Len(m)
  BY <1>5, UpToFive
<1>7. Adds(k, m)
  BY <1>1, <1>2, <1>5, <1>6 DEF Adds
<1>8. p.do = "probe" /\ p.facts = {n} /\ p.found = <<>> /\ p.missing = m
  BY DEF Probe
<1> HIDE DEF p
<1>9. Flat(k, p) /\ Calm(p)
  BY <1>7, <1>8 DEF Flat, Law, Calm
<1>10. Told(p.facts, n) /\ Told(p.facts, e)
  BY <1>1, <1>3, <1>8 DEF Told
<1>11. Gives(p, n) /\ Gives(p, e)
  BY <1>2, <1>5, <1>6, <1>8, <1>10 DEF Gives
<1> QED
  BY <1>4, <1>8, <1>9, <1>11 DEF n, e

LEMMA TripleEnds ==
    ASSUME NEW t
    PROVE  /\ Ends(<<"node", t>>) = {} /\ <<"node", t>>[1] = "node"
           /\ Ends(<<"HAS_KNOWLEDGE", Oracle, t>>) = {Oracle, t}
           /\ <<"HAS_KNOWLEDGE", Oracle, t>>[1] = "HAS_KNOWLEDGE"
           /\ <<"HAS_KNOWLEDGE", Oracle, t>>[3] = t
           /\ \A n : <<"node", n>> \in {<<"node", t>>, <<"HAS_KNOWLEDGE", Oracle, t>>} => n = t
BY DEF Ends, Labels

LEMMA HonoursInsert ==
    ASSUME NEW k, k[1] = "insertTriple"
    PROVE  Honours(k, InsertTriple(k[2]))
<1> DEFINE t == k[2]
           e == <<"HAS_KNOWLEDGE", Oracle, t>>
           n == <<"node", t>>
<1>1. PICK p : /\ InsertTriple(t) = <<p>> /\ Flat(k, p) /\ Calm(p) /\ p.do = "probe"
               /\ Gives(p, n) /\ Gives(p, e)
  BY TripleProbe
<1>2. Contract(k) = {n, e} /\ ~ Crowns(k)
  BY DEF Contract, Crowns
<1> DEFINE s == <<p>>
<1>3. Len(s) = 1 /\ s[1] = p /\ 1 \in 1 .. Len(s) /\ \A i \in 1 .. 1 : i = 1
  OBVIOUS
<1> HIDE DEF s
<1>4. Lines(k, s)
  BY <1>1, <1>3 DEF Lines
<1>5. \A m, i : Spares(p, <<"node", m>>) /\ (i \in 1 + 1 .. Len(s) => FALSE) /\ (i \in 1 .. 1 - 1 => FALSE)
  BY <1>1, <1>3 DEF Spares
<1>6. ASSUME NEW f \in Contract(k), NEW g,
             \A m \in Ends(f) : Exists(g, m) \/ <<"node", m>> \in Contract(k),
             f[1] = "HAS_KNOWLEDGE" => ~ Exists(g, f[3])
      PROVE  Ready(s, f, g)
  <2>1. Gives(s[1], f)
    BY <1>1, <1>2, <1>3
  <2>2. ASSUME NEW m \in Ends(f) PROVE Comes(s, 1, m, g)
    <3>1. Exists(g, m) \/ m = t
      BY <1>2, <1>6, <2>2, TripleEnds
    <3>2. CASE Exists(g, m)
      BY <1>3, <1>5, <3>2 DEF Comes
    <3>3. CASE m = t
      BY <1>1, <1>3, <1>5, <3>3 DEF Comes
    <3> QED
      BY <3>1, <3>2, <3>3
  <2> QED
    BY <1>3, <1>5, <1>6, <2>1, <2>2 DEF Ready, Given
<1>7. Honours(k, s)
  BY <1>2, <1>4, <1>6 DEF Honours
<1> QED
  BY <1>1, <1>7 DEF s

LEMMA DropFlat ==
    ASSUME NEW k, Redoes(k)
    PROVE  /\ Flat(k, Drop(k[2])) /\ Drop(k[2]).do = "drop"
           /\ \A n : n # k[2] => Spares(Drop(k[2]), <<"node", n>>)
<1>1. Drop(k[2]).do = "drop" /\ Drop(k[2]).node = k[2]
  BY DEF Drop
<1>2. \A n : <<"node", n>>[1] = "node" /\ <<"node", n>>[2] = n
  OBVIOUS
<1> QED
  BY <1>1, <1>2 DEF Flat, Law, Spares, Labels

LEMMA HonoursDelete ==
    ASSUME NEW k, k[1] = "deleteTriple"
    PROVE  Honours(k, DeleteTriple(k[2]))
<1>1. Redoes(k) /\ ~ Crowns(k) /\ Contract(k) = {}
  BY DEF Redoes, Crowns, Contract
<1>2. Lines(k, <<Drop(k[2])>>)
  BY <1>1, DropFlat, FewLines
<1> QED
  BY <1>1, <1>2 DEF Honours, DeleteTriple

LEMMA HonoursUpdate ==
    ASSUME NEW k, k[1] = "updateTriple", k[2] \in Triples, k[3] \in Triples
    PROVE  Honours(k, UpdateTriple(k[2], k[3]))
<1> DEFINE t == k[3]
           e == <<"HAS_KNOWLEDGE", Oracle, t>>
           n == <<"node", t>>
           d == Drop(k[2])
<1>1. PICK p : /\ InsertTriple(t) = <<p>> /\ Flat(k, p) /\ Calm(p) /\ p.do = "probe"
               /\ Gives(p, n) /\ Gives(p, e)
  BY TripleProbe
<1>2. Contract(k) = {n, e} /\ ~ Crowns(k) /\ Redoes(k)
  BY DEF Contract, Crowns, Redoes
<1>3. Flat(k, d) /\ d.do = "drop" /\ \A m : m # k[2] => Spares(d, <<"node", m>>)
  BY <1>2, DropFlat
<1>4. Oracle # k[2]
  BY FingerprintAssumption
<1>5. UpdateTriple(k[2], k[3]) = <<d>> \o <<p>>
  BY <1>1 DEF UpdateTriple, DeleteTriple
<1> HIDE DEF d
<1>6. UpdateTriple(k[2], k[3]) = <<d, p>>
  BY <1>5, Listed
<1> DEFINE s == <<d, p>>
<1>7. /\ Len(s) = 2 /\ s[1] = d /\ s[2] = p /\ 2 \in 1 .. Len(s)
      /\ (\A i \in 1 .. 2 : i = 1 \/ i = 2) /\ (\A i \in 2 + 1 .. Len(s) : FALSE)
      /\ (\A i \in 1 .. 2 - 1 : i = 1) /\ 2 \in 1 .. 2 /\ (\A i \in 2 + 1 .. 2 : FALSE)
  OBVIOUS
<1>8. Lines(k, s)
  BY <1>1, <1>3, FewLines
<1> HIDE DEF s
<1>9. \A m : Spares(p, <<"node", m>>)
  BY <1>1 DEF Spares
<1>10. ASSUME NEW f \in Contract(k), NEW g,
              \A m \in Ends(f) : Exists(g, m) \/ <<"node", m>> \in Contract(k),
              f[1] = "HAS_KNOWLEDGE" => ~ Exists(g, f[3])
       PROVE  Ready(s, f, g)
  <2>1. Gives(s[2], f)
    BY <1>1, <1>2, <1>7
  <2>2. ASSUME NEW m \in Ends(f) PROVE Comes(s, 2, m, g)
    <3>1. m = t \/ (m = Oracle /\ Exists(g, m))
      <4>1. m \in {Oracle, t}
        <5>1. Ends(n) = {} /\ Ends(e) = {Oracle, t}
          BY TripleEnds
        <5> HIDE DEF n, e
        <5> QED
          BY <1>2, <2>2, <5>1
      <4>2. <<"node", m>> \in Contract(k) => m = t
        BY <1>2, TripleEnds
      <4> QED
        BY <1>10, <2>2, <4>1, <4>2
    <3>2. CASE m = Oracle /\ Exists(g, m)
      BY <1>3, <1>4, <1>7, <1>9, <3>2 DEF Comes
    <3>3. CASE m = t
      BY <1>1, <1>7, <3>3 DEF Comes
    <3> QED
      BY <3>1, <3>2, <3>3
  <2>3. \A j \in 1 .. 2 - 1 : s[j].do = "drop"
    BY <1>3, <1>7
  <2> QED
    BY <1>7, <1>10, <2>1, <2>2, <2>3 DEF Ready, Given
<1>11. Honours(k, s)
  BY <1>2, <1>8, <1>10 DEF Honours
<1> QED
  BY <1>6, <1>11 DEF s

\* A new head: after the node is there, the old edge goes before the new one
\* comes, and the column is set last.
LEMMA CrownLines ==
    ASSUME NEW k, Crowns(k)
    PROVE  /\ SwapHead(k[2]) = <<Unjoin("MYTHOS_HEAD", Palace), Join(CrownEdge(k))>>
           /\ HeadColumn(k[2]) = <<Assign(Palace, {CrownColumn(k)})>>
           /\ Flat(k, Unjoin("MYTHOS_HEAD", Palace)) /\ Flat(k, Join(CrownEdge(k)))
           /\ Flat(k, Assign(Palace, {CrownColumn(k)}))
           /\ Gives(Join(CrownEdge(k)), CrownEdge(k))
           /\ Gives(Assign(Palace, {CrownColumn(k)}), CrownColumn(k))
           /\ Unjoin("MYTHOS_HEAD", Palace).do = "unjoin"
           /\ Assign(Palace, {CrownColumn(k)}).do = "assign"
           /\ \A f : f[1] # "MYTHOS_HEAD" => Spares(Unjoin("MYTHOS_HEAD", Palace), f)
           /\ \A f : Spares(Join(CrownEdge(k)), f)
           /\ \A f : f[1] # "head" => Spares(Assign(Palace, {CrownColumn(k)}), f)
<1> DEFINE e == CrownEdge(k)
           c == CrownColumn(k)
           u == Unjoin("MYTHOS_HEAD", Palace)
           j == Join(e)
           a == Assign(Palace, {c})
<1>1. /\ u.do = "unjoin" /\ u.label = "MYTHOS_HEAD" /\ u.node = Palace
      /\ j.do = "join" /\ j.edge = e /\ a.do = "assign" /\ a.node = Palace /\ a.values = {c}
  BY DEF Unjoin, Join, Assign
<1>2. e[1] = "MYTHOS_HEAD" /\ c[1] = "head" /\ c[2] = Palace
  BY DEF CrownEdge, CrownColumn
<1>3. c \in Contract(k) /\ ~ Redoes(k)
  BY DEF Contract, Crowns, Redoes, CrownColumn
<1>4. SwapHead(k[2]) = <<u, j>> /\ HeadColumn(k[2]) = <<a>>
  BY DEF SwapHead, HeadColumn, CrownEdge, CrownColumn
<1>5. \A h : h[1] = c[1] /\ h[2] = c[2] => Hurts(k, h)
  BY <1>2, <1>3 DEF Hurts
<1> HIDE DEF u, j, a, e, c
<1>6. Flat(k, u)
  BY <1>1 DEF Flat, Law
<1>7. Flat(k, j)
  BY <1>1, <1>2 DEF Flat, Law, Labels, e
<1>8. Flat(k, a)
  BY <1>1, <1>2, <1>5 DEF Flat, Law, c
<1>9. Gives(j, e) /\ Gives(a, c)
  BY <1>1 DEF Gives, Puts
<1>10. (\A f : f[1] # "MYTHOS_HEAD" => Spares(u, f)) /\ (\A f : Spares(j, f))
  BY <1>1 DEF Spares
<1>11. \A f : f[1] # "head" => Spares(a, f)
  BY <1>1, <1>2 DEF Spares
<1> QED
  BY <1>1, <1>4, <1>6, <1>7, <1>8, <1>9, <1>10, <1>11 DEF e, c, u, j, a

\* Lines that take no node away give f when one of them does and the later ones
\* spare it.
LEMMA CrownReady ==
    ASSUME NEW s, NEW k, Len(s) \in Nat, \A j \in 1 .. Len(s) : \A n : Spares(s[j], <<"node", n>>),
           1 \in 1 .. Len(s), Gives(s[1], <<"node", k[2]>>),
           NEW i \in 1 .. Len(s), NEW f, f[1] # "HAS_KNOWLEDGE", Gives(s[i], f),
           \A j \in i + 1 .. Len(s) : Spares(s[j], f),
           NEW g, \A n \in Ends(f) : Exists(g, n) \/ n = k[2]
    PROVE  Ready(s, f, g)
<1>1. \A j \in 1 .. i : j \in 1 .. Len(s)
  OBVIOUS
<1>2. \A j \in 1 + 1 .. i : j \in 1 .. Len(s)
  OBVIOUS
<1>3. 1 \in 1 .. i
  OBVIOUS
<1>4. ASSUME NEW n \in Ends(f) PROVE Comes(s, i, n, g)
  <2>1. CASE Exists(g, n)
    BY <1>1, <2>1 DEF Comes
  <2>2. CASE n = k[2]
    BY <1>2, <1>3, <2>2 DEF Comes
  <2> QED
    BY <1>4, <2>1, <2>2
<1> QED
  BY <1>4 DEF Ready, Given

LEMMA ListedMore ==
    ASSUME NEW a, NEW b, NEW c, NEW d, NEW e
    PROVE  /\ <<a>> \o <<b, c>> \o <<d>> = <<a, b, c, d>>
           /\ <<a>> \o <<b, c>> \o <<d>> \o <<e>> = <<a, b, c, d, e>>
<1> DEFINE S == {a, b, c, d, e}
<1>1. /\ <<d>> \in Seq(S) /\ <<e>> \in Seq(S) /\ <<a, b, c>> \in Seq(S)
      /\ <<a, b, c, d>> \in Seq(S) /\ <<a, b, c, d, e>> \in Seq(S)
  OBVIOUS
<1> HIDE DEF S
<1>2. <<a, b, c>> \o <<d>> = <<a, b, c, d>>
  <2>1. Len(<<a, b, c>> \o <<d>>) = 4 /\ \A i \in 1 .. 4 : (<<a, b, c>> \o <<d>>)[i] = <<a, b, c, d>>[i]
    BY <1>1, ConcatProperties
  <2> QED
    BY <1>1, <2>1, ConcatProperties, SeqEqual
<1>3. <<a, b, c, d>> \o <<e>> = <<a, b, c, d, e>>
  <2>1. /\ Len(<<a, b, c, d>> \o <<e>>) = 5
        /\ \A i \in 1 .. 5 : (<<a, b, c, d>> \o <<e>>)[i] = <<a, b, c, d, e>>[i]
    BY <1>1, ConcatProperties
  <2> QED
    BY <1>1, <2>1, ConcatProperties, SeqEqual
<1> QED
  BY <1>2, <1>3, ListedTwo

LEMMA HonoursHead ==
    ASSUME NEW k, k[1] = "setMythosHead"
    PROVE  Honours(k, SetMythosHead(k[2]))
<1> DEFINE n == <<"node", k[2]>>
           e == CrownEdge(k)
           c == CrownColumn(k)
           x == NodeProbe(k[2], {})
           u == Unjoin("MYTHOS_HEAD", Palace)
           j == Join(e)
           a == Assign(Palace, {c})
           s == <<x, u, j, a>>
<1>1. Crowns(k)
  BY DEF Crowns
<1>2. EnsureNode(k[2], {}) = <<x>> /\ Flat(k, x) /\ Calm(x) /\ Gives(x, n)
  BY NodeProbeFlat
<1>3. /\ SwapHead(k[2]) = <<u, j>> /\ HeadColumn(k[2]) = <<a>>
      /\ Flat(k, u) /\ Flat(k, j) /\ Flat(k, a) /\ Gives(j, e) /\ Gives(a, c)
      /\ u.do = "unjoin" /\ a.do = "assign"
      /\ (\A f : f[1] # "MYTHOS_HEAD" => Spares(u, f)) /\ (\A f : Spares(j, f))
      /\ (\A f : f[1] # "head" => Spares(a, f))
  BY <1>1, CrownLines
<1>4. Contract(k) = {n, e, c}
  BY DEF Contract, CrownEdge, CrownColumn
<1>5. /\ n[1] = "node" /\ e[1] = "MYTHOS_HEAD" /\ c[1] = "head"
      /\ \A m : <<"node", m>>[1] = "node" /\ (<<"node", m>> \in {n, e, c} => m = k[2])
  BY DEF CrownEdge, CrownColumn
<1>6. \A f : Spares(x, f)
  BY <1>2 DEF Calm, Spares
<1>7. SetMythosHead(k[2]) = <<x>> \o <<u, j>> \o <<a>>
  BY <1>2, <1>3 DEF SetMythosHead
<1> HIDE DEF n, e, c, x, u, j, a
<1>8. <<x>> \o <<u, j>> \o <<a>> = s
  BY ListedMore
<1>9. /\ Len(s) = 4 /\ s[1] = x /\ s[2] = u /\ s[3] = j /\ s[4] = a
      /\ \A i \in 1 .. 4 : i = 1 \/ i = 2 \/ i = 3 \/ i = 4
      /\ \A i \in 1 + 1 .. 4 : i = 2 \/ i = 3 \/ i = 4
      /\ \A i \in 3 + 1 .. 4 : i = 4
      /\ \A i \in 4 + 1 .. 4 : FALSE
      /\ {1, 2, 3, 4} \subseteq 1 .. 4
  OBVIOUS
<1>10. Lines(k, s)
  BY <1>2, <1>3, FewLines
<1> HIDE DEF s
<1>11. \A i \in 1 .. Len(s) : \A m : Spares(s[i], <<"node", m>>)
  BY <1>3, <1>5, <1>6, <1>9
<1>12. ASSUME NEW f \in Contract(k), NEW g,
              \A m \in Ends(f) : Exists(g, m) \/ <<"node", m>> \in Contract(k)
       PROVE  Ready(s, f, g)
  <2>1. \A m \in Ends(f) : Exists(g, m) \/ m = k[2]
    BY <1>4, <1>5, <1>12
  <2>2. /\ Len(s) \in Nat /\ 1 \in 1 .. Len(s) /\ 3 \in 1 .. Len(s) /\ 4 \in 1 .. Len(s)
        /\ Gives(s[1], <<"node", k[2]>>) /\ f[1] # "HAS_KNOWLEDGE"
    BY <1>2, <1>4, <1>5, <1>9, <1>12 DEF n
  <2>3. CASE f = n
    <3>1. Gives(s[1], f) /\ \A i \in 1 + 1 .. Len(s) : Spares(s[i], f)
      BY <1>2, <1>3, <1>5, <1>9, <2>3
    <3> QED
      BY <1>11, <2>1, <2>2, <3>1, CrownReady
  <2>4. CASE f = e
    <3>1. Gives(s[3], f) /\ \A i \in 3 + 1 .. Len(s) : Spares(s[i], f)
      BY <1>3, <1>5, <1>9, <2>4
    <3> QED
      BY <1>11, <2>1, <2>2, <3>1, CrownReady
  <2>5. CASE f = c
    <3>1. Gives(s[4], f) /\ \A i \in 4 + 1 .. Len(s) : Spares(s[i], f)
      BY <1>3, <1>5, <1>9, <2>5
    <3> QED
      BY <1>11, <2>1, <2>2, <3>1, CrownReady
  <2> QED
    BY <1>4, <1>12, <2>3, <2>4, <2>5
<1>13. Honours(k, s)
  BY <1>3, <1>9, <1>10, <1>12 DEF Honours
<1> QED
  BY <1>7, <1>8, <1>13

LEMMA HonoursNaming ==
    ASSUME NEW k, k[1] = "true-naming"
    PROVE  Honours(k, EnsureNode(k[2], {}) \o SwapHead(k[2])
                          \o EnsureEdge(<<"PREDECESSOR", k[2], k[3]>>) \o HeadColumn(k[2]))
<1> DEFINE n == <<"node", k[2]>>
           e == CrownEdge(k)
           c == CrownColumn(k)
           h == <<"PREDECESSOR", k[2], k[3]>>
           x == NodeProbe(k[2], {})
           u == Unjoin("MYTHOS_HEAD", Palace)
           j == Join(e)
           y == EdgeProbe(h)
           a == Assign(Palace, {c})
           s == <<x, u, j, y, a>>
<1>1. Crowns(k)
  BY DEF Crowns
<1>2. EnsureNode(k[2], {}) = <<x>> /\ Flat(k, x) /\ Calm(x) /\ Gives(x, n)
  BY NodeProbeFlat
<1>3. /\ SwapHead(k[2]) = <<u, j>> /\ HeadColumn(k[2]) = <<a>>
      /\ Flat(k, u) /\ Flat(k, j) /\ Flat(k, a) /\ Gives(j, e) /\ Gives(a, c)
      /\ u.do = "unjoin" /\ a.do = "assign"
      /\ (\A f : f[1] # "MYTHOS_HEAD" => Spares(u, f)) /\ (\A f : Spares(j, f))
      /\ (\A f : f[1] # "head" => Spares(a, f))
  BY <1>1, CrownLines
<1>4. Contract(k) = {n, e, c, h}
  BY DEF Contract, CrownEdge, CrownColumn
<1>5. /\ n[1] = "node" /\ e[1] = "MYTHOS_HEAD" /\ c[1] = "head" /\ h[1] = "PREDECESSOR"
      /\ \A m : <<"node", m>>[1] = "node" /\ (<<"node", m>> \in {n, e, c, h} => m = k[2])
  BY DEF CrownEdge, CrownColumn
<1>6. EnsureEdge(h) = <<y>> /\ Flat(k, y) /\ Calm(y) /\ Gives(y, h)
  BY EdgeProbeFlat DEF Labels
<1>7. (\A f : Spares(x, f)) /\ (\A f : Spares(y, f))
  BY <1>2, <1>6 DEF Calm, Spares
<1>8. EnsureNode(k[2], {}) \o SwapHead(k[2]) \o EnsureEdge(h) \o HeadColumn(k[2]) = s
  <2>1. EnsureNode(k[2], {}) \o SwapHead(k[2]) \o EnsureEdge(h) \o HeadColumn(k[2])
           = <<x>> \o <<u, j>> \o <<y>> \o <<a>>
    BY <1>2, <1>3, <1>6
  <2> HIDE DEF x, u, j, y, a
  <2>2. <<x>> \o <<u, j>> \o <<y>> \o <<a>> = s
    BY ListedMore
  <2> QED
    BY <2>1, <2>2
<1> HIDE DEF n, e, c, x, u, j, a, y
<1>9. /\ Len(s) = 5 /\ s[1] = x /\ s[2] = u /\ s[3] = j /\ s[4] = y /\ s[5] = a
      /\ \A i \in 1 .. 5 : i = 1 \/ i = 2 \/ i = 3 \/ i = 4 \/ i = 5
      /\ \A i \in 1 + 1 .. 5 : i = 2 \/ i = 3 \/ i = 4 \/ i = 5
      /\ \A i \in 3 + 1 .. 5 : i = 4 \/ i = 5
      /\ \A i \in 4 + 1 .. 5 : i = 5
      /\ \A i \in 5 + 1 .. 5 : FALSE
      /\ {1, 2, 3, 4, 5} \subseteq 1 .. 5
  OBVIOUS
<1>10. Lines(k, s)
  BY <1>2, <1>3, <1>6, FewLines
<1> HIDE DEF s, h
<1>11. \A i \in 1 .. Len(s) : \A m : Spares(s[i], <<"node", m>>)
  BY <1>3, <1>5, <1>7, <1>9
<1>12. ASSUME NEW f \in Contract(k), NEW g,
              \A m \in Ends(f) : Exists(g, m) \/ <<"node", m>> \in Contract(k)
       PROVE  Ready(s, f, g)
  <2>1. \A m \in Ends(f) : Exists(g, m) \/ m = k[2]
    BY <1>4, <1>5, <1>12 DEF h
  <2>2. /\ Len(s) \in Nat /\ 1 \in 1 .. Len(s) /\ 3 \in 1 .. Len(s) /\ 4 \in 1 .. Len(s)
        /\ 5 \in 1 .. Len(s)
        /\ Gives(s[1], <<"node", k[2]>>) /\ f[1] # "HAS_KNOWLEDGE"
    BY <1>2, <1>4, <1>5, <1>9, <1>12 DEF n, h
  <2>3. CASE f = n
    <3>1. Gives(s[1], f) /\ \A i \in 1 + 1 .. Len(s) : Spares(s[i], f)
      BY <1>2, <1>3, <1>5, <1>7, <1>9, <2>3
    <3> QED
      BY <1>11, <2>1, <2>2, <3>1, CrownReady
  <2>4. CASE f = e
    <3>1. Gives(s[3], f) /\ \A i \in 3 + 1 .. Len(s) : Spares(s[i], f)
      BY <1>3, <1>5, <1>7, <1>9, <2>4
    <3> QED
      BY <1>11, <2>1, <2>2, <3>1, CrownReady
  <2>5. CASE f = h
    <3>1. Gives(s[4], f) /\ \A i \in 4 + 1 .. Len(s) : Spares(s[i], f)
      BY <1>3, <1>5, <1>6, <1>9, <2>5
    <3> QED
      BY <1>11, <2>1, <2>2, <3>1, CrownReady
  <2>6. CASE f = c
    <3>1. Gives(s[5], f) /\ \A i \in 5 + 1 .. Len(s) : Spares(s[i], f)
      BY <1>3, <1>5, <1>9, <2>6
    <3> QED
      BY <1>11, <2>1, <2>2, <3>1, CrownReady
  <2> QED
    BY <1>4, <1>12, <2>3, <2>4, <2>5, <2>6 DEF h
<1>13. Honours(k, s)
  BY <1>3, <1>9, <1>10, <1>12 DEF Honours
<1> QED
  BY <1>8, <1>13 DEF h

LEMMA HonoursMirrored ==
    ASSUME NEW k \in MirrorKinds
    PROVE  /\ Honours(k, MirrorKind(k)) /\ ~ Redoes(k) /\ k[1] # "navigate"
           /\ \A f \in Contract(k) : f[1] # "HAS_KNOWLEDGE"
<1>1. CASE k[1] = "palace-minted" /\ k[2] = Palace
  <2>1. MirrorKind(k) = EnsureNode(k[2], {}) /\ Contract(k) = {<<"node", k[2]>>} /\ ~ Redoes(k)
    BY <1>1 DEF MirrorKind, EnsurePalace, Contract, Redoes
  <2> QED
    BY <1>1, <2>1, HonoursNode
<1>2. CASE k[1] = "inscription-pending-embedding"
  <2>1. MirrorKind(k) = <<>> /\ Contract(k) = {} /\ ~ Redoes(k) /\ ~ Crowns(k)
    BY <1>2 DEF MirrorKind, Contract, Redoes, Crowns
  <2>2. \A j \in 1 .. Len(<<>>) : FALSE
    OBVIOUS
  <2> QED
    BY <1>2, <2>1, <2>2 DEF Honours, Lines
<1>3. CASE k[1] = "room-added"
  <2>1. MirrorKind(k) = AddRoom(k[2]) /\ ~ Redoes(k)
        /\ Contract(k) = {<<"node", k[2]>>, <<"CONTAINS", Palace, k[2]>>}
    BY <1>3 DEF MirrorKind, Contract, Redoes
  <2> QED
    BY <1>3, <2>1, HonoursRoom
<1>4. CASE k[1] = "avatar-inscribed"
  <2>1. MirrorKind(k) = InscribeAvatar(k[2], k[3], k[4]) /\ ~ Redoes(k)
        /\ Contract(k) = {<<"node", k[3]>>, <<"CONTAINS", k[2], k[3]>>, <<"LIVES_IN", k[3], k[2]>>}
    BY <1>4 DEF MirrorKind, Contract, Redoes
  <2> QED
    BY <1>4, <2>1, HonoursInscribe
<1>5. CASE k[1] = "move" /\ k[2] \in Rooms /\ k[3] \in Rooms
  <2>1. MirrorKind(k) = Walk(k[2], k[3]) /\ ~ Redoes(k) /\ Contract(k) = Passage(k[2], k[3])
    BY <1>5 DEF MirrorKind, Contract, Redoes
  <2> QED
    BY <1>5, <2>1, HonoursMove, PassageKinds
<1>6. CASE k[1] = "aqueduct-created" /\ k[2] \in Rooms /\ k[3] \in Rooms
  <2> DEFINE q == Aqueduct(k[2], k[3])
             s == EnsureNode(q, {<<"strength", q, 0>>})
                     \o EnsureEdge(<<"AQUEDUCT_FROM", q, k[2]>>)
                     \o EnsureEdge(<<"AQUEDUCT_TO", q, k[3]>>)
  <2>1. ~ Redoes(k) /\ Contract(k) = Passage(k[2], k[3])
    BY <1>6 DEF Contract, Redoes
  <2>2. MirrorKind(k) = s
    BY <1>6 DEF MirrorKind
  <2>3. Honours(k, s)
    BY <1>6, HonoursBirth
  <2> HIDE DEF s
  <2> QED
    BY <1>6, <2>1, <2>2, <2>3, PassageKinds
<1>7. CASE k[1] = "true-naming"
  <2> DEFINE s == EnsureNode(k[2], {}) \o SwapHead(k[2])
                     \o EnsureEdge(<<"PREDECESSOR", k[2], k[3]>>) \o HeadColumn(k[2])
  <2>1. ~ Redoes(k)
        /\ Contract(k) = {<<"node", k[2]>>, <<"MYTHOS_HEAD", Palace, k[2]>>, <<"head", Palace, k[2]>>,
                          <<"PREDECESSOR", k[2], k[3]>>}
    BY <1>7 DEF Contract, Redoes
  <2>2. MirrorKind(k) = s
    BY <1>7 DEF MirrorKind
  <2>3. Honours(k, s)
    BY <1>7, HonoursNaming
  <2> HIDE DEF s
  <2> QED
    BY <1>7, <2>1, <2>2, <2>3
<1>8. CASE k[1] = "inscription-updated"
  <2>1. MirrorKind(k) = <<Assign(k[2], {<<"source", k[2], k[3]>>})>> /\ ~ Redoes(k)
        /\ Contract(k) = {<<"source", k[2], k[3]>>}
    BY <1>8 DEF MirrorKind, Contract, Redoes
  <2> QED
    BY <1>8, <2>1, HonoursInscription
<1>9. CASE k[1] = "inscription-orphaned"
  <2>1. MirrorKind(k) = MarkOrphaned(k[2]) /\ ~ Redoes(k) /\ Contract(k) = {<<"orphaned", k[2], TRUE>>}
    BY <1>9 DEF MirrorKind, Contract, Redoes
  <2>2. \A p, q : <<"orphaned", p, q>>[1] = "orphaned"
    OBVIOUS
  <2> QED
    BY <1>9, <2>1, <2>2, HonoursInscription
<1> QED
  BY <1>1, <1>2, <1>3, <1>4, <1>5, <1>6, <1>7, <1>8, <1>9 DEF MirrorKinds

\* One more line before the others gives the nodes they need.
LEMMA ReadyBehind ==
    ASSUME NEW S, NEW s \in Seq(S), NEW x, Calm(x), NEW f, f[1] # "HAS_KNOWLEDGE", NEW g, NEW h,
           \A n : Exists(h, n) => Exists(g, n) \/ Gives(x, <<"node", n>>),
           f \in h => f \in g \/ (Gives(x, f) /\ Ends(f) = {}),
           Ready(s, f, h)
    PROVE  Ready(<<x>> \o s, f, g)
<1> DEFINE u == <<x>> \o s
<1>1. /\ Len(s) \in Nat /\ Len(u) = Len(s) + 1 /\ u[1] = x
      /\ \A j \in 1 .. Len(s) : u[j + 1] = s[j]
  <2>1. <<x>> \in Seq({x}) /\ Len(<<x>>) = 1 /\ <<x>>[1] = x /\ 1 \in 1 .. 1
    OBVIOUS
  <2>2. \A j \in 1 .. Len(s) : u[1 + j] = s[j]
    BY <2>1, JoinedPlaces
  <2>3. Len(s) \in Nat /\ Len(u) = Len(s) + 1 /\ u[1] = x
    BY <2>1, JoinedPlaces
  <2> QED
    BY <2>2, <2>3
<1> HIDE DEF u
<1>2. \A e : Spares(x, e)
  BY DEF Calm, Spares
<1>3. \A j \in 1 + 1 .. Len(u) : j - 1 \in 1 .. Len(s) /\ u[j] = s[j - 1]
  <2>1. ASSUME NEW j \in 1 + 1 .. Len(u) PROVE j - 1 \in 1 .. Len(s) /\ u[j] = s[j - 1]
    <3>1. j - 1 \in 1 .. Len(s) /\ (j - 1) + 1 = j
      BY <1>1
    <3> QED
      BY <1>1, <3>1
  <2> QED
    BY <2>1
<1>4. Len(u) \in Nat /\ 1 \in 1 .. Len(u)
  BY <1>1
<1>5. CASE f \in h /\ \A j \in 1 .. Len(s) : Spares(s[j], f)
  <2>1. \A j \in 1 + 1 .. Len(u) : Spares(u[j], f)
    BY <1>3, <1>5
  <2>2. CASE f \in g
    <3>1. \A j \in 1 .. Len(u) : j = 1 \/ j \in 1 + 1 .. Len(u)
      BY <1>4
    <3>2. \A j \in 1 .. Len(u) : Spares(u[j], f)
      BY <1>1, <1>2, <2>1, <3>1
    <3>3. Ready(u, f, g)
      BY <2>2, <3>2 DEF Ready
    <3> QED
      BY <3>3 DEF u
  <2>3. CASE Gives(x, f) /\ Ends(f) = {}
    BY <1>1, <1>4, <2>1, <2>3 DEF Ready, Given
  <2> QED
    BY <1>5, <2>2, <2>3
<1>6. ASSUME NEW i \in 1 .. Len(s), Given(s, i, f, h) PROVE Ready(u, f, g)
  <2>1. i + 1 \in 1 .. Len(u) /\ u[i + 1] = s[i] /\ 1 \in 1 .. i + 1
    BY <1>1
  <2>2. ASSUME NEW j \in (i + 1) + 1 .. Len(u) PROVE Spares(u[j], f)
    <3>1. j \in 1 + 1 .. Len(u) /\ j - 1 \in i + 1 .. Len(s)
      BY <1>1
    <3> QED
      BY <1>3, <1>6, <3>1 DEF Given
  <2>3. ASSUME NEW n \in Ends(f) PROVE Comes(u, i + 1, n, g)
    <3> DEFINE e == <<"node", n>>
    <3>1. Comes(s, i, n, h)
      BY <1>6, <2>3 DEF Given
    <3>2. \A j \in 1 + 1 .. i + 1 : j - 1 \in 1 .. i /\ u[j] = s[j - 1]
      <4>1. \A j \in 1 + 1 .. i + 1 : j \in 1 + 1 .. Len(u) /\ j - 1 \in 1 .. i
        BY <1>1
      <4> QED
        BY <1>3, <4>1
    <3>3. CASE Exists(h, n) /\ \A j \in 1 .. i : Spares(s[j], e)
      <4>1. \A j \in 1 + 1 .. i + 1 : Spares(u[j], e)
        BY <3>2, <3>3
      <4>2. CASE Exists(g, n)
        <5>1. \A j \in 1 .. i + 1 : j = 1 \/ j \in 1 + 1 .. i + 1
          OBVIOUS
        <5> QED
          BY <1>1, <1>2, <4>1, <4>2, <5>1 DEF Comes
      <4>3. CASE Gives(x, e)
        BY <1>1, <2>1, <4>1, <4>3 DEF Comes
      <4> QED
        BY <3>3, <4>2, <4>3
    <3>4. ASSUME NEW p \in 1 .. i, Gives(s[p], e), \A j \in p + 1 .. i : Spares(s[j], e)
          PROVE  Comes(u, i + 1, n, g)
      <4>1. p + 1 \in 1 .. i + 1 /\ Gives(u[p + 1], e)
        BY <1>1, <3>4
      <4>2. ASSUME NEW j \in (p + 1) + 1 .. i + 1 PROVE Spares(u[j], e)
        <5>1. j \in 1 + 1 .. i + 1 /\ j - 1 \in p + 1 .. i
          OBVIOUS
        <5> QED
          BY <3>2, <3>4, <5>1
      <4> QED
        BY <4>1, <4>2 DEF Comes
    <3> QED
      BY <3>1, <3>3, <3>4 DEF Comes
  <2>4. Given(u, i + 1, f, g)
    BY <1>6, <2>1, <2>2, <2>3 DEF Given
  <2> QED
    BY <2>1, <2>4 DEF Ready
<1> QED
  BY <1>5, <1>6 DEF Ready, u

\* The lines s with one more, x, before them.
Longer(k, x, s, u) ==
    /\ Lines(k, u) /\ u[1] = x /\ Len(u) = Len(s) + 1 /\ Len(s) \in Nat
    /\ \A j \in 2 .. Len(s) + 1 : j - 1 \in 1 .. Len(s) /\ u[j] = s[j - 1]
    /\ \A d : (\E i \in 1 .. Len(s) : s[i].do = d) => \E i \in 1 .. Len(u) : u[i].do = d

LEMMA LinesBehind ==
    ASSUME NEW S, NEW s \in Seq(S), NEW x, NEW k, Flat(k, x), Lines(k, s)
    PROVE  Longer(k, x, s, <<x>> \o s) /\ <<x>> \o s \in Seq(S \cup {x})
<1> DEFINE u == <<x>> \o s
<1>1. <<x>> \in Seq({x}) /\ Len(<<x>>) = 1 /\ <<x>>[1] = x /\ 1 \in 1 .. 1
  OBVIOUS
<1>2. \A j \in 1 .. Len(s) : u[1 + j] = s[j]
  BY <1>1, JoinedPlaces
<1>3. Len(s) \in Nat /\ Len(u) = Len(s) + 1 /\ u[1] = x
  BY <1>1, JoinedPlaces
<1>4. u \in Seq(S \cup {x})
  <2>1. s \in Seq(S \cup {x}) /\ <<x>> \in Seq(S \cup {x})
    BY SeqWider, OneStep
  <2> QED
    BY <2>1, JoinSeq
<1> HIDE DEF u
<1>5. \A j \in 2 .. Len(s) + 1 : j - 1 \in 1 .. Len(s) /\ u[j] = s[j - 1]
  <2>1. ASSUME NEW j \in 2 .. Len(s) + 1 PROVE j - 1 \in 1 .. Len(s) /\ u[j] = s[j - 1]
    <3>1. j - 1 \in 1 .. Len(s) /\ 1 + (j - 1) = j
      BY <1>3
    <3> QED
      BY <1>2, <3>1
  <2> QED
    BY <2>1
<1>6. \A i \in 1 .. Len(s) : i + 1 \in 1 .. Len(u) /\ u[i + 1] = s[i]
  <2>1. ASSUME NEW i \in 1 .. Len(s) PROVE i + 1 \in 1 .. Len(u) /\ u[i + 1] = s[i]
    <3>1. i + 1 = 1 + i /\ i + 1 \in 1 .. Len(u)
      BY <1>3
    <3> QED
      BY <1>2, <3>1
  <2> QED
    BY <2>1
<1>7. Lines(k, u)
  <2>1. ASSUME NEW j \in 1 .. Len(u) PROVE Flat(k, u[j])
    <3>1. j = 1 \/ j \in 2 .. Len(s) + 1
      BY <1>3
    <3> QED
      BY <1>3, <1>5, <3>1 DEF Lines
  <2> QED
    BY <2>1 DEF Lines
<1>8. \A d : (\E i \in 1 .. Len(s) : s[i].do = d) => \E i \in 1 .. Len(u) : u[i].do = d
  BY <1>6
<1>9. Longer(k, x, s, u)
  BY <1>3, <1>5, <1>7, <1>8 DEF Longer
<1> QED
  BY <1>4, <1>9 DEF u

LEMMA MirrorSteps ==
    ASSUME NEW k \in MirrorKinds
    PROVE  \E S : MirrorKind(k) \in Seq(S)
<1>1. CASE k[1] = "move" /\ k[2] \in Rooms /\ k[3] \in Rooms /\ MirrorKind(k) = Walk(k[2], k[3])
  <2> DEFINE q == Aqueduct(k[2], k[3])  S == Quiet \cup {ReadStrength(q), Raise(q)}
             u == UpdateAqueductStrength(q)  p == GetOrCreateAqueduct(k[2], k[3])
  <2>1. u \in Seq(S)
    BY TwoSteps DEF UpdateAqueductStrength
  <2>2. p \in Seq(S)
    <3>1. p \in Seq(Quiet)
      BY <1>1, WalkShape
    <3> QED
      BY <3>1, SeqWider
  <2>3. MirrorKind(k) = p \o u
    BY <1>1 DEF Walk
  <2> HIDE DEF p, u, S
  <2> QED
    BY <2>1, <2>2, <2>3, JoinSeq
<1> QED
  BY <1>1, MirrorShape

\* The first line of mirrorAction gives the row of the action, which nothing
\* after it takes away.
LEMMA NodeLasting ==
    ASSUME NEW k, ~ Redoes(k), NEW x, Flat(k, x), NEW n
    PROVE  Spares(x, <<"node", n>>)
<1>1. x.do = "assign" => ~ \E v \in x.values : v[1] = "node"
  BY DEF Flat, Law
<1>2. x.do # "drop"
  BY DEF Flat, Law
<1>3. x.do = "unjoin" => x.label # "node"
  BY DEF Flat, Law
<1> QED
  BY <1>1, <1>2, <1>3 DEF Spares

\* A call runs flat lines that lead to everything it promises.
Meets(v) ==
    /\ Lines(Kind(v), Script(v))
    /\ Crowns(Kind(v)) => /\ \E i \in 1 .. Len(Script(v)) : Script(v)[i].do = "unjoin"
                          /\ \E i \in 1 .. Len(Script(v)) : Script(v)[i].do = "assign"
    /\ \A f \in Promise(v) : \A g :
          (/\ \A n \in Ends(f) : Exists(g, n) \/ <<"node", n>> \in Promise(v)
           /\ f[1] = "HAS_KNOWLEDGE" => ~ Exists(g, f[3])) => Ready(Script(v), f, g)

LEMMA MirrorMeets ==
    ASSUME NEW v \in {"mirrorAction"} \X Actions \X MirrorKinds
    PROVE  Meets(v)
<1> DEFINE k == v[3]  x == v[2]  N == NodeProbe(x, {})  s == MirrorKind(k)  u == <<N>> \o s
           t == IF k[1] = "palace-minted" THEN u ELSE <<Must(Palace)>> \o u
<1>1. k \in MirrorKinds /\ x \in Actions /\ v[1] = "mirrorAction" /\ Kind(v) = k
      /\ Promise(v) = {<<"node", x>>} \cup Contract(k)
  BY DEF Kind, Promise
<1>2. Honours(k, s) /\ ~ Redoes(k) /\ k[1] # "navigate" /\ \A f \in Contract(k) : f[1] # "HAS_KNOWLEDGE"
  BY <1>1, HonoursMirrored
<1>3. PICK S : s \in Seq(S)
  BY <1>1, MirrorSteps
<1>4. EnsureNode(x, {}) = <<N>> /\ Flat(k, N) /\ Calm(N) /\ Gives(N, <<"node", x>>)
  BY <1>2, NodeProbeFlat
<1>5. Flat(k, Must(Palace)) /\ Calm(Must(Palace))
  BY StrengthFlat
<1>6. Script(v) = t
  <2>1. Script(v) = ((IF k[1] = "palace-minted" THEN <<>> ELSE <<Must(Palace)>>) \o EnsureNode(x, {})) \o s
    BY <1>1 DEF Script, MirrorAction
  <2>2. <<N>> \in Seq({N}) /\ <<Must(Palace)>> \in Seq({Must(Palace), N}) /\ <<N>> \in Seq({Must(Palace), N})
    OBVIOUS
  <2>3. <<>> \o <<N>> = <<N>>
    BY <2>2
  <2> HIDE DEF N, s
  <2>4. (<<Must(Palace)>> \o <<N>>) \o s = <<Must(Palace)>> \o (<<N>> \o s)
    <3> DEFINE M == <<Must(Palace)>>  L == <<N>>
    <3>1. M \in Seq({Must(Palace), N}) /\ L \in Seq({Must(Palace), N} \cup S) /\ s \in Seq({Must(Palace), N} \cup S)
      BY <1>3, <2>2, SeqWider
    <3> HIDE DEF M, L
    <3>2. (M \o L) \o s = M \o (L \o s)
      BY <3>1, ConcatAny, SMTT(30)
    <3> QED
      BY <3>2 DEF M, L
  <2> QED
    BY <1>4, <2>1, <2>3, <2>4
<1> HIDE DEF N, s, k, x
<1>7. /\ Lines(k, s)
      /\ Crowns(k) => /\ \E i \in 1 .. Len(s) : s[i].do = "unjoin"
                      /\ \E i \in 1 .. Len(s) : s[i].do = "assign"
  BY <1>2 DEF Honours
<1> DEFINE Has(z) == /\ Lines(k, z)
                     /\ Crowns(k) => /\ \E i \in 1 .. Len(z) : z[i].do = "unjoin"
                                     /\ \E i \in 1 .. Len(z) : z[i].do = "assign"
<1>8. Has(u) /\ u \in Seq(S \cup {N}) /\ u[1] = N /\ Len(u) = Len(s) + 1 /\ Len(s) \in Nat
      /\ \A j \in 2 .. Len(s) + 1 : j - 1 \in 1 .. Len(s) /\ u[j] = s[j - 1]
  <2>1. Longer(k, N, s, u) /\ u \in Seq(S \cup {N})
    BY <1>3, <1>4, <1>7, LinesBehind
  <2> HIDE DEF u
  <2> QED
    BY <1>7, <2>1 DEF Longer
<1> DEFINE Due(f, g) == /\ \A n \in Ends(f) : Exists(g, n) \/ <<"node", n>> \in Promise(v)
                        /\ f[1] = "HAS_KNOWLEDGE" => ~ Exists(g, f[3])
<1>9. ASSUME NEW f \in Promise(v), NEW g, Due(f, g) PROVE Ready(u, f, g)
  <2>1. CASE f = <<"node", x>>
    <3>1. \A j \in 1 + 1 .. Len(u) : Spares(u[j], f)
      <4>1. ASSUME NEW j \in 1 + 1 .. Len(u) PROVE Spares(u[j], f)
        <5>1. j - 1 \in 1 .. Len(s) /\ u[j] = s[j - 1]
          BY <1>8
        <5>2. Flat(k, s[j - 1])
          BY <1>7, <5>1 DEF Lines
        <5> QED
          BY <1>2, <2>1, <5>1, <5>2, NodeLasting
      <4> QED
        BY <4>1
    <3>2. Ends(f) = {} /\ f[1] # "HAS_KNOWLEDGE" /\ 1 \in 1 .. Len(u)
      BY <1>8, <2>1 DEF Ends, Labels
    <3> QED
      BY <1>4, <1>8, <2>1, <3>1, <3>2 DEF Ready, Given
  <2>2. CASE f \in Contract(k)
    <3> DEFINE h == g \cup {<<"node", x>>}
    <3>1. f[1] # "HAS_KNOWLEDGE"
      BY <1>2, <2>2
    <3>2. ASSUME NEW n \in Ends(f) PROVE Exists(h, n) \/ <<"node", n>> \in Contract(k)
      BY <1>1, <1>9, <3>2 DEF Exists
    <3>3. Ready(s, f, h)
      BY <1>2, <2>2, <3>1, <3>2 DEF Honours
    <3>4. \A n : Exists(h, n) => Exists(g, n) \/ Gives(N, <<"node", n>>)
      BY <1>4 DEF Exists
    <3>5. f \in h => f \in g \/ (Gives(N, f) /\ Ends(f) = {})
      <4>1. Ends(<<"node", x>>) = {}
        BY DEF Ends, Labels
      <4> QED
        BY <1>4, <4>1
    <3> HIDE DEF h
    <3> QED
      BY <1>3, <1>4, <3>1, <3>3, <3>4, <3>5, ReadyBehind
  <2> QED
    BY <1>1, <2>1, <2>2
<1>10. \A f \in Promise(v) : f[1] # "HAS_KNOWLEDGE"
  BY <1>1, <1>2
<1> HIDE DEF u
<1>11. Has(<<Must(Palace)>> \o u)
  <2> DEFINE w == <<Must(Palace)>> \o u
  <2>1. Longer(k, Must(Palace), u, w)
    BY <1>5, <1>8, LinesBehind
  <2> HIDE DEF w
  <2>2. Has(w)
    BY <1>8, <2>1 DEF Longer
  <2> QED
    BY <2>2 DEF w
<1>12. ASSUME NEW f \in Promise(v), NEW g, Due(f, g) PROVE Ready(<<Must(Palace)>> \o u, f, g)
  <2>1. Ready(u, f, g)
    BY <1>9, <1>12
  <2> QED
    BY <1>5, <1>8, <1>10, <2>1, ReadyBehind
<1>13. Has(t) /\ \A f \in Promise(v) : \A g : Due(f, g) => Ready(t, f, g)
  BY <1>8, <1>9, <1>11, <1>12
<1> HIDE DEF t
<1> QED
  BY <1>1, <1>6, <1>13 DEF Meets

LEMMA ScriptMeets ==
    ASSUME NEW v \in Scriptable, ~ (v[1] \in {"upsertEmbedding", "deleteEmbedding", "reembed"})
    PROVE  Meets(v)
<1>1. ASSUME v[1] # "mirrorAction", Honours(v, Script(v)) PROVE Meets(v)
  BY <1>1 DEF Meets, Honours, Kind, Promise
<1>2. CASE v \in ({"ensurePalace"} \X {Palace}) \cup ({"createAgent"} \X {Oracle})
  <2>1. Script(v) = EnsureNode(v[2], {})
    BY <1>2 DEF Script, EnsurePalace
  <2> QED
    BY <1>1, <1>2, <2>1, HonoursNode
<1>3. CASE v \in {"recordAction"} \X Actions
  BY <1>1, <1>3, HonoursAction DEF Script
<1>4. CASE v \in {"addRoom"} \X Rooms
  BY <1>1, <1>4, HonoursRoom DEF Script
<1>5. CASE v \in {"inscribeAvatar"} \X Rooms \X Avatars \X Contents
  BY <1>1, <1>5, HonoursInscribe DEF Script
<1>6. CASE v \in {"setMythosHead"} \X Mythoi
  BY <1>1, <1>6, HonoursHead DEF Script
<1>7. CASE v \in {"appendMythos"} \X Mythoi \X Mythoi
  BY <1>1, <1>7, HonoursAppend DEF Script
<1>8. CASE v \in {"markOrphaned"} \X Avatars
  <2>1. v[1] = "markOrphaned" /\ Script(v) = MarkOrphaned(v[2])
    BY <1>8 DEF Script
  <2> QED
    BY <1>1, <2>1, HonoursInscription
<1>9. CASE v \in {"updateInscription"} \X Avatars \X Contents \X {0, 1}
  <2>1. v[1] = "updateInscription" /\ Script(v) = UpdateInscription(v[2], v[3], v[4])
    BY <1>9 DEF Script
  <2> QED
    BY <1>1, <2>1, HonoursInscription
<1>10. CASE v \in {"insertTriple"} \X Triples
  BY <1>1, <1>10, HonoursInsert DEF Script
<1>11. CASE v \in {"deleteTriple"} \X Triples
  BY <1>1, <1>11, HonoursDelete DEF Script
<1>12. CASE v \in {"updateTriple"} \X Triples \X Triples
  BY <1>1, <1>12, HonoursUpdate DEF Script
<1>13. CASE v \in {"getOrCreateAqueduct"} \X Rooms \X Rooms
  BY <1>1, <1>13, HonoursAqueduct DEF Script
<1>14. CASE v \in Navigations
  <2>1. v[1] = "navigate" /\ Script(v) = RecordTraversal(v[2], v[3], v[4])
    BY <1>14 DEF Navigations, Script
  <2> QED
    BY <1>1, <1>14, <2>1, HonoursNavigate
<1> QED
  BY <1>2, <1>3, <1>4, <1>5, <1>6, <1>7, <1>8, <1>9, <1>10, <1>11, <1>12, <1>13, <1>14, MirrorMeets
  DEF Scriptable, AllVerbs

-----------------------------------------------------------------------------
\* What a call owes.

\* The calls that delete an inscription's node and create it again.
Rebuilds(v) == v[1] \in {"upsertEmbedding", "deleteEmbedding", "reembed"}

HeadKinds == {"MYTHOS_HEAD", "head"}

LEMMA ContractKinds ==
    ASSUME NEW k, NEW f \in Contract(k)
    PROVE  /\ f[1] # "strength"
           /\ f[1] \in HeadKinds => Crowns(k)
           /\ f[1] = "MYTHOS_HEAD" => f = CrownEdge(k) /\ CrownColumn(k) \in Contract(k)
           /\ f[1] = "head" => f = CrownColumn(k)
<1>1. CASE k[1] \in {"getOrCreateAqueduct", "aqueduct-created", "move", "navigate"}
  <2>1. f[1] \in {"node", "AQUEDUCT_FROM", "AQUEDUCT_TO"}
    <3>1. Contract(k) \subseteq Passage(k[2], k[3]) \cup {<<"node", <<k[2], k[3], k[4]>> >>}
      BY <1>1 DEF Contract
    <3> QED
      BY <3>1 DEF Passage
  <2> QED
    BY <2>1 DEF HeadKinds
<1>2. CASE k[1] \in {"setMythosHead", "true-naming"}
  <2>1. /\ f \in {<<"node", k[2]>>, <<"PREDECESSOR", k[2], k[3]>>, CrownEdge(k), CrownColumn(k)}
        /\ CrownColumn(k) \in Contract(k)
    BY <1>2 DEF Contract, CrownEdge, CrownColumn
  <2> QED
    BY <1>2, <2>1 DEF HeadKinds, Crowns, CrownEdge, CrownColumn
<1>3. CASE k[1] \notin {"getOrCreateAqueduct", "aqueduct-created", "move", "navigate",
                        "setMythosHead", "true-naming"}
  <2>1. f[1] \in {"node", "CONTAINS", "LIVES_IN", "PREDECESSOR", "embedded", "source", "revision",
                  "orphaned", "HAS_KNOWLEDGE"}
    <3>1. \A p, q : <<"embedded", p, q>>[1] = "embedded" /\ <<"orphaned", p, q>>[1] = "orphaned"
      OBVIOUS
    <3>2. CASE k[1] = "upsertEmbedding"
      <4>1. f = <<"embedded", k[2], TRUE>>
        BY <3>2 DEF Contract
      <4> QED
        BY <3>1, <4>1
    <3>3. CASE k[1] = "deleteEmbedding"
      <4>1. f = <<"embedded", k[2], FALSE>>
        BY <3>3 DEF Contract
      <4> QED
        BY <3>1, <4>1
    <3>4. CASE k[1] \in {"markOrphaned", "inscription-orphaned"}
      <4>1. f = <<"orphaned", k[2], TRUE>>
        BY <3>4 DEF Contract
      <4> QED
        BY <3>1, <4>1
    <3>5. CASE k[1] \in {"ensurePalace", "createAgent", "recordAction", "palace-minted"}
      <4>1. Contract(k) = {<<"node", k[2]>>}
        BY <3>5 DEF Contract
      <4> QED
        BY <4>1
    <3>6. CASE k[1] \in {"addRoom", "room-added"}
      <4>1. Contract(k) = {<<"node", k[2]>>, <<"CONTAINS", Palace, k[2]>>}
        BY <3>6 DEF Contract
      <4> QED
        BY <4>1
    <3>7. CASE k[1] \in {"inscribeAvatar", "avatar-inscribed"}
      <4>1. Contract(k) = {<<"node", k[3]>>, <<"CONTAINS", k[2], k[3]>>, <<"LIVES_IN", k[3], k[2]>>}
        BY <3>7 DEF Contract
      <4> QED
        BY <4>1
    <3>8. CASE k[1] = "appendMythos"
      <4>1. Contract(k) = {<<"node", k[2]>>, <<"PREDECESSOR", k[2], k[3]>>}
        BY <3>8 DEF Contract
      <4> QED
        BY <4>1
    <3>9. CASE k[1] \in {"reembed", "inscription-updated", "updateInscription"}
      <4>1. Contract(k) \subseteq {<<"source", k[2], k[3]>>, <<"revision", k[2], k[4]>>}
        BY <3>9 DEF Contract
      <4> QED
        BY <4>1
    <3>10. CASE k[1] \in {"insertTriple", "updateTriple"}
      <4>1. \A t : <<"node", t>>[1] = "node" /\ <<"HAS_KNOWLEDGE", Oracle, t>>[1] = "HAS_KNOWLEDGE"
        OBVIOUS
      <4>2. \E t : Contract(k) = {<<"node", t>>, <<"HAS_KNOWLEDGE", Oracle, t>>}
        BY <3>10 DEF Contract
      <4> QED
        BY <4>1, <4>2
    <3>11. CASE k[1] \notin {"upsertEmbedding", "deleteEmbedding", "markOrphaned",
                             "inscription-orphaned", "ensurePalace", "createAgent", "recordAction",
                             "palace-minted", "addRoom", "room-added", "inscribeAvatar",
                             "avatar-inscribed", "appendMythos", "reembed", "inscription-updated",
                             "updateInscription", "insertTriple", "updateTriple"}
      <4>1. Contract(k) = {}
        BY <1>3, <3>11 DEF Contract
      <4> QED
        BY <4>1
    <3> QED
      BY <3>2, <3>3, <3>4, <3>5, <3>6, <3>7, <3>8, <3>9, <3>10, <3>11
  <2> QED
    BY <2>1 DEF HeadKinds
<1> QED
  BY <1>1, <1>2, <1>3

LEMMA PromiseKinds ==
    ASSUME NEW v, NEW f \in Promise(v)
    PROVE  /\ f[1] # "strength"
           /\ f[1] \in HeadKinds => Crowns(Kind(v))
           /\ f[1] = "MYTHOS_HEAD" => f = CrownEdge(Kind(v)) /\ CrownColumn(Kind(v)) \in Promise(v)
           /\ f[1] = "head" => f = CrownColumn(Kind(v))
<1>1. f = <<"node", v[2]>> \/ f \in Contract(Kind(v))
  BY DEF Promise, Kind
<1>2. Contract(Kind(v)) \subseteq Promise(v)
  BY DEF Promise, Kind
<1>3. CASE f = <<"node", v[2]>>
  BY <1>3 DEF HeadKinds
<1>4. CASE f \in Contract(Kind(v))
  BY <1>2, <1>4, ContractKinds
<1> QED
  BY <1>1, <1>3, <1>4

LEMMA SuspendedHurt == ASSUME NEW v PROVE Suspended(v) = {f \in acked : Hurts(Kind(v), f)}
<1>1. CASE Redoes(Kind(v))
  BY <1>1 DEF Suspended, Hurts, Kind, Redoes, Of
<1>2. CASE ~ Redoes(Kind(v))
  BY <1>2 DEF Suspended, Hurts, Kind, Redoes
<1> QED
  BY <1>1, <1>2

LEMMA FactShapes ==
    ASSUME NEW f \in Facts
    PROVE  /\ f[1] = "node" => f = <<"node", f[2]>>
           /\ f[1] \in Labels => f \in Edges
           /\ f[1] \notin Labels \cup {"node", "table"} => f \in Columns
           /\ f \notin Edges => f[1] \notin Labels
<1>1. \A e \in Edges : e[1] \in Labels
  BY DEF Edges, Labels
<1>2. \A e \in Columns : e[1] \in {"head", "source", "revision", "orphaned", "embedded", "strength"}
  BY DEF Columns
<1>3. "node" \notin Labels /\ "table" \notin Labels
  BY DEF Labels
<1>4. \A e \in Columns : e[1] \notin Labels
  BY <1>2 DEF Labels
<1>5. CASE f \in {"node"} \X Nodes
  BY <1>1, <1>3, <1>5
<1>6. CASE f \in {"table"} \X Schema
  BY <1>1, <1>3, <1>6
<1>7. CASE f \in Edges
  BY <1>1, <1>3, <1>7
<1>8. CASE f \in Columns
  <2>1. f[1] \notin Labels /\ f[1] # "node"
    BY <1>2, <1>4, <1>8
  <2> QED
    BY <1>1, <1>8, <2>1
<1> QED
  BY <1>5, <1>6, <1>7, <1>8 DEF Facts

\* What is owed is promised, its ends being known, or stood before and stands
\* after an inscription is created again.
LEMMA OwedSplit ==
    ASSUME NEW v \in Scriptable, acked \in SUBSET Facts, NEW f \in Owed(v)
    PROVE  \/ /\ f \in Promise(v)
              /\ \A n \in Ends(f) : <<"node", n>> \in acked \cup Promise(v)
              /\ f[1] \notin Labels => <<"node", f[2]>> \in acked \cup Promise(v)
              /\ f[1] = "HAS_KNOWLEDGE" => ~ Exists(Current, f[3])
           \/ /\ f \in acked /\ Hurts(Kind(v), f) /\ Rebuilds(v)
              /\ ~ \E w \in Promise(v) : f[1] = w[1] /\ f[2] = w[2]
              /\ v[1] = "reembed" => f[1] # "embedded"
<1> DEFINE known == {x[2] : x \in {x \in acked \cup Promise(v) : x[1] = "node"}}
           Due(x) == /\ x[1] \in Labels => {x[2], x[3]} \subseteq known
                     /\ x[1] = "HAS_KNOWLEDGE" => ~ Exists(Current, x[3])
                     /\ x[2] \in known
           kept == IF v[1] \in {"deleteTriple", "updateTriple"} THEN {}
                   ELSE {x \in Suspended(v) : ~ \E w \in Promise(v) : x[1] = w[1] /\ x[2] = w[2]}
<1>1. Owed(v) = {x \in Promise(v) : Due(x)} \cup {x \in kept : v[1] = "reembed" => x[1] # "embedded"}
  BY DEF Owed
<1>2. \A n \in known : <<"node", n>> \in acked \cup Promise(v)
  <2>1. ASSUME NEW x \in acked \cup Promise(v), x[1] = "node"
        PROVE  <<"node", x[2]>> \in acked \cup Promise(v)
    <3>1. x \in Facts
      BY PromiseFacts
    <3> QED
      BY <2>1, <3>1, FactShapes
  <2> QED
    BY <2>1
<1>3. CASE f \in Promise(v) /\ Due(f)
  <2>1. \A n \in Ends(f) : n \in known
    BY <1>3 DEF Ends
  <2> HIDE DEF known
  <2> QED
    BY <1>2, <1>3, <2>1
<1>4. CASE f \in kept /\ (v[1] = "reembed" => f[1] # "embedded")
  <2>1. /\ f \in Suspended(v) /\ v[1] \notin {"deleteTriple", "updateTriple"}
        /\ ~ \E w \in Promise(v) : f[1] = w[1] /\ f[2] = w[2]
    BY <1>4
  <2>2. f \in acked /\ Hurts(Kind(v), f)
    BY <2>1, SuspendedHurt
  <2>3. Rebuilds(v)
    <3>1. Contract(Kind(v)) \subseteq Promise(v)
      BY DEF Promise, Kind
    <3>2. Redoes(Kind(v))
      BY <2>1, <2>2, <3>1 DEF Hurts
    <3>3. v[1] # "mirrorAction"
      <4>1. ASSUME v[1] = "mirrorAction" PROVE FALSE
        <5>1. v[3] \in MirrorKinds
          BY <4>1 DEF Scriptable, AllVerbs, Navigations
        <5> QED
          BY <3>2, <4>1, <5>1, HonoursMirrored DEF Kind
      <4> QED
        BY <4>1
    <3> QED
      BY <2>1, <3>2, <3>3 DEF Kind, Redoes, Rebuilds
  <2> QED
    BY <1>4, <2>1, <2>2, <2>3
<1> HIDE DEF known, kept, Due
<1> QED
  BY <1>1, <1>3, <1>4

LEMMA OwedReady ==
    ASSUME NEW v \in Scriptable, ~ Rebuilds(v), acked \in SUBSET Facts, acked \subseteq Current,
           NEW f \in Owed(v)
    PROVE  f \in Promise(v) /\ Ready(Script(v), f, Current)
<1>1. /\ f \in Promise(v)
      /\ \A n \in Ends(f) : <<"node", n>> \in acked \cup Promise(v)
      /\ f[1] = "HAS_KNOWLEDGE" => ~ Exists(Current, f[3])
  BY OwedSplit
<1>2. \A n \in Ends(f) : Exists(Current, n) \/ <<"node", n>> \in Promise(v)
  BY <1>1 DEF Exists
<1>3. Meets(v)
  BY ScriptMeets DEF Rebuilds
<1> QED
  BY <1>1, <1>2, <1>3 DEF Meets

-----------------------------------------------------------------------------
\* What the statements of a call do to what others rely on.

RowKinds  == {"source", "revision", "orphaned"}
EdgeKinds == {"CONTAINS", "LIVES_IN"}

\* A call takes away what it hurts only and, but for a crown, no head.
Harms(k, g, h) ==
    /\ \A f \in g : f \in h \/ f[1] = "strength" \/ Hurts(k, f)
    /\ k[1] = "navigate" => \A t \in Triples : Exists(h, t) => Exists(g, t)
    /\ \A f \in h : f[1] \in HeadKinds => f \in g \/ (Crowns(k) /\ f \in {CrownEdge(k), CrownColumn(k)})
    /\ Rooted(g) => Rooted(h)
    /\ \A f \in g : f[1] = "table" => f \in h

LEMMA NodeNotHead ==
    ASSUME NEW n
    PROVE  <<"node", n>>[1] \notin HeadKinds \cup Labels \cup {"table", "strength", "head"} /\ <<"node", n>>[2] = n
           /\ <<"node", n>>[1] = "node"
BY DEF HeadKinds, Labels

LEMMA HarmCreate ==
    ASSUME NEW k, NEW g, NEW n, NEW columns, k[1] = "navigate" => n \notin Triples,
           \A f \in columns : f[1] \notin Labels \cup {"head", "node"}
    PROVE  Harms(k, g, Created(g, n, columns))
<1> DEFINE h == Created(g, n, columns)
<1>1. /\ g \subseteq h /\ \A f \in h : f \in g \/ f = <<"node", n>> \/ f \in columns
  BY DEF Created
<1>2. \A m : Exists(h, m) => Exists(g, m) \/ m = n
  <2>1. ASSUME NEW m, <<"node", m>> \in h PROVE <<"node", m>> \in g \/ m = n
    BY <1>1, <2>1
  <2> QED
    BY <2>1 DEF Exists
<1>3. \A f \in h : f[1] \in Labels \cup HeadKinds => f \in g
  <2>1. HeadKinds \subseteq Labels \cup {"head"}
    BY DEF HeadKinds, Labels
  <2> QED
    BY <1>1, <2>1, NodeNotHead
<1> HIDE DEF h
<1>4. "head" \in HeadKinds
  BY DEF HeadKinds
<1>5. Rooted(g) => Rooted(h)
  BY <1>1, <1>3, <1>4 DEF Rooted, Exists
<1> QED
  BY <1>1, <1>2, <1>3, <1>5 DEF Harms, h

LEMMA HarmJoin ==
    ASSUME NEW k, NEW g, NEW e, e[1] \in Labels, e[1] = "MYTHOS_HEAD" => Crowns(k) /\ e = CrownEdge(k)
    PROVE  Harms(k, g, Joined(g, e))
<1> DEFINE h == Joined(g, e)
<1>1. g \subseteq h /\ (h = g \/ (h = g \cup {e} /\ Exists(g, e[2]) /\ Exists(g, e[3])))
  BY DEF Joined
<1> HIDE DEF h
<1>2. e[1] # "head" /\ e[1] # "node" /\ (e[1] \in HeadKinds => e[1] = "MYTHOS_HEAD")
  BY DEF Labels, HeadKinds
<1>3. \A m : Exists(h, m) => Exists(g, m)
  BY <1>1, <1>2 DEF Exists
<1>4. Rooted(g) => Rooted(h)
  BY <1>1, <1>2 DEF Rooted, Exists
<1>5. \A f \in h : f[1] \in HeadKinds => f \in g \/ (Crowns(k) /\ f \in {CrownEdge(k), CrownColumn(k)})
  BY <1>1, <1>2
<1> QED
  BY <1>1, <1>3, <1>4, <1>5 DEF Harms, h

LEMMA HarmUnjoin ==
    ASSUME NEW k, NEW g, Crowns(k)
    PROVE  Harms(k, g, Unjoined(g, "MYTHOS_HEAD", Palace))
<1> DEFINE h == Unjoined(g, "MYTHOS_HEAD", Palace)
<1>1. /\ h \subseteq g
      /\ \A f \in g : f \in h \/ (f[1] = "MYTHOS_HEAD" /\ f[2] = Palace)
  BY DEF Unjoined
<1> HIDE DEF h
<1>2. \A f : f[1] = "MYTHOS_HEAD" /\ f[2] = Palace => Hurts(k, f)
  <2>1. ~ Redoes(k)
    BY DEF Crowns, Redoes
  <2>2. \E w \in Contract(k) : w[1] = "MYTHOS_HEAD" /\ w[2] = Palace
    <3>1. <<"MYTHOS_HEAD", Palace, k[2]>> \in Contract(k)
      BY DEF Crowns, Contract
    <3> QED
      BY <3>1
  <2> QED
    BY <2>1, <2>2 DEF Hurts
<1>3. \A m : Exists(g, m) => Exists(h, m)
  BY <1>1, NodeNotHead DEF Exists
<1>4. Rooted(g) => Rooted(h)
  BY <1>1, <1>3 DEF Rooted
<1>5. \A m : Exists(h, m) => Exists(g, m)
  BY <1>1 DEF Exists
<1> QED
  BY <1>1, <1>2, <1>4, <1>5 DEF Harms, h

LEMMA HarmDrop ==
    ASSUME NEW k, NEW g \in SUBSET Facts, Redoes(k), k[2] \in Avatars \cup Triples
    PROVE  Harms(k, g, Dropped(g, k[2]))
<1> DEFINE h == Dropped(g, k[2])  n == k[2]
<1>1. /\ h \subseteq g
      /\ \A f \in g : f \in h <=> ~ (f[2] = n \/ (f[1] \in Labels /\ f[3] = n))
  BY DEF Dropped, Of
<1> HIDE DEF h
<1>2. \A f \in g : f \in h \/ Hurts(k, f)
  BY <1>1 DEF Hurts
<1>3. \A m : Exists(g, m) /\ m # n => Exists(h, m)
  BY <1>1, NodeNotHead DEF Exists
<1>4. Rooted(g) => Rooted(h)
  BY <1>1, <1>3 DEF Rooted
<1>5. \A f \in g : f[1] = "table" => f \in h
  <2>1. ASSUME NEW f \in g, f[1] = "table" PROVE f \in h
    <3>1. f[1] \notin Labels
      BY <2>1 DEF Labels
    <3>2. f[2] \in Schema
      <4>1. f \notin Columns /\ f \notin Edges /\ f \notin {"node"} \X Nodes
        <5>1. \A e \in Columns : e[1] \in {"head", "source", "revision", "orphaned", "embedded", "strength"}
          BY DEF Columns
        <5>2. f \notin Columns
          BY <2>1, <5>1
        <5>3. f \notin Edges
          BY <2>1, <3>1, FactShapes DEF Edges, Labels
        <5> QED
          BY <2>1, <5>2, <5>3
      <4> QED
        BY <4>1 DEF Facts
    <3>3. f[2] # n
      BY <3>2, SchemaAssumption
    <3> QED
      BY <1>1, <3>1, <3>3
  <2> QED
    BY <2>1
<1>6. k[1] # "navigate"
  BY DEF Redoes
<1> QED
  BY <1>1, <1>2, <1>4, <1>5, <1>6 DEF Harms, h

LEMMA HarmAssign ==
    ASSUME NEW k, NEW g, NEW n, NEW values,
           \A f \in values :
              /\ f[1] \in {"head", "source", "revision", "orphaned", "strength"} /\ f[2] = n
              /\ \A h : h[1] = f[1] /\ h[2] = f[2] => h[1] = "strength" \/ Hurts(k, h)
              /\ f[1] = "head" => Crowns(k) /\ f = CrownColumn(k)
    PROVE  Harms(k, g, Assigned(g, n, values))
<1> DEFINE h == Assigned(g, n, values)
<1>1. CASE ~ Exists(g, n)
  <2>1. h = g
    BY <1>1 DEF Assigned
  <2> QED
    BY <2>1 DEF Harms
<1>2. CASE Exists(g, n)
  <2>1. h = {f \in g : ~ \E v \in values : f[1] = v[1] /\ f[2] = v[2]} \cup values
    BY <1>2 DEF Assigned
  <2> HIDE DEF h
  <2>2. \A f \in g : f \in h \/ \E v \in values : f[1] = v[1] /\ f[2] = v[2]
    BY <2>1
  <2>3. \A f \in h : f \in g \/ f \in values
    BY <2>1
  <2>4. \A f \in values : f[1] \notin Labels /\ f[1] # "node" /\ f[1] # "table"
    BY DEF Labels
  <2>5. \A m : Exists(h, m) <=> Exists(g, m)
    <3>1. ASSUME NEW m, <<"node", m>> \in g PROVE <<"node", m>> \in h
      BY <2>2, <2>4, <3>1, NodeNotHead
    <3>2. ASSUME NEW m, <<"node", m>> \in h PROVE <<"node", m>> \in g
      BY <2>3, <2>4, <3>2, NodeNotHead
    <3> QED
      BY <3>1, <3>2 DEF Exists
  <2>6. \A f \in g : f \in h \/ f[1] = "strength" \/ Hurts(k, f)
    BY <2>2
  <2>7. Rooted(g) => Rooted(h)
    BY <1>2, <2>3, <2>4, <2>5 DEF Rooted
  <2>8. \A f \in values : f[1] \in HeadKinds => f[1] = "head"
    BY DEF HeadKinds
  <2>9. \A f \in h : f[1] \in HeadKinds => f \in g \/ (Crowns(k) /\ f \in {CrownEdge(k), CrownColumn(k)})
    BY <2>3, <2>8
  <2>10. \A f \in g : f[1] = "table" => f \in h
    BY <2>2, <2>4
  <2> QED
    BY <2>5, <2>6, <2>7, <2>9, <2>10 DEF Harms, h
<1> QED
  BY <1>1, <1>2

LEMMA HarmNothing ==
    ASSUME NEW k, NEW g, NEW s
    PROVE  Harms(k, g, g) /\ Harms(k, g, g \cup {<<"table", s>>})
<1> DEFINE h == g \cup {<<"table", s>>}
<1>1. <<"table", s>>[1] \notin HeadKinds \cup Labels \cup {"node", "head"}
  BY DEF HeadKinds, Labels
<1>2. \A f \in h : f \in g \/ f[1] \notin HeadKinds \cup Labels \cup {"node", "head"}
  BY <1>1
<1>3. g \subseteq h /\ \A m : Exists(h, m) <=> Exists(g, m)
  BY <1>2, NodeNotHead DEF Exists
<1> HIDE DEF h
<1>4. Rooted(g) => Rooted(h)
  BY <1>2, <1>3 DEF Rooted
<1>5. Harms(k, g, h)
  BY <1>2, <1>3, <1>4 DEF Harms
<1> QED
  BY <1>5 DEF Harms, h

\* A query that writes: what it finds, and what it sets.
LEMMA WriteHere ==
    ASSUME TInv, NEW c \in Calls, Write(c)
    PROVE  LET s == Head(todo[c])
           IN  /\ s.do \in {"create", "join", "unjoin", "drop", "assign", "put", "raise"}
               /\ s.do = "create" => mem' = Created(mem, s.node, s.columns) /\ s.columns \in SUBSET Columns
               /\ s.do = "join" => mem' = Joined(mem, s.edge)
               /\ s.do = "unjoin" => mem' = Unjoined(mem, s.label, s.node)
               /\ s.do = "drop" => mem' = Dropped(mem, s.node) /\ s.node \in Avatars \cup Triples
               /\ s.do = "assign" => mem' = Assigned(mem, s.node, s.values)
               /\ s.do = "put" =>
                     mem' = Created(mem, s.node, (memo[c] \ Edges) \cup {<<"embedded", s.node, s.embedded>>})
               /\ s.do = "raise" =>
                     mem' = Assigned(mem, s.node, {<<"strength", s.node, f[3] + 1>> : f \in memo[c]})
<1> DEFINE s == Head(todo[c])
<1>1. s = NextStep(c) /\ mem' = Written(s, memo[c]) /\ todo[c] # <<>>
      /\ s.do \in {"create", "join", "unjoin", "drop", "assign", "put", "raise"}
  BY DEF Write, NextStep
<1>2. \/ AtQuiet(op[c], todo[c])
      \/ AtRaise(op[c], todo[c], memo[c]) \/ AtRecord(op[c], todo[c], memo[c])
  BY <1>1, PlaceOf, AtDo DEF Lifecycle, TInv
<1>3. s.do = "create" => s.columns \in SUBSET Columns
  <2>1. CASE AtQuiet(op[c], todo[c])
    BY <2>1, AtDo, QuietFields DEF NewRows
  <2>2. CASE AtRaise(op[c], todo[c], memo[c])
    BY <2>2, AtDo
  <2>3. CASE AtRecord(op[c], todo[c], memo[c])
    BY <2>3, AtDo
  <2> QED
    BY <1>2, <2>1, <2>2, <2>3
<1>4. s.do = "drop" => s.node \in Avatars \cup Triples
  <2>1. CASE AtQuiet(op[c], todo[c])
    BY <2>1, AtDo, QuietFields
  <2>2. CASE AtRaise(op[c], todo[c], memo[c]) \/ AtRecord(op[c], todo[c], memo[c])
    BY <2>2, AtDo
  <2> QED
    BY <1>2, <2>1, <2>2
<1> HIDE DEF s
<1>5. /\ s.do = "create" => mem' = Created(mem, s.node, s.columns)
      /\ s.do = "join" => mem' = Joined(mem, s.edge)
      /\ s.do = "unjoin" => mem' = Unjoined(mem, s.label, s.node)
      /\ s.do = "drop" => mem' = Dropped(mem, s.node)
      /\ s.do = "assign" => mem' = Assigned(mem, s.node, s.values)
      /\ s.do = "put" =>
            mem' = Created(mem, s.node, (memo[c] \ Edges) \cup {<<"embedded", s.node, s.embedded>>})
      /\ s.do = "raise" =>
            mem' = Assigned(mem, s.node, {<<"strength", s.node, f[3] + 1>> : f \in memo[c]})
  <2> DEFINE m == memo[c]
  <2>1. mem' = Written(s, m)
    BY <1>1
  <2> HIDE DEF m
  <2>2. /\ s.do = "create" => mem' = Created(mem, s.node, s.columns)
        /\ s.do = "join" => mem' = Joined(mem, s.edge)
        /\ s.do = "unjoin" => mem' = Unjoined(mem, s.label, s.node)
        /\ s.do = "drop" => mem' = Dropped(mem, s.node)
        /\ s.do = "assign" => mem' = Assigned(mem, s.node, s.values)
    BY <2>1, WrittenBy
  <2>3. s.do = "put" =>
           mem' = Created(mem, s.node, (m \ Edges) \cup {<<"embedded", s.node, s.embedded>>})
    BY <2>1, WrittenBy
  <2>4. s.do = "raise" =>
           mem' = Assigned(mem, s.node, {<<"strength", s.node, f[3] + 1>> : f \in m})
    BY <2>1, WrittenBy
  <2> QED
    BY <2>2, <2>3, <2>4 DEF m
<1> QED
  BY <1>1, <1>3, <1>4, <1>5 DEF s

\* The statement of a call that keeps to its law harms what the call hurts only.
LEMMA WriteHarms ==
    ASSUME TInv, NEW c \in Calls, Write(c), NEW k, Law(k, Head(todo[c])),
           Head(todo[c]).do = "put" => k[1] # "navigate" /\ \A f \in memo[c] : f[1] \in RowKinds \cup EdgeKinds
    PROVE  Harms(k, mem, mem')
<1> DEFINE s == Head(todo[c])
<1>1. mem \in SUBSET Facts /\ memo[c] \in SUBSET Facts
  BY DEF TInv, GraphsTyped, CallsTyped
<1>2. s.do \in {"create", "join", "unjoin", "drop", "assign", "put", "raise"}
  BY WriteHere
<1>3. CASE s.do = "create"
  <2>1. mem' = Created(mem, s.node, s.columns) /\ s.columns \in SUBSET Columns
    BY <1>3, WriteHere
  <2>2. \A f \in s.columns : f[1] \notin Labels \cup {"head", "node"}
    <3>1. \A f \in Columns : f[1] \notin Labels \cup {"node"}
      BY DEF Columns, Labels
    <3> QED
      BY <1>3, <2>1, <3>1 DEF Law
  <2>3. k[1] = "navigate" => s.node \notin Triples
    BY <1>3 DEF Law
  <2> HIDE DEF s
  <2> QED
    BY <2>1, <2>2, <2>3, HarmCreate
<1>4. CASE s.do = "join"
  <2>1. mem' = Joined(mem, s.edge) /\ s.edge[1] \in Labels
        /\ (s.edge[1] = "MYTHOS_HEAD" => Crowns(k) /\ s.edge = CrownEdge(k))
    BY <1>4, WriteHere DEF Law
  <2> HIDE DEF s
  <2> QED
    BY <2>1, HarmJoin
<1>5. CASE s.do = "unjoin"
  <2>1. mem' = Unjoined(mem, s.label, s.node) /\ Crowns(k) /\ s.label = "MYTHOS_HEAD" /\ s.node = Palace
    BY <1>5, WriteHere DEF Law
  <2>2. mem' = Unjoined(mem, "MYTHOS_HEAD", Palace)
    BY <2>1
  <2> QED
    BY <2>1, <2>2, HarmUnjoin
<1>6. CASE s.do = "drop"
  <2>1. mem' = Dropped(mem, s.node) /\ Redoes(k) /\ s.node = k[2] /\ s.node \in Avatars \cup Triples
    BY <1>6, WriteHere DEF Law
  <2>2. mem' = Dropped(mem, k[2]) /\ k[2] \in Avatars \cup Triples
    BY <2>1
  <2> QED
    BY <1>1, <2>1, <2>2, HarmDrop
<1>7. CASE s.do = "assign"
  <2>1. mem' = Assigned(mem, s.node, s.values)
    BY <1>7, WriteHere
  <2>2. \A f \in s.values :
           /\ f[1] \in {"head", "source", "revision", "orphaned", "strength"} /\ f[2] = s.node
           /\ \A h : h[1] = f[1] /\ h[2] = f[2] => h[1] = "strength" \/ Hurts(k, h)
           /\ f[1] = "head" => Crowns(k) /\ f = CrownColumn(k)
    BY <1>7 DEF Law
  <2> HIDE DEF s
  <2> QED
    BY <2>1, <2>2, HarmAssign
<1>8. CASE s.do = "put"
  <2> DEFINE columns == (memo[c] \ Edges) \cup {<<"embedded", s.node, s.embedded>>}
  <2>1. mem' = Created(mem, s.node, columns)
    BY <1>8, WriteHere
  <2>2. ASSUME NEW f \in columns PROVE f[1] \notin Labels \cup {"head", "node"}
    <3>1. CASE f \in memo[c] \ Edges
      <4>1. f[1] \notin Labels
        BY <1>1, <3>1, FactShapes
      <4>2. f[1] \in RowKinds \cup EdgeKinds
        BY <1>8, <3>1
      <4> QED
        BY <4>1, <4>2 DEF RowKinds, EdgeKinds
    <3>2. CASE f = <<"embedded", s.node, s.embedded>>
      <4>1. f[1] = "embedded"
        BY <3>2
      <4> QED
        BY <4>1 DEF Labels
    <3> QED
      BY <3>1, <3>2
  <2>3. k[1] # "navigate"
    BY <1>8
  <2> HIDE DEF s, columns
  <2> QED
    BY <2>1, <2>2, <2>3, HarmCreate
<1>9. CASE s.do = "raise"
  <2> DEFINE values == {<<"strength", s.node, f[3] + 1>> : f \in memo[c]}
  <2>1. mem' = Assigned(mem, s.node, values)
    BY <1>9, WriteHere
  <2>2. \A f \in values : f[1] = "strength" /\ f[2] = s.node
    OBVIOUS
  <2> HIDE DEF s, values
  <2> QED
    BY <2>1, <2>2, HarmAssign
<1> HIDE DEF s
<1> QED
  BY <1>2, <1>3, <1>4, <1>5, <1>6, <1>7, <1>8, <1>9

\* A flat line that writes does what it gives and spares.
LEMMA WriteRuns ==
    ASSUME TInv, NEW c \in Calls, Write(c), NEW k, Flat(k, Head(todo[c]))
    PROVE  LET s == Head(todo[c])
           IN  /\ \A e \in mem : e[1] # "strength" /\ Spares(s, e) => e \in mem'
               /\ \A e \in Facts : Puts(s, e) /\ (\A n \in Ends(e) : Exists(mem, n)) => e \in mem'
               /\ \A n : Puts(s, <<"node", n>>) => Exists(mem', n)
               /\ s.do = "drop" => \A n : Exists(mem', n) => Exists(mem, n)
<1> DEFINE s == Head(todo[c])
<1>1. mem \in SUBSET Facts /\ memo[c] \in SUBSET Facts
  BY DEF TInv, GraphsTyped, CallsTyped
<1>2. s.do \in {"create", "join", "unjoin", "drop", "assign", "raise"}
  BY WriteHere DEF Flat
<1>3. CASE s.do = "create"
  <2>1. mem' = Created(mem, s.node, s.columns)
    BY <1>3, WriteHere
  <2> HIDE DEF s
  <2>2. \A e : Puts(s, e) => e \in mem'
    BY <1>3, <2>1 DEF Puts, Created
  <2> QED
    BY <1>3, <2>1, <2>2 DEF s, Created, Exists
<1>4. CASE s.do = "join"
  <2>1. mem' = Joined(mem, s.edge) /\ s.edge[1] \in Labels
    BY <1>4, WriteHere DEF Law, Flat
  <2> HIDE DEF s
  <2>2. mem \subseteq mem'
    BY <2>1 DEF Joined
  <2>3. ASSUME NEW e \in Facts, Puts(s, e), \A n \in Ends(e) : Exists(mem, n) PROVE e \in mem'
    <3>1. e = s.edge
      BY <1>4, <2>3 DEF Puts
    <3>2. e \in Edges /\ Ends(e) = {e[2], e[3]}
      BY <2>1, <3>1, FactShapes DEF Ends
    <3> QED
      BY <2>1, <2>3, <3>1, <3>2 DEF Joined
  <2>4. \A n : ~ Puts(s, <<"node", n>>)
    BY <1>4, <2>1, NodeNotHead DEF Puts
  <2> QED
    BY <1>4, <2>2, <2>3, <2>4 DEF s
<1>5. CASE s.do \in {"unjoin", "drop"}
  <2>1. /\ s.do = "unjoin" => mem' = Unjoined(mem, s.label, s.node)
        /\ s.do = "drop" => mem' = Dropped(mem, s.node)
    BY WriteHere
  <2> HIDE DEF s
  <2>2. mem' \subseteq mem /\ \A e \in mem : Spares(s, e) => e \in mem'
    BY <1>5, <2>1 DEF Unjoined, Dropped, Of, Spares
  <2>3. \A e : ~ Puts(s, e)
    BY <1>5 DEF Puts
  <2> QED
    BY <2>2, <2>3 DEF s, Exists
<1>6. CASE s.do = "assign"
  <2>1. mem' = Assigned(mem, s.node, s.values)
        /\ \A f \in s.values : f[1] \in {"head", "source", "revision", "orphaned"} /\ f[2] = s.node
    BY <1>6, WriteHere DEF Law, Flat
  <2> HIDE DEF s
  <2>2. \A e \in mem : Spares(s, e) => e \in mem'
    BY <1>6, <2>1 DEF Assigned, Spares
  <2>3. ASSUME NEW e \in Facts, Puts(s, e), \A n \in Ends(e) : Exists(mem, n) PROVE e \in mem'
    <3>1. e \in s.values
      BY <1>6, <2>3 DEF Puts
    <3>2. Ends(e) = {s.node}
      BY <2>1, <3>1 DEF Ends, Labels
    <3> QED
      BY <2>1, <2>3, <3>1, <3>2 DEF Assigned
  <2>4. \A n : ~ Puts(s, <<"node", n>>)
    BY <1>6, <2>1, NodeNotHead DEF Puts
  <2> QED
    BY <1>6, <2>2, <2>3, <2>4 DEF s
<1>7. CASE s.do = "raise"
  <2> DEFINE values == {<<"strength", s.node, f[3] + 1>> : f \in memo[c]}
  <2>1. mem' = Assigned(mem, s.node, values)
    BY <1>7, WriteHere
  <2>2. \A f \in values : f[1] = "strength"
    OBVIOUS
  <2> HIDE DEF s, values
  <2>3. \A e \in mem : e[1] # "strength" => e \in mem'
    BY <2>1, <2>2 DEF Assigned
  <2>4. \A e : ~ Puts(s, e)
    BY <1>7 DEF Puts
  <2> QED
    BY <1>7, <2>3, <2>4 DEF s
<1> HIDE DEF s
<1> QED
  BY <1>2, <1>3, <1>4, <1>5, <1>6, <1>7 DEF s

-----------------------------------------------------------------------------
\* An inscription that is deleted and created again.

\* The lines of Rebuild after the row, from the i-th on.
Laps(i, a, b) ==
    CASE i = 1 -> <<ReadEdges("CONTAINS", a), ReadEdges("LIVES_IN", a), Drop(a), Put(a, b), Rejoin>>
      [] i = 2 -> <<ReadEdges("LIVES_IN", a), Drop(a), Put(a, b), Rejoin>>
      [] i = 3 -> <<Drop(a), Put(a, b), Rejoin>>
      [] i = 4 -> <<Put(a, b), Rejoin>>
      [] OTHER -> <<Rejoin>>

LapHead(i, a, b) ==
    CASE i = 1 -> ReadEdges("CONTAINS", a)
      [] i = 2 -> ReadEdges("LIVES_IN", a)
      [] i = 3 -> Drop(a)
      [] i = 4 -> Put(a, b)
      [] OTHER -> Rejoin

\* A call about to read the row, or at the i-th line after it.
RowFirst(s, a, b, r) == s # <<>> /\ Head(s) = Row(a, Laps(1, a, b)) /\ Tail(s) = r

LapFirst(s, i, a, b, r) ==
    /\ s # <<>> /\ Head(s) = LapHead(i, a, b)
    /\ i # 5 => Tail(s) = Laps(i + 1, a, b) \o r
    /\ i = 5 => Tail(s) = r

LEMMA LapPlaces ==
    ASSUME NEW T, NEW r \in Seq(T), NEW a, NEW b
    PROVE  /\ \A i \in 1 .. 5 : LapFirst(Laps(i, a, b) \o r, i, a, b, r)
           /\ RowFirst(Rebuild(a, b) \o r, a, b, r)
<1> DEFINE A == ReadEdges("CONTAINS", a)  B == ReadEdges("LIVES_IN", a)  C == Drop(a)  D == Put(a, b)
           E == Rejoin  F == Row(a, <<A, B, C, D, E>>)
           S == T \cup {A, B, C, D, E, F}
<1>1. /\ Laps(1, a, b) = <<A, B, C, D, E>> /\ Laps(2, a, b) = <<B, C, D, E>>
      /\ Laps(3, a, b) = <<C, D, E>> /\ Laps(4, a, b) = <<D, E>> /\ Laps(5, a, b) = <<E>>
      /\ Rebuild(a, b) = <<F>>
  BY DEF Laps, Rebuild
<1>2. /\ LapHead(1, a, b) = A /\ LapHead(2, a, b) = B /\ LapHead(3, a, b) = C /\ LapHead(4, a, b) = D
      /\ LapHead(5, a, b) = E /\ Row(a, Laps(1, a, b)) = F
  BY <1>1 DEF LapHead
<1> HIDE DEF A, B, C, D, E, F
<1>3. r \in Seq(S)
  BY SeqWider
<1>4. {A, B, C, D, E, F} \subseteq S
  OBVIOUS
<1> HIDE DEF S
<1>5. /\ <<A, B, C, D, E>> \in Seq(S) /\ <<B, C, D, E>> \in Seq(S) /\ <<C, D, E>> \in Seq(S)
      /\ <<D, E>> \in Seq(S) /\ <<E>> \in Seq(S) /\ <<F>> \in Seq(S)
  BY <1>4
<1>6. /\ Head(<<A, B, C, D, E>>) = A /\ Tail(<<A, B, C, D, E>>) = <<B, C, D, E>> /\ <<A, B, C, D, E>> # <<>>
      /\ Head(<<B, C, D, E>>) = B /\ Tail(<<B, C, D, E>>) = <<C, D, E>> /\ <<B, C, D, E>> # <<>>
      /\ Head(<<C, D, E>>) = C /\ Tail(<<C, D, E>>) = <<D, E>> /\ <<C, D, E>> # <<>>
      /\ Head(<<D, E>>) = D /\ Tail(<<D, E>>) = <<E>> /\ <<D, E>> # <<>>
      /\ Head(<<E>>) = E /\ Tail(<<E>>) = <<>> /\ <<E>> # <<>>
      /\ Head(<<F>>) = F /\ Tail(<<F>>) = <<>> /\ <<F>> # <<>>
  OBVIOUS
<1>7. <<>> \o r = r
  BY <1>3, ConcatEmptySeq
<1>8. /\ <<A, B, C, D, E>> \o r # <<>> /\ Head(<<A, B, C, D, E>> \o r) = A
      /\ Tail(<<A, B, C, D, E>> \o r) = <<B, C, D, E>> \o r
  BY <1>3, <1>5, <1>6, HeadOfConcat
<1>9. /\ <<B, C, D, E>> \o r # <<>> /\ Head(<<B, C, D, E>> \o r) = B
      /\ Tail(<<B, C, D, E>> \o r) = <<C, D, E>> \o r
  BY <1>3, <1>5, <1>6, HeadOfConcat
<1>10. <<C, D, E>> \o r # <<>> /\ Head(<<C, D, E>> \o r) = C /\ Tail(<<C, D, E>> \o r) = <<D, E>> \o r
  BY <1>3, <1>5, <1>6, HeadOfConcat
<1>11. <<D, E>> \o r # <<>> /\ Head(<<D, E>> \o r) = D /\ Tail(<<D, E>> \o r) = <<E>> \o r
  BY <1>3, <1>5, <1>6, HeadOfConcat
<1>12. <<E>> \o r # <<>> /\ Head(<<E>> \o r) = E /\ Tail(<<E>> \o r) = r
  BY <1>3, <1>5, <1>6, <1>7, HeadOfConcat
<1>13. <<F>> \o r # <<>> /\ Head(<<F>> \o r) = F /\ Tail(<<F>> \o r) = r
  BY <1>3, <1>5, <1>6, <1>7, HeadOfConcat
<1>14. ASSUME NEW i \in 1 .. 5
       PROVE  Laps(i, a, b) \o r # <<>> /\ Head(Laps(i, a, b) \o r) = LapHead(i, a, b)
  <2>1. i = 1 \/ i = 2 \/ i = 3 \/ i = 4 \/ i = 5
    BY UpToFive
  <2>2. CASE i = 1
    BY <1>1, <1>2, <1>8, <2>2
  <2>3. CASE i = 2
    BY <1>1, <1>2, <1>9, <2>3
  <2>4. CASE i = 3
    BY <1>1, <1>2, <1>10, <2>4
  <2>5. CASE i = 4
    BY <1>1, <1>2, <1>11, <2>5
  <2>6. CASE i = 5
    BY <1>1, <1>2, <1>12, <2>6
  <2> QED
    BY <2>1, <2>2, <2>3, <2>4, <2>5, <2>6
<1>15. ASSUME NEW i \in 1 .. 4 PROVE Tail(Laps(i, a, b) \o r) = Laps(i + 1, a, b) \o r
  <2>1. i = 1 \/ i = 2 \/ i = 3 \/ i = 4
    BY UpToFive
  <2>2. CASE i = 1
    <3>1. i + 1 = 2
      BY <2>2
    <3> QED
      BY <1>1, <1>8, <2>2, <3>1
  <2>3. CASE i = 2
    <3>1. i + 1 = 3
      BY <2>3
    <3> QED
      BY <1>1, <1>9, <2>3, <3>1
  <2>4. CASE i = 3
    <3>1. i + 1 = 4
      BY <2>4
    <3> QED
      BY <1>1, <1>10, <2>4, <3>1
  <2>5. CASE i = 4
    <3>1. i + 1 = 5
      BY <2>5
    <3> QED
      BY <1>1, <1>11, <2>5, <3>1
  <2> QED
    BY <2>1, <2>2, <2>3, <2>4, <2>5
<1>16. ASSUME NEW i \in 1 .. 5 PROVE LapFirst(Laps(i, a, b) \o r, i, a, b, r)
  <2>1. CASE i = 5
    BY <1>1, <1>12, <1>14, <2>1 DEF LapFirst
  <2>2. CASE i # 5
    <3>1. i \in 1 .. 4
      BY <2>2
    <3> QED
      BY <1>14, <1>15, <2>2, <3>1 DEF LapFirst
  <2> QED
    BY <2>1, <2>2
<1>17. RowFirst(Rebuild(a, b) \o r, a, b, r)
  BY <1>1, <1>2, <1>13 DEF RowFirst
<1> QED
  BY <1>16, <1>17

\* The last line of Reembed.
Sets(v) == Assign(v[2], {<<"source", v[2], v[3]>>})

\* What is left of a call once it has created the node again.
After(v, b, r) ==
    \/ v[1] = "upsertEmbedding" /\ b = TRUE /\ r = <<>>
    \/ v[1] = "deleteEmbedding" /\ b = FALSE /\ r = <<>>
    \/ v[1] = "reembed" /\ b = FALSE /\ r = Rebuild(v[2], TRUE) \o <<Sets(v)>>
    \/ v[1] = "reembed" /\ b = TRUE /\ r = <<Sets(v)>>

\* The places at which the node is whole.
Still(v, s) ==
    \/ s = <<>>
    \/ v[1] = "reembed" /\ s \in {Reembed(v[2], v[3]), <<Sets(v)>>}
    \/ \E b \in BOOLEAN : \E r : After(v, b, r) /\ s = Rebuild(v[2], b) \o r

\* What the call brings back: the node, its columns, its rooms.
Own(v, f) ==
    \/ f = <<"node", v[2]>>
    \/ f[1] \in RowKinds /\ f[2] = v[2] /\ (v[1] = "reembed" => f[1] # "source")
    \/ f[1] \in EdgeKinds /\ v[2] \in {f[2], f[3]}

\* Where it is before the i-th line: in the graph, or read.
Held(i, a, f, m, g) ==
    /\ f[1] = "node" => i = 4 \/ f \in g
    /\ f[1] \in RowKinds => (i = 4 \/ f \in g) /\ (i # 5 => f \in m)
    /\ f[1] \in EdgeKinds =>
          /\ \A n \in Ends(f) : n # a => Exists(g, n)
          /\ i \in {1, 2, 3} => f \in g
          /\ i \in {2, 3} /\ f[1] = "CONTAINS" => f \in m
          /\ i \in {3, 4} => f \in m
          /\ i = 5 => f \in m \cup g

Lap(i, v, m, o, g) ==
    /\ \A f \in m : f[1] \in RowKinds \cup EdgeKinds
    /\ i = 5 => Exists(g, v[2])
    /\ \A f \in o : IF f \in Contract(v) THEN i = 5 /\ v[1] # "reembed" => f \in g
                    ELSE Held(i, v[2], f, m, g)

Kept(v, s, o, g) == \A f \in o : f \in g \/ (f \in Contract(v) /\ s # <<>>)

\* It owes what is its own, and what it sets when it knows the node.
Duty(v, o) ==
    /\ \A f \in o : f \in Contract(v) \/ Own(v, f)
    /\ (\E f \in o : f \in Contract(v)) => <<"node", v[2]>> \in o

Turn(v, s, m, o, g) ==
    /\ Duty(v, o)
    /\ \/ Still(v, s) /\ Kept(v, s, o, g)
       \/ \E i \in 1 .. 5, b \in BOOLEAN : \E r :
             After(v, b, r) /\ s = Laps(i, v[2], b) \o r /\ Lap(i, v, m, o, g)

LEMMA RebuildParts ==
    ASSUME NEW v \in Scriptable, Rebuilds(v)
    PROVE  /\ v[2] \in Avatars /\ Kind(v) = v /\ Redoes(v) /\ v \notin Navigations
           /\ v[1] = "reembed" => v[3] \in Contents
           /\ Script(v) = IF v[1] = "upsertEmbedding" THEN Rebuild(v[2], TRUE)
                          ELSE IF v[1] = "deleteEmbedding" THEN Rebuild(v[2], FALSE)
                          ELSE Reembed(v[2], v[3])
           /\ Promise(v) = Contract(v)
           /\ Contract(v) = IF v[1] = "upsertEmbedding" THEN {<<"embedded", v[2], TRUE>>}
                            ELSE IF v[1] = "deleteEmbedding" THEN {<<"embedded", v[2], FALSE>>}
                            ELSE {<<"source", v[2], v[3]>>}
<1>1. v[2] \in Avatars /\ (v[1] = "reembed" => v[3] \in Contents) /\ v \notin Navigations
  BY DEF Scriptable, AllVerbs, Navigations, Rebuilds
<1>2. Kind(v) = v /\ Redoes(v)
  BY DEF Kind, Redoes, Rebuilds
<1>3. Script(v) = IF v[1] = "upsertEmbedding" THEN Rebuild(v[2], TRUE)
                  ELSE IF v[1] = "deleteEmbedding" THEN Rebuild(v[2], FALSE)
                  ELSE Reembed(v[2], v[3])
  BY DEF Script, Rebuilds, UpsertEmbedding, DeleteEmbedding
<1>4. Promise(v) = Contract(v)
  BY DEF Promise, Rebuilds
<1>5. Contract(v) = IF v[1] = "upsertEmbedding" THEN {<<"embedded", v[2], TRUE>>}
                    ELSE IF v[1] = "deleteEmbedding" THEN {<<"embedded", v[2], FALSE>>}
                    ELSE {<<"source", v[2], v[3]>>}
  <2>1. CASE v[1] = "upsertEmbedding"
    BY <2>1 DEF Contract
  <2>2. CASE v[1] = "deleteEmbedding"
    BY <2>2 DEF Contract
  <2>3. CASE v[1] = "reembed"
    BY <2>3 DEF Contract
  <2> QED
    BY <2>1, <2>2, <2>3 DEF Rebuilds
<1> QED
  BY <1>1, <1>2, <1>3, <1>4, <1>5

LEMMA AfterPlaces ==
    ASSUME NEW v \in Scriptable, Rebuilds(v), NEW b, NEW r, After(v, b, r)
    PROVE  /\ b \in BOOLEAN /\ r \in Seq(Quiet) /\ Still(v, r)
           /\ r = <<>> <=> v[1] # "reembed"
<1>1. <<Sets(v)>> \in Seq(Quiet) \/ v[1] # "reembed"
  <2>1. ASSUME v[1] = "reembed" PROVE <<Sets(v)>> \in Seq(Quiet)
    <3>1. v[2] \in Avatars /\ v[3] \in Contents
      BY <2>1, RebuildParts
    <3> QED
      BY <3>1, InscriptionQuiet DEF Sets
  <2> QED
    BY <2>1
<1>2. <<Sets(v)>> # <<>>
  OBVIOUS
<1>3. CASE v[1] # "reembed"
  BY <1>3, EmptySeq DEF After, Still
<1>4. CASE v[1] = "reembed" /\ b = TRUE /\ r = <<Sets(v)>>
  BY <1>1, <1>2, <1>4 DEF Still
<1>5. CASE v[1] = "reembed" /\ b = FALSE /\ r = Rebuild(v[2], TRUE) \o <<Sets(v)>>
  <2>1. Rebuild(v[2], TRUE) \in Seq(Quiet)
    BY RebuildParts, RebuildRows
  <2>2. r \in Seq(Quiet)
    BY <1>1, <1>5, <2>1, JoinSeq
  <2>3. r # <<>>
    <3>1. RowFirst(r, v[2], TRUE, <<Sets(v)>>)
      BY <1>1, <1>5, LapPlaces
    <3> QED
      BY <3>1 DEF RowFirst
  <2>4. After(v, TRUE, <<Sets(v)>>)
    BY <1>5 DEF After
  <2> QED
    BY <1>5, <2>2, <2>3, <2>4 DEF Still
<1> QED
  BY <1>3, <1>4, <1>5 DEF After

LEMMA StillPlaces ==
    ASSUME NEW v \in Scriptable, Rebuilds(v), NEW s, Still(v, s), s # <<>>
    PROVE  \/ /\ v[1] = "reembed" /\ Tail(s) = <<>>
              /\ Head(s) = Probe({<<"source", v[2], v[3]>>}, <<>>,
                                 Rebuild(v[2], FALSE) \o (Rebuild(v[2], TRUE) \o <<Sets(v)>>))
           \/ v[1] = "reembed" /\ Head(s) = Sets(v) /\ Tail(s) = <<>>
           \/ \E b \in BOOLEAN : \E r : After(v, b, r) /\ RowFirst(s, v[2], b, r)
<1>1. CASE v[1] = "reembed" /\ s = Reembed(v[2], v[3])
  <2> DEFINE p == Rebuild(v[2], FALSE)  q == Rebuild(v[2], TRUE)  l == <<Sets(v)>>
             x == Probe({<<"source", v[2], v[3]>>}, <<>>, (p \o q) \o l)
  <2>1. s = <<x>>
    BY <1>1 DEF Reembed, DeleteEmbedding, UpsertEmbedding, Sets
  <2>2. p \in Seq(Quiet) /\ q \in Seq(Quiet) /\ l \in Seq(Quiet)
    <3>1. v[2] \in Avatars /\ v[3] \in Contents
      BY <1>1, RebuildParts
    <3> QED
      BY <3>1, RebuildRows, InscriptionQuiet DEF Sets
  <2>3. (p \o q) \o l = p \o (q \o l)
    <3> HIDE DEF p, q, l
    <3> QED
      BY <2>2, ConcatAny, SMTT(30)
  <2>4. Head(s) = x /\ Tail(s) = <<>>
    <3> HIDE DEF x
    <3> QED
      BY <2>1
  <2> QED
    BY <1>1, <2>3, <2>4
<1>2. CASE v[1] = "reembed" /\ s = <<Sets(v)>>
  <2>1. Head(s) = Sets(v) /\ Tail(s) = <<>>
    BY <1>2
  <2> QED
    BY <1>2, <2>1
<1>3. ASSUME NEW b \in BOOLEAN, NEW r, After(v, b, r), s = Rebuild(v[2], b) \o r
      PROVE  RowFirst(s, v[2], b, r)
  <2>1. r \in Seq(Quiet)
    BY <1>3, AfterPlaces
  <2> QED
    BY <1>3, <2>1, LapPlaces
<1> QED
  BY <1>1, <1>2, <1>3 DEF Still

\* What a rebuild suspends and does not replace is the node's own.
LEMMA OwnFacts ==
    ASSUME NEW v \in Scriptable, Rebuilds(v), NEW f \in Facts, Hurts(v, f),
           ~ \E w \in Contract(v) : f[1] = w[1] /\ f[2] = w[2], v[1] = "reembed" => f[1] # "embedded"
    PROVE  Own(v, f)
<1> DEFINE a == v[2]
<1>1. a \in Avatars /\ (f[2] = a \/ (f[1] \in Labels /\ f[3] = a))
  BY RebuildParts DEF Hurts
<1>2. a \notin {Palace, Oracle} \cup Rooms \cup Mythoi \cup Triples \cup Aqueducts \cup Schema
  BY <1>1, FingerprintAssumption, SchemaAssumption
<1>3. CASE f[1] = "node"
  <2>1. f = <<"node", f[2]>> /\ f[1] \notin Labels
    BY <1>3, FactShapes DEF Labels
  <2> QED
    BY <1>1, <2>1 DEF Own
<1>4. CASE f[1] = "table"
  <2>1. f[2] \in Schema /\ f[1] \notin Labels
    <3>1. f \notin Columns /\ f \notin Edges /\ f \notin {"node"} \X Nodes
      BY <1>4 DEF Columns, Edges
    <3>2. f \in {"table"} \X Schema
      BY <3>1 DEF Facts
    <3> QED
      BY <1>4, <3>2 DEF Labels
  <2> QED
    BY <1>1, <1>2, <2>1
<1>5. CASE f \in Edges
  <2>1. f[1] \in EdgeKinds \/ (f[2] \in {Palace, Oracle} \cup Mythoi \cup Aqueducts
                                 /\ f[3] \in Mythoi \cup Rooms \cup Triples)
    BY <1>5 DEF Edges, EdgeKinds
  <2>2. f[1] \in EdgeKinds
    BY <1>1, <1>2, <2>1
  <2> QED
    BY <1>1, <2>2 DEF Own
<1>6. CASE f \in Columns
  <2>1. f[1] \notin Labels
    BY <1>6 DEF Columns, Labels
  <2>2. f[2] = a
    BY <1>1, <2>1
  <2>3. f[1] # "embedded"
    <3>1. v[1] = "upsertEmbedding" => <<"embedded", a, TRUE>> \in Contract(v)
      BY RebuildParts
    <3>2. v[1] = "deleteEmbedding" => <<"embedded", a, FALSE>> \in Contract(v)
      BY RebuildParts
    <3>3. \A p, q : <<"embedded", p, q>>[1] = "embedded" /\ <<"embedded", p, q>>[2] = p
      OBVIOUS
    <3> HIDE DEF a
    <3> QED
      BY <2>2, <3>1, <3>2, <3>3 DEF Rebuilds
  <2>4. v[1] = "reembed" => f[1] # "source"
    <3>1. v[1] = "reembed" => <<"source", a, v[3]>> \in Contract(v)
      BY RebuildParts
    <3> HIDE DEF a
    <3> QED
      BY <2>2, <3>1
  <2>5. f[1] \in RowKinds
    <3>1. f \notin {"head"} \X {Palace} \X Mythoi /\ f \notin {"strength"} \X Aqueducts \X Nat
      BY <1>2, <2>2
    <3>2. \/ f \in {"source"} \X Avatars \X Contents \/ f \in {"revision"} \X Avatars \X {0, 1}
          \/ f \in {"orphaned", "embedded"} \X Avatars \X BOOLEAN
      BY <1>6, <3>1 DEF Columns
    <3>3. f[1] \in {"source", "revision", "orphaned", "embedded"}
      <4>1. ASSUME f \in {"orphaned", "embedded"} \X Avatars \X BOOLEAN PROVE f[1] \in {"orphaned", "embedded"}
        BY <4>1
      <4> QED
        BY <3>2, <4>1
    <3> QED
      BY <2>3, <3>3 DEF RowKinds
  <2> QED
    BY <2>2, <2>4, <2>5 DEF Own
<1> QED
  BY <1>3, <1>4, <1>5, <1>6 DEF Facts

LEMMA OwedAgain ==
    ASSUME NEW v, Rebuilds(v), NEW f \in acked, Hurts(Kind(v), f),
           ~ \E w \in Promise(v) : f[1] = w[1] /\ f[2] = w[2], v[1] = "reembed" => f[1] # "embedded"
    PROVE  f \in Owed(v)
<1>1. f \in Suspended(v)
  BY SuspendedHurt
<1>2. v[1] \notin {"deleteTriple", "updateTriple"}
  BY DEF Rebuilds
<1> QED
  BY <1>1, <1>2 DEF Owed

\* A rebuild begins where the node is whole.
LEMMA TurnBegins ==
    ASSUME NEW v \in Scriptable, Rebuilds(v), acked \in SUBSET Facts, acked \subseteq Current, NEW m
    PROVE  Turn(v, Script(v), m, Owed(v), Current)
<1> DEFINE a == v[2]  s == Script(v)
<1>1. Promise(v) = Contract(v) /\ Kind(v) = v /\ a \in Avatars /\ Redoes(v)
  BY RebuildParts
<1>2. \A w \in Contract(v) : w[1] \in {"embedded", "source"}
  <2>1. \A p, q : <<"embedded", p, q>>[1] = "embedded" /\ <<"source", p, q>>[1] = "source"
    OBVIOUS
  <2>2. \A w \in Contract(v) : \/ w = <<"embedded", v[2], TRUE>> \/ w = <<"embedded", v[2], FALSE>>
                               \/ w = <<"source", v[2], v[3]>>
    BY RebuildParts
  <2> QED
    BY <2>1, <2>2
<1>3. ASSUME NEW w \in Contract(v) PROVE w[2] = a
  <2>1. \/ w = <<"embedded", v[2], TRUE>> \/ w = <<"embedded", v[2], FALSE>>
        \/ w = <<"source", v[2], v[3]>>
    BY RebuildParts
  <2>2. CASE w = <<"embedded", v[2], TRUE>>
    BY <2>2
  <2>3. CASE w = <<"embedded", v[2], FALSE>>
    BY <2>3
  <2>4. CASE w = <<"source", v[2], v[3]>>
    BY <2>4
  <2> QED
    BY <2>1, <2>2, <2>3, <2>4
<1>4. ASSUME NEW f \in Owed(v), f \notin Contract(v) PROVE f \in acked /\ Own(v, f)
  <2>1. /\ f \in acked /\ Hurts(Kind(v), f)
        /\ ~ \E w \in Promise(v) : f[1] = w[1] /\ f[2] = w[2]
        /\ v[1] = "reembed" => f[1] # "embedded"
    BY <1>1, <1>4, OwedSplit
  <2> QED
    BY <1>1, <2>1, OwnFacts
<1>5. ASSUME NEW f \in Owed(v), f \in Contract(v) PROVE <<"node", a>> \in Owed(v)
  <2> DEFINE n == <<"node", a>>
  <2>1. f[1] \notin Labels /\ f[2] = a
    BY <1>2, <1>3, <1>5 DEF Labels
  <2>2. f[1] \notin Labels => <<"node", f[2]>> \in acked \cup Promise(v)
    <3>1. ~ (f \in acked /\ ~ \E w \in Promise(v) : f[1] = w[1] /\ f[2] = w[2])
      BY <1>1, <1>5
    <3> QED
      BY <3>1, OwedSplit
  <2>3. n \in acked
    <3>1. n \notin Contract(v)
      BY <1>2, NodeNotHead
    <3> QED
      BY <1>1, <2>1, <2>2, <3>1
  <2>4. Hurts(v, n) /\ ~ \E w \in Promise(v) : n[1] = w[1] /\ n[2] = w[2]
    BY <1>1, <1>2 DEF Hurts
  <2>5. n[1] # "embedded"
    OBVIOUS
  <2> HIDE DEF n
  <2> QED
    BY <1>1, <2>3, <2>4, <2>5, OwedAgain DEF n
<1>6. Still(v, s) /\ s # <<>>
  <2>1. CASE v[1] = "upsertEmbedding"
    <3>1. s = Rebuild(a, TRUE) /\ Rebuild(a, TRUE) \o <<>> = Rebuild(a, TRUE) /\ After(v, TRUE, <<>>)
      BY <1>1, <2>1, RebuildParts, RebuildRows, ConcatEmptySeq DEF After
    <3>2. RowFirst(Rebuild(a, TRUE) \o <<>>, a, TRUE, <<>>)
      BY EmptySeq, LapPlaces
    <3> QED
      BY <3>1, <3>2 DEF Still, RowFirst
  <2>2. CASE v[1] = "deleteEmbedding"
    <3>1. s = Rebuild(a, FALSE) /\ Rebuild(a, FALSE) \o <<>> = Rebuild(a, FALSE) /\ After(v, FALSE, <<>>)
      BY <1>1, <2>2, RebuildParts, RebuildRows, ConcatEmptySeq DEF After
    <3>2. RowFirst(Rebuild(a, FALSE) \o <<>>, a, FALSE, <<>>)
      BY EmptySeq, LapPlaces
    <3> QED
      BY <3>1, <3>2 DEF Still, RowFirst
  <2>3. CASE v[1] = "reembed"
    <3>1. s = Reembed(v[2], v[3])
      BY <2>3, RebuildParts
    <3>2. s # <<>>
      BY <3>1 DEF Reembed
    <3> QED
      BY <2>3, <3>1, <3>2 DEF Still
  <2> QED
    BY <2>1, <2>2, <2>3 DEF Rebuilds
<1>7. Kept(v, s, Owed(v), Current)
  BY <1>4, <1>6 DEF Kept
<1> HIDE DEF s
<1> QED
  BY <1>4, <1>5, <1>6, <1>7 DEF Turn, Duty, s

LEMMA OwnKinds ==
    ASSUME NEW v, NEW f, Own(v, f)
    PROVE  /\ f[1] # "strength" /\ f[1] \in {"node"} \cup RowKinds \cup EdgeKinds
           /\ f[1] = "node" => f = <<"node", v[2]>>
           /\ f[1] \in RowKinds => f[2] = v[2] /\ (v[1] = "reembed" => f[1] # "source")
           /\ f[1] \in EdgeKinds => v[2] \in {f[2], f[3]} /\ Ends(f) = {f[2], f[3]}
BY DEF Own, RowKinds, EdgeKinds, Ends, Labels

LEMMA LapStays ==
    ASSUME NEW v, NEW o, Duty(v, o), NEW g, NEW h, \A f \in g : f[1] # "strength" => f \in h,
           NEW i \in 1 .. 5, NEW m, Lap(i, v, m, o, g)
    PROVE  Lap(i, v, m, o, h)
<1>1. \A n : Exists(g, n) => Exists(h, n)
  BY NodeNotHead DEF Exists
<1>2. ASSUME NEW f \in o, f \in Contract(v), i = 5 /\ v[1] # "reembed" PROVE f \in h
  BY <1>2, ContractKinds DEF Lap
<1>3. ASSUME NEW f \in o, f \notin Contract(v) PROVE Held(i, v[2], f, m, h)
  <2>1. f[1] # "strength"
    BY <1>3, OwnKinds DEF Duty
  <2>2. Held(i, v[2], f, m, g)
    BY <1>3 DEF Lap
  <2> QED
    BY <1>1, <2>1, <2>2 DEF Held
<1> QED
  BY <1>1, <1>2, <1>3 DEF Lap

\* The walks of others take away the strength of aqueducts only.
LEMMA TurnStays ==
    ASSUME NEW v, NEW s, NEW m, NEW o, NEW g, NEW h, \A f \in g : f[1] # "strength" => f \in h,
           Turn(v, s, m, o, g)
    PROVE  Turn(v, s, m, o, h)
<1>1. Duty(v, o)
  BY DEF Turn
<1>2. Kept(v, s, o, g) => Kept(v, s, o, h)
  <2>1. \A f \in o : f[1] # "strength"
    BY <1>1, OwnKinds, ContractKinds DEF Duty
  <2> QED
    BY <2>1 DEF Kept
<1>3. \A i \in 1 .. 5 : Lap(i, v, m, o, g) => Lap(i, v, m, o, h)
  BY <1>1, LapStays
<1> QED
  BY <1>1, <1>2, <1>3 DEF Turn

OnLap(v, s, m, o, g) ==
    \E i \in 1 .. 5, b \in BOOLEAN : \E r :
       /\ After(v, b, r) /\ LapFirst(s, i, v[2], b, r) /\ Lap(i, v, m, o, g)
       /\ s = Laps(i, v[2], b) \o r

\* Where a rebuild stands, and what its next line does.
LEMMA TurnPlaces ==
    ASSUME NEW v \in Scriptable, Rebuilds(v), NEW s, NEW m, NEW o, NEW g, Turn(v, s, m, o, g)
    PROVE  \/ s = <<>> /\ o \subseteq g
           \/ /\ v[1] = "reembed" /\ s # <<>> /\ Tail(s) = <<>> /\ Kept(v, s, o, g)
              /\ Head(s) = Probe({<<"source", v[2], v[3]>>}, <<>>,
                                 Rebuild(v[2], FALSE) \o (Rebuild(v[2], TRUE) \o <<Sets(v)>>))
           \/ v[1] = "reembed" /\ s # <<>> /\ Head(s) = Sets(v) /\ Tail(s) = <<>> /\ Kept(v, s, o, g)
           \/ \E b \in BOOLEAN : \E r : After(v, b, r) /\ RowFirst(s, v[2], b, r) /\ Kept(v, s, o, g)
           \/ OnLap(v, s, m, o, g)
<1>1. CASE Still(v, s) /\ Kept(v, s, o, g)
  <2>1. CASE s = <<>>
    BY <1>1, <2>1 DEF Kept
  <2>2. CASE s # <<>>
    BY <1>1, <2>2, StillPlaces
  <2> QED
    BY <2>1, <2>2
<1>2. ASSUME NEW i \in 1 .. 5, NEW b \in BOOLEAN, NEW r, After(v, b, r),
             s = Laps(i, v[2], b) \o r, Lap(i, v, m, o, g)
      PROVE  LapFirst(s, i, v[2], b, r)
  <2>1. r \in Seq(Quiet)
    BY <1>2, AfterPlaces
  <2> QED
    BY <1>2, <2>1, LapPlaces
<1> QED
  BY <1>1, <1>2 DEF Turn, OnLap

\* A promised column is owed to a node that is there.
LEMMA DutyNode ==
    ASSUME NEW v \in Scriptable, Rebuilds(v), NEW s, NEW o, Duty(v, o), NEW g, Kept(v, s, o, g),
           NEW f \in o, f \in Contract(v)
    PROVE  Exists(g, v[2])
<1> DEFINE n == <<"node", v[2]>>
<1>1. n \in o
  BY DEF Duty
<1>2. n \notin Contract(v)
  <2>1. n[1] = "node"
    BY NodeNotHead
  <2>2. \A p, q : <<"embedded", p, q>>[1] # "node" /\ <<"source", p, q>>[1] # "node"
    OBVIOUS
  <2>3. n \in Contract(v) => \/ n = <<"embedded", v[2], TRUE>> \/ n = <<"embedded", v[2], FALSE>>
                             \/ n = <<"source", v[2], v[3]>>
    BY RebuildParts
  <2> HIDE DEF n
  <2> QED
    BY <2>1, <2>2, <2>3
<1> QED
  BY <1>1, <1>2 DEF Kept, Exists

LEMMA TurnProbes ==
    ASSUME NEW v \in Scriptable, Rebuilds(v), v[1] = "reembed",
           NEW s, NEW o, NEW g, Duty(v, o), Kept(v, s, o, g), NEW m
    PROVE  /\ <<"source", v[2], v[3]>> \in g => Turn(v, <<>>, m, o, g)
           /\ Turn(v, Rebuild(v[2], FALSE) \o (Rebuild(v[2], TRUE) \o <<Sets(v)>>), m, o, g)
<1>1. \A f \in o : f \in g \/ f = <<"source", v[2], v[3]>>
  BY RebuildParts DEF Kept
<1>2. <<"source", v[2], v[3]>> \in g => Turn(v, <<>>, m, o, g)
  BY <1>1 DEF Turn, Kept, Still
<1> DEFINE r == Rebuild(v[2], TRUE) \o <<Sets(v)>>  t == Rebuild(v[2], FALSE) \o r
<1>3. After(v, FALSE, r)
  BY DEF After
<1>4. Still(v, t) /\ t # <<>>
  <2> HIDE DEF r
  <2>1. r \in Seq(Quiet)
    BY <1>3, AfterPlaces
  <2>2. RowFirst(t, v[2], FALSE, r)
    BY <2>1, LapPlaces
  <2>3. t # <<>>
    BY <2>2 DEF RowFirst
  <2> QED
    BY <1>3, <2>3 DEF Still
<1> HIDE DEF t
<1>5. Turn(v, t, m, o, g)
  BY <1>4 DEF Turn, Kept
<1> QED
  BY <1>2, <1>5 DEF t

LEMMA RootedEnds ==
    ASSUME NEW g, Rooted(g), NEW e \in g, e[1] \in Labels
    PROVE  Exists(g, e[2]) /\ Exists(g, e[3])
BY DEF Rooted, Exists

LEMMA TurnRow ==
    ASSUME NEW v \in Scriptable, Rebuilds(v), NEW s, NEW o \in SUBSET Facts, NEW g, Rooted(g),
           Duty(v, o), Kept(v, s, o, g), NEW b \in BOOLEAN, NEW r, After(v, b, r)
    PROVE  /\ Exists(g, v[2]) => Turn(v, Laps(1, v[2], b) \o r, RowOf(g, v[2]), o, g)
           /\ ~ Exists(g, v[2]) => \A m : Turn(v, r, m, o, g)
<1>1. ASSUME ~ Exists(g, v[2]), NEW m PROVE Turn(v, r, m, o, g)
  <2>1. \A f \in o : f \notin Contract(v)
    BY <1>1, DutyNode
  <2>2. Still(v, r)
    BY AfterPlaces
  <2> QED
    BY <2>1, <2>2 DEF Turn, Kept
<1>2. ASSUME Exists(g, v[2]) PROVE Lap(1, v, RowOf(g, v[2]), o, g)
  <2>1. \A f \in RowOf(g, v[2]) : f[1] \in RowKinds
    BY DEF RowOf, RowKinds
  <2>2. ASSUME NEW f \in o, f \notin Contract(v) PROVE Held(1, v[2], f, RowOf(g, v[2]), g)
    <3>1. f \in g /\ Own(v, f)
      BY <2>2 DEF Kept, Duty
    <3>2. f[1] \in RowKinds => f \in RowOf(g, v[2])
      BY <3>1, OwnKinds DEF RowOf, RowKinds
    <3>3. ASSUME f[1] \in EdgeKinds PROVE \A n \in Ends(f) : Exists(g, n)
      <4>1. f[1] \in Labels
        BY <3>3 DEF EdgeKinds, Labels
      <4>2. Ends(f) = {f[2], f[3]}
        BY <3>1, <3>3, OwnKinds
      <4>3. Exists(g, f[2]) /\ Exists(g, f[3])
        BY <3>1, <4>1, RootedEnds
      <4> QED
        BY <4>2, <4>3
    <3> QED
      BY <3>1, <3>2, <3>3 DEF Held
  <2> QED
    BY <2>1, <2>2 DEF Lap
<1>3. ASSUME Exists(g, v[2]) PROVE Turn(v, Laps(1, v[2], b) \o r, RowOf(g, v[2]), o, g)
  <2> DEFINE t == Laps(1, v[2], b) \o r  m == RowOf(g, v[2])
  <2>1. 1 \in 1 .. 5 /\ t = Laps(1, v[2], b) \o r /\ Lap(1, v, m, o, g)
    BY <1>2, <1>3
  <2> HIDE DEF t, m
  <2>2. Turn(v, t, m, o, g)
    BY <2>1 DEF Turn
  <2> QED
    BY <2>2 DEF t, m
<1> QED
  BY <1>1, <1>3

LEMMA TurnEdges ==
    ASSUME NEW v, NEW o, NEW g, Duty(v, o), NEW i \in {1, 2}, NEW m, Lap(i, v, m, o, g)
    PROVE  Lap(i + 1, v, m \cup EdgesOf(g, IF i = 1 THEN "CONTAINS" ELSE "LIVES_IN", v[2]), o, g)
<1> DEFINE label == IF i = 1 THEN "CONTAINS" ELSE "LIVES_IN"  p == m \cup EdgesOf(g, label, v[2])
<1>1. \A f \in p : f[1] \in RowKinds \cup EdgeKinds
  BY DEF EdgesOf, Lap, EdgeKinds
<1>2. ASSUME NEW f \in o, f \notin Contract(v) PROVE Held(i + 1, v[2], f, p, g)
  <2>1. Held(i, v[2], f, m, g) /\ Own(v, f)
    BY <1>2 DEF Lap, Duty
  <2>2. f[1] = label /\ f[1] \in EdgeKinds => f \in p
    <3>1. f[1] \in EdgeKinds => f \in g /\ v[2] \in {f[2], f[3]}
      BY <2>1, OwnKinds DEF Held
    <3> QED
      BY <3>1 DEF EdgesOf
  <2>3. m \subseteq p
    OBVIOUS
  <2>4. i = 1 => label = "CONTAINS"
    OBVIOUS
  <2>5. i = 2 => label = "LIVES_IN"
    OBVIOUS
  <2>6. f[1] \in EdgeKinds => f[1] = "CONTAINS" \/ f[1] = "LIVES_IN"
    BY DEF EdgeKinds
  <2> HIDE DEF p, label
  <2>7. CASE i = 1
    <3>1. i + 1 = 2
      BY <2>7
    <3>2. f[1] \in EdgeKinds /\ f[1] = "CONTAINS" => f \in p
      BY <2>2, <2>4, <2>7
    <3> QED
      BY <2>1, <2>3, <2>7, <3>1, <3>2 DEF Held
  <2>8. CASE i = 2
    <3>1. i + 1 = 3
      BY <2>8
    <3>2. f[1] \in EdgeKinds => f \in p
      BY <2>1, <2>2, <2>3, <2>5, <2>6, <2>8 DEF Held
    <3> QED
      BY <2>1, <2>3, <2>8, <3>1, <3>2 DEF Held
  <2> QED
    BY <2>7, <2>8
<1>3. i + 1 # 5
  OBVIOUS
<1> HIDE DEF p
<1>4. Lap(i + 1, v, p, o, g)
  BY <1>1, <1>2, <1>3 DEF Lap
<1> QED
  BY <1>4 DEF p

LEMMA TurnDrop ==
    ASSUME NEW v, NEW o, NEW g, Duty(v, o), NEW m, Lap(3, v, m, o, g)
    PROVE  Lap(4, v, m, o, Dropped(g, v[2]))
<1> DEFINE h == Dropped(g, v[2])
<1>1. \A n : n # v[2] /\ Exists(g, n) => Exists(h, n)
  BY NodeNotHead DEF Exists, Dropped, Of
<1> HIDE DEF h
<1>2. ASSUME NEW f \in o, f \notin Contract(v) PROVE Held(4, v[2], f, m, h)
  <2>1. Held(3, v[2], f, m, g)
    BY <1>2 DEF Lap
  <2>2. f[1] \in RowKinds => f \in m
    BY <2>1 DEF Held
  <2>3. f[1] \in EdgeKinds => f \in m /\ \A n \in Ends(f) : n # v[2] => Exists(g, n)
    BY <2>1 DEF Held
  <2> QED
    BY <1>1, <2>2, <2>3 DEF Held
<1>3. \A f \in m : f[1] \in RowKinds \cup EdgeKinds
  BY DEF Lap
<1>4. Lap(4, v, m, o, h)
  BY <1>2, <1>3 DEF Lap
<1> QED
  BY <1>4 DEF h

LEMMA HeldLast ==
    ASSUME NEW a, NEW f, NEW m, NEW g, f[1] = "node" => f \in g, f[1] \in RowKinds => f \in g,
           f[1] \in EdgeKinds => f \in m /\ \A n \in Ends(f) : n # a => Exists(g, n)
    PROVE  Held(5, a, f, m, g)
BY DEF Held

LEMMA TurnPut ==
    ASSUME NEW v \in Scriptable, Rebuilds(v), NEW o \in SUBSET Facts, NEW g, Duty(v, o),
           NEW b, NEW r, After(v, b, r), NEW m, Lap(4, v, m, o, g),
           NEW p, p = m \cap Edges,
           NEW h, h = Created(g, v[2], (m \ Edges) \cup {<<"embedded", v[2], b>>})
    PROVE  Lap(5, v, p, o, h)
<1>1. /\ \A f \in g : f \in h
      /\ \A f \in m : f \notin Edges => f \in h
      /\ Exists(h, v[2]) /\ <<"embedded", v[2], b>> \in h
  BY DEF Created, Exists
<1>2. \A f \in p : f[1] \in RowKinds \cup EdgeKinds
  BY DEF Lap
<1>3. ASSUME NEW f \in o, f \in Contract(v), v[1] # "reembed" PROVE f \in h
  <2>1. CASE v[1] = "upsertEmbedding"
    <3>1. f = <<"embedded", v[2], TRUE>> /\ b = TRUE
      BY <1>3, <2>1, RebuildParts DEF After
    <3> QED
      BY <1>1, <3>1
  <2>2. CASE v[1] = "deleteEmbedding"
    <3>1. f = <<"embedded", v[2], FALSE>> /\ b = FALSE
      BY <1>3, <2>2, RebuildParts DEF After
    <3> QED
      BY <1>1, <3>1
  <2> QED
    BY <1>3, <2>1, <2>2 DEF Rebuilds
<1>4. ASSUME NEW f \in o, f \notin Contract(v) PROVE Held(5, v[2], f, p, h)
  <2>1. Held(4, v[2], f, m, g) /\ Own(v, f)
    BY <1>4 DEF Lap, Duty
  <2>2. f[1] = "node" => f \in h
    BY <1>1, <2>1, OwnKinds DEF Exists
  <2>3. f[1] \in RowKinds => f \in h
    <3>1. f[1] \in RowKinds => f \in m /\ f[1] \notin Labels
      BY <2>1 DEF Held, RowKinds, Labels
    <3>2. f[1] \notin Labels => f \notin Edges
      BY DEF Edges, Labels
    <3> QED
      BY <1>1, <3>1, <3>2
  <2>4. ASSUME f[1] \in EdgeKinds
        PROVE  f \in p /\ \A n \in Ends(f) : n # v[2] => Exists(h, n)
    <3>1. f \in m /\ \A n \in Ends(f) : n # v[2] => Exists(g, n)
      BY <2>1, <2>4 DEF Held
    <3>2. f[1] \in Labels
      BY <2>4 DEF EdgeKinds, Labels
    <3>3. f \in Edges
      BY <3>2, FactShapes
    <3> QED
      BY <1>1, <3>1, <3>3 DEF Exists
  <2> QED
    BY <2>2, <2>3, <2>4, HeldLast
<1> QED
  BY <1>1, <1>2, <1>3, <1>4 DEF Lap

LEMMA TurnJoins ==
    ASSUME NEW v \in Scriptable, Rebuilds(v), NEW o \in SUBSET Facts, NEW g, Duty(v, o),
           NEW m, NEW e \in m, Lap(5, v, m, o, g)
    PROVE  Lap(5, v, m \ {e}, o, Joined(g, e))
<1> DEFINE h == Joined(g, e)
<1>1. /\ \A f \in g : f \in h
      /\ e \in Edges /\ Exists(g, e[2]) /\ Exists(g, e[3]) => e \in h
  BY DEF Joined
<1> HIDE DEF h
<1>2. Exists(g, v[2]) /\ \A f \in m : f[1] \in RowKinds \cup EdgeKinds
  BY DEF Lap
<1>3. ASSUME NEW f \in o, f \in Contract(v), v[1] # "reembed" PROVE f \in h
  BY <1>1, <1>3 DEF Lap
<1>4. ASSUME NEW f \in o, f \notin Contract(v) PROVE Held(5, v[2], f, m \ {e}, h)
  <2>1. Held(5, v[2], f, m, g) /\ Own(v, f)
    BY <1>4 DEF Lap, Duty
  <2>2. f[1] = "node" \/ f[1] \in RowKinds => f \in h
    BY <1>1, <2>1 DEF Held
  <2>3. ASSUME f[1] \in EdgeKinds
        PROVE  f \in (m \ {e}) \cup h /\ \A n \in Ends(f) : n # v[2] => Exists(h, n)
    <3>1. f \in m \cup g /\ \A n \in Ends(f) : n # v[2] => Exists(g, n)
      BY <2>1, <2>3 DEF Held
    <3>2. f[1] \in Labels
      BY <2>3 DEF EdgeKinds, Labels
    <3>3. f \in Edges
      BY <3>2, FactShapes
    <3>4. Exists(g, f[2]) /\ Exists(g, f[3])
      BY <1>2, <2>1, <2>3, <3>1, OwnKinds
    <3>5. f = e => f \in h
      BY <1>1, <3>3, <3>4
    <3> QED
      BY <1>1, <3>1, <3>5 DEF Exists
  <2> QED
    BY <2>2, <2>3 DEF Held
<1>5. Lap(5, v, m \ {e}, o, h)
  BY <1>1, <1>2, <1>3, <1>4 DEF Lap, Exists
<1> QED
  BY <1>5 DEF h

LEMMA TurnEnds ==
    ASSUME NEW v \in Scriptable, Rebuilds(v), NEW o, NEW g, Duty(v, o),
           NEW b, NEW r, After(v, b, r), Lap(5, v, {}, o, g), NEW m
    PROVE  Turn(v, r, m, o, g)
<1>1. Still(v, r) /\ (v[1] = "reembed" => r # <<>>)
  BY AfterPlaces
<1>2. ASSUME NEW f \in o PROVE f \in g \/ (f \in Contract(v) /\ r # <<>>)
  <2>1. CASE f \in Contract(v)
    BY <1>1, <2>1 DEF Lap
  <2>2. CASE f \notin Contract(v)
    <3>1. Held(5, v[2], f, {}, g) /\ Own(v, f)
      BY <2>2 DEF Lap, Duty
    <3> QED
      BY <3>1, OwnKinds DEF Held
  <2> QED
    BY <2>1, <2>2
<1> QED
  BY <1>1, <1>2 DEF Turn, Kept

LEMMA TurnSets ==
    ASSUME NEW v \in Scriptable, Rebuilds(v), v[1] = "reembed", NEW s, NEW o, NEW g,
           Duty(v, o), Kept(v, s, o, g), NEW m
    PROVE  Turn(v, <<>>, m, o, Assigned(g, v[2], {<<"source", v[2], v[3]>>}))
<1> DEFINE h == Assigned(g, v[2], {<<"source", v[2], v[3]>>})
<1>1. /\ Exists(g, v[2]) => <<"source", v[2], v[3]>> \in h
      /\ \A f \in g : f[1] # "source" => f \in h
  BY DEF Assigned
<1> HIDE DEF h
<1>2. ASSUME NEW f \in o PROVE f \in h
  <2>1. CASE f \in Contract(v)
    <3>1. f = <<"source", v[2], v[3]>>
      BY <2>1, RebuildParts
    <3>2. Exists(g, v[2])
      BY <2>1, DutyNode
    <3> QED
      BY <1>1, <3>1, <3>2
  <2>2. CASE f \notin Contract(v)
    <3>1. f \in g /\ Own(v, f)
      BY <2>2 DEF Kept, Duty
    <3>2. f[1] # "source"
      BY <3>1, OwnKinds DEF EdgeKinds
    <3> QED
      BY <1>1, <3>1, <3>2
  <2> QED
    BY <2>1, <2>2
<1>3. Turn(v, <<>>, m, o, h)
  BY <1>2 DEF Turn, Kept, Still
<1> QED
  BY <1>3 DEF h

LEMMA ReadHere ==
    ASSUME TInv, NEW c \in Calls, Read(c)
    PROVE  LET s == Head(todo[c])
               r == Tail(todo[c])
           IN  /\ todo[c] # <<>> /\ s.do \in {"probe", "must", "row", "edges", "strength"}
               /\ s.do = "probe" =>
                     /\ todo'[c] = (IF s.facts \subseteq mem THEN s.found ELSE s.missing) \o r
                     /\ memo'[c] = memo[c] /\ s.missing \in Seq(Quiet)
               /\ s.do \in {"must", "strength"} => todo'[c] = r
               /\ s.do = "row" =>
                     /\ todo'[c] = IF Exists(mem, s.node) THEN s.rest \o r ELSE r
                     /\ memo'[c] = RowOf(mem, s.node)
               /\ s.do = "edges" => todo'[c] = r /\ memo'[c] = memo[c] \cup EdgesOf(mem, s.label, s.node)
<1> DEFINE s == Head(todo[c])  r == Tail(todo[c])
<1>1. todo = [d \in Calls |-> todo[d]] /\ memo \in [Calls -> SUBSET Facts] /\ todo[c] # <<>>
  BY DEF Read, TInv, CallsTyped
<1>2. \/ s.do = "probe" /\ memo' = memo
         /\ todo' = [todo EXCEPT ![c] = (IF s.facts \subseteq mem THEN s.found ELSE s.missing) \o r]
      \/ s.do = "must" /\ todo' = [todo EXCEPT ![c] = r]
      \/ s.do = "row" /\ todo' = [todo EXCEPT ![c] = IF Exists(mem, s.node) THEN s.rest \o r ELSE r]
         /\ memo' = [memo EXCEPT ![c] = RowOf(mem, s.node)]
      \/ s.do = "edges" /\ todo' = [todo EXCEPT ![c] = r]
         /\ memo' = [memo EXCEPT ![c] = @ \cup EdgesOf(mem, s.label, s.node)]
      \/ s.do = "strength" /\ todo' = [todo EXCEPT ![c] = r]
  BY DEF Read, NextStep
<1>3. s.do = "probe" => s.missing \in Seq(Quiet)
  <2>1. s.do = "probe" => AtQuiet(op[c], todo[c])
    BY <1>1, PlaceOf, AtDo DEF Lifecycle, TInv
  <2> QED
    BY <2>1, AtDo, QuietFields
<1> HIDE DEF s, r
<1>4. CASE s.do = "probe"
  BY <1>1, <1>2, <1>3, <1>4 DEF s, r
<1>5. CASE s.do = "must" \/ s.do = "strength"
  BY <1>1, <1>2, <1>5 DEF s, r
<1>6. CASE s.do = "row"
  BY <1>1, <1>2, <1>6 DEF s, r
<1>7. CASE s.do = "edges"
  BY <1>1, <1>2, <1>7 DEF s, r
<1> QED
  BY <1>2, <1>4, <1>5, <1>6, <1>7

LEMMA LapDo ==
    ASSUME NEW a, NEW b
    PROVE  /\ LapHead(1, a, b) = ReadEdges("CONTAINS", a) /\ LapHead(2, a, b) = ReadEdges("LIVES_IN", a)
           /\ LapHead(3, a, b) = Drop(a) /\ LapHead(4, a, b) = Put(a, b) /\ LapHead(5, a, b) = Rejoin
           /\ \A label : ReadEdges(label, a).do = "edges" /\ ReadEdges(label, a).label = label
                         /\ ReadEdges(label, a).node = a
           /\ Drop(a).do = "drop" /\ Drop(a).node = a
           /\ Put(a, b).do = "put" /\ Put(a, b).node = a /\ Put(a, b).embedded = b
           /\ Rejoin.do = "rejoin"
           /\ \A values : Assign(a, values).do = "assign" /\ Assign(a, values).node = a
                          /\ Assign(a, values).values = values
           /\ \A t : Row(a, t).do = "row" /\ Row(a, t).node = a /\ Row(a, t).rest = t
           /\ \A f, t, u : Probe(f, t, u).do = "probe" /\ Probe(f, t, u).facts = f
                           /\ Probe(f, t, u).found = t /\ Probe(f, t, u).missing = u
BY DEF LapHead, ReadEdges, Drop, Put, Rejoin, Assign, Row, Probe

LEMMA LapsAt ==
    ASSUME NEW i \in 1 .. 5
    PROVE  i = 1 \/ i = 2 \/ i = 3 \/ i = 4 \/ i = 5
OBVIOUS

LEMMA TurnReads ==
    ASSUME TInv, NEW c \in Calls, Read(c), op[c] \in Scriptable, Rebuilds(op[c]), Rooted(mem),
           NEW o \in SUBSET Facts, Turn(op[c], todo[c], memo[c], o, mem)
    PROVE  Turn(op[c], todo'[c], memo'[c], o, mem)
<1> DEFINE v == op[c]  s == todo[c]  a == v[2]
<1> SUFFICES Turn(v, todo'[c], memo'[c], o, mem)
  OBVIOUS
<1>1. s # <<>> /\ Head(s).do \in {"probe", "must", "row", "edges", "strength"}
  BY ReadHere
<1>2. Duty(v, o)
  BY DEF Turn
<1>3. CASE /\ v[1] = "reembed" /\ Tail(s) = <<>> /\ Kept(v, s, o, mem)
           /\ Head(s) = Probe({<<"source", a, v[3]>>}, <<>>,
                              Rebuild(a, FALSE) \o (Rebuild(a, TRUE) \o <<Sets(v)>>))
  <2> DEFINE t == Rebuild(a, FALSE) \o (Rebuild(a, TRUE) \o <<Sets(v)>>)  f == <<"source", a, v[3]>>
  <2>1. Head(s).do = "probe" /\ Head(s).facts = {f} /\ Head(s).found = <<>> /\ Head(s).missing = t
    <3>1. Head(s) = Probe({f}, <<>>, t)
      BY <1>3
    <3> HIDE DEF f, t, s
    <3> QED
      BY <3>1 DEF Probe
  <2>2. f \in mem => Turn(v, <<>>, memo'[c], o, mem)
    BY <1>2, <1>3, TurnProbes
  <2>3. Turn(v, t, memo'[c], o, mem)
    BY <1>2, <1>3, TurnProbes
  <2> HIDE DEF t, f
  <2>4. t \in Seq(Quiet) /\ todo'[c] = (IF {f} \subseteq mem THEN <<>> ELSE t) \o <<>>
    BY <1>3, <2>1, ReadHere
  <2>5. t \o <<>> = t /\ <<>> \o <<>> = <<>>
    BY <2>4, ConcatEmptySeq, EmptySeq
  <2> QED
    BY <2>2, <2>3, <2>4, <2>5
<1>4. CASE Head(s) = Sets(v)
  <2>1. Head(s).do = "assign"
    BY <1>4 DEF Sets, Assign
  <2> QED
    BY <1>1, <2>1
<1>5. ASSUME NEW b \in BOOLEAN, NEW r, After(v, b, r), RowFirst(s, a, b, r), Kept(v, s, o, mem)
      PROVE  Turn(v, todo'[c], memo'[c], o, mem)
  <2>1. Head(s) = Row(a, Laps(1, a, b)) /\ Tail(s) = r
    BY <1>5 DEF RowFirst
  <2>2. Head(s).do = "row" /\ Head(s).node = a /\ Head(s).rest = Laps(1, a, b)
    <3> HIDE DEF s, a
    <3> QED
      BY <2>1 DEF Row
  <2> DEFINE t == Laps(1, a, b) \o r
  <2>3. /\ Exists(mem, a) => Turn(v, t, RowOf(mem, a), o, mem)
        /\ ~ Exists(mem, a) => \A m : Turn(v, r, m, o, mem)
    BY <1>2, <1>5, TurnRow
  <2>4. memo'[c] = RowOf(mem, a) /\ todo'[c] = IF Exists(mem, a) THEN t ELSE r
    BY <2>1, <2>2, ReadHere
  <2> HIDE DEF t
  <2> QED
    BY <2>3, <2>4
<1>6. ASSUME NEW i \in 1 .. 5, NEW b \in BOOLEAN, NEW r, After(v, b, r), LapFirst(s, i, a, b, r),
             Lap(i, v, memo[c], o, mem)
      PROVE  Turn(v, todo'[c], memo'[c], o, mem)
  <2>1. Head(s) = LapHead(i, a, b)
    BY <1>6 DEF LapFirst
  <2>2. i \in {1, 2}
    <3>1. i \notin {3, 4, 5}
      BY <1>1, <2>1, LapDo
    <3> QED
      BY <3>1, LapsAt
  <2> DEFINE label == IF i = 1 THEN "CONTAINS" ELSE "LIVES_IN"
             p == memo[c] \cup EdgesOf(mem, label, a)
             t == Laps(i + 1, a, b) \o r
  <2>3. Head(s).do = "edges" /\ Head(s).label = label /\ Head(s).node = a
    BY <2>1, <2>2, LapDo
  <2>4. Tail(s) = t
    BY <1>6, <2>2 DEF LapFirst
  <2>5. Lap(i + 1, v, p, o, mem) /\ i + 1 \in 1 .. 5
    <3>1. Lap(i, v, memo[c], o, mem)
      BY <1>6
    <3> HIDE DEF v
    <3>2. a = v[2] /\ Duty(v, o)
      BY <1>2
    <3>3. Lap(i + 1, v, p, o, mem)
      BY <2>2, <3>1, <3>2, TurnEdges
    <3> QED
      BY <2>2, <3>3
  <2>6. t = Laps(i + 1, a, b) \o r
    OBVIOUS
  <2>7. todo'[c] = t /\ memo'[c] = p
    BY <2>3, <2>4, ReadHere
  <2> HIDE DEF t, p
  <2>8. Turn(v, t, p, o, mem)
    BY <1>2, <1>6, <2>5, <2>6 DEF Turn
  <2> QED
    BY <2>7, <2>8
<1>7. \/ s = <<>>
      \/ /\ v[1] = "reembed" /\ Tail(s) = <<>> /\ Kept(v, s, o, mem)
         /\ Head(s) = Probe({<<"source", a, v[3]>>}, <<>>,
                            Rebuild(a, FALSE) \o (Rebuild(a, TRUE) \o <<Sets(v)>>))
      \/ Head(s) = Sets(v)
      \/ \E b \in BOOLEAN : \E r : After(v, b, r) /\ RowFirst(s, a, b, r) /\ Kept(v, s, o, mem)
      \/ OnLap(v, s, memo[c], o, mem)
  BY TurnPlaces
<1> HIDE DEF v, s, a
<1>8. Turn(v, todo'[c], memo'[c], o, mem)
  BY <1>1, <1>3, <1>4, <1>5, <1>6, <1>7 DEF OnLap, a
<1> QED
  BY <1>8 DEF v

LEMMA TurnLaw ==
    ASSUME NEW v \in Scriptable, Rebuilds(v), NEW b
    PROVE  /\ Law(v, Drop(v[2])) /\ Law(v, Put(v[2], b)) /\ v[1] # "navigate"
           /\ v[1] = "reembed" => Law(v, Sets(v))
<1>1. Redoes(v) /\ v[1] # "navigate"
  BY RebuildParts DEF Rebuilds
<1>2. Law(v, Drop(v[2]))
  BY <1>1 DEF Law, Drop
<1>3. Law(v, Put(v[2], b))
  BY DEF Law, Put
<1>4. Law(v, Sets(v))
  <2> DEFINE f == <<"source", v[2], v[3]>>  x == Sets(v)
  <2>1. x.do = "assign" /\ x.node = v[2] /\ x.values = {f} /\ f[1] = "source" /\ f[2] = v[2]
    BY DEF Sets, Assign
  <2>2. \A h : h[1] = "source" /\ h[2] = v[2] => Hurts(v, h)
    BY <1>1 DEF Hurts
  <2> HIDE DEF f, x
  <2>3. Law(v, x)
    BY <2>1, <2>2 DEF Law
  <2> QED
    BY <2>3 DEF x
<1> QED
  BY <1>1, <1>2, <1>3, <1>4

LEMMA WriteLeaves ==
    ASSUME TInv, NEW c \in Calls, Write(c)
    PROVE  /\ todo[c] # <<>> /\ todo'[c] = Tail(todo[c])
           /\ memo'[c] = IF Head(todo[c]).do = "put" THEN memo[c] \cap Edges ELSE memo[c]
<1>1. memo \in [Calls -> SUBSET Facts]
  BY DEF TInv, CallsTyped
<1> QED
  BY <1>1, WriteKinds DEF Write, NextStep

LEMMA RejoinsHere ==
    ASSUME TInv, NEW c \in Calls, Rejoins(c)
    PROVE  /\ todo[c] # <<>> /\ Head(todo[c]).do = "rejoin"
           /\ memo[c] = {} => todo'[c] = Tail(todo[c]) /\ mem' = mem
           /\ memo[c] # {} =>
                 \E e \in memo[c] : /\ mem' = Joined(mem, e) /\ memo'[c] = memo[c] \ {e}
                                    /\ todo'[c] = todo[c]
<1>1. memo \in [Calls -> SUBSET Facts] /\ todo = [d \in Calls |-> todo[d]]
  BY DEF TInv, CallsTyped
<1>2. todo[c] # <<>> /\ Head(todo[c]).do = "rejoin"
  BY DEF Rejoins, Waiting, NextStep
<1>3. ASSUME memo[c] = {} PROVE todo'[c] = Tail(todo[c]) /\ mem' = mem
  BY <1>1, <1>3 DEF Rejoins
<1>4. ASSUME memo[c] # {}
      PROVE  \E e \in memo[c] : /\ mem' = Joined(mem, e) /\ memo'[c] = memo[c] \ {e}
                                /\ todo'[c] = todo[c]
  <2>1. PICK e \in memo[c] : mem' = Joined(mem, e) /\ memo' = [memo EXCEPT ![c] = @ \ {e}] /\ todo' = todo
    BY <1>4 DEF Rejoins
  <2> QED
    BY <1>1, <2>1
<1> QED
  BY <1>2, <1>3, <1>4

LEMMA RejoinHarms ==
    ASSUME NEW k, NEW g, NEW e, e[1] \in RowKinds \cup EdgeKinds
    PROVE  Harms(k, g, Joined(g, e))
<1>1. CASE e[1] \in EdgeKinds
  <2>1. e[1] \in Labels /\ e[1] # "MYTHOS_HEAD"
    BY <1>1 DEF EdgeKinds, Labels
  <2> QED
    BY <2>1, HarmJoin
<1>2. CASE e[1] \in RowKinds
  <2>1. e \notin Edges
    BY <1>2 DEF RowKinds, Edges
  <2> QED
    BY <2>1, HarmNothing DEF Joined
<1> QED
  BY <1>1, <1>2

LEMMA TurnLaps ==
    ASSUME NEW v, NEW o, NEW g, Duty(v, o), NEW m, NEW b \in BOOLEAN, NEW r, After(v, b, r), NEW t
    PROVE  /\ t = Laps(4, v[2], b) \o r /\ Lap(4, v, m, o, g) => Turn(v, t, m, o, g)
           /\ t = Laps(5, v[2], b) \o r /\ Lap(5, v, m, o, g) => Turn(v, t, m, o, g)
<1>1. ASSUME NEW i \in 1 .. 5, t = Laps(i, v[2], b) \o r, Lap(i, v, m, o, g)
      PROVE  Turn(v, t, m, o, g)
  BY <1>1 DEF Turn
<1>2. 4 \in 1 .. 5 /\ 5 \in 1 .. 5
  OBVIOUS
<1> QED
  BY <1>1, <1>2

LEMMA TurnHeads ==
    ASSUME NEW v \in Scriptable, Rebuilds(v), NEW s, NEW m, NEW o, NEW g, Turn(v, s, m, o, g)
    PROVE  \/ s = <<>>
           \/ Head(s).do \in {"probe", "row"}
           \/ Head(s) = Sets(v) /\ Tail(s) = <<>> /\ v[1] = "reembed" /\ Kept(v, s, o, g)
           \/ OnLap(v, s, m, o, g)
<1>1. \A b, r : RowFirst(s, v[2], b, r) => Head(s).do = "row"
  BY DEF RowFirst, Row
<1>2. \A f, t, u : Probe(f, t, u).do = "probe"
  BY DEF Probe
<1> QED
  BY <1>1, <1>2, TurnPlaces

LEMMA TurnWrites ==
    ASSUME TInv, NEW c \in Calls, Write(c), op[c] \in Scriptable, Rebuilds(op[c]),
           NEW o \in SUBSET Facts, Turn(op[c], todo[c], memo[c], o, mem)
    PROVE  Turn(op[c], todo'[c], memo'[c], o, mem') /\ Harms(op[c], mem, mem')
<1> DEFINE v == op[c]  s == todo[c]  a == v[2]
<1> SUFFICES Turn(v, todo'[c], memo'[c], o, mem') /\ Harms(v, mem, mem')
  OBVIOUS
<1>1. /\ s # <<>> /\ todo'[c] = Tail(s)
      /\ memo'[c] = IF Head(s).do = "put" THEN memo[c] \cap Edges ELSE memo[c]
      /\ Head(s).do \in {"create", "join", "unjoin", "drop", "assign", "put", "raise"}
  BY WriteHere, WriteLeaves
<1>2. Duty(v, o)
  BY DEF Turn
<1>3. ASSUME Law(v, Head(s)), \A f \in memo[c] : f[1] \in RowKinds \cup EdgeKinds
      PROVE  Harms(v, mem, mem')
  <2>1. v[1] # "navigate"
    BY TurnLaw
  <2> QED
    BY <1>3, <2>1, WriteHarms
<1>4. CASE Head(s) = Sets(v) /\ Tail(s) = <<>> /\ v[1] = "reembed" /\ Kept(v, s, o, mem)
  <2>1. Head(s).do = "assign" /\ Head(s).node = a /\ Head(s).values = {<<"source", a, v[3]>>}
    BY <1>4 DEF Sets, Assign
  <2>2. mem' = Assigned(mem, a, {<<"source", a, v[3]>>})
    BY <2>1, WriteHere
  <2>3. Turn(v, <<>>, memo'[c], o, mem')
    BY <1>2, <1>4, <2>2, TurnSets
  <2>4. Law(v, Head(s))
    BY <1>4, TurnLaw
  <2>5. Harms(v, mem, mem')
    BY <2>1, <2>4, WriteHarms
  <2> QED
    BY <1>1, <1>4, <2>3, <2>5
<1>5. ASSUME NEW i \in 1 .. 5, NEW b \in BOOLEAN, NEW r, After(v, b, r), LapFirst(s, i, a, b, r),
             Lap(i, v, memo[c], o, mem)
      PROVE  Turn(v, todo'[c], memo'[c], o, mem') /\ Harms(v, mem, mem')
  <2>1. Head(s) = LapHead(i, a, b)
    BY <1>5 DEF LapFirst
  <2>2. i \notin {1, 2, 5}
    BY <1>1, <2>1, LapDo
  <2>3. \A f \in memo[c] : f[1] \in RowKinds \cup EdgeKinds
    BY <1>5 DEF Lap
  <2>4. CASE i = 3
    <3>1. Head(s) = Drop(a) /\ Tail(s) = Laps(4, a, b) \o r
      BY <1>5, <2>1, <2>4, LapDo DEF LapFirst
    <3>2. Head(s).do = "drop" /\ Head(s).node = a
      BY <3>1 DEF Drop
    <3>3. mem' = Dropped(mem, a) /\ memo'[c] = memo[c]
      BY <1>1, <3>2, WriteHere
    <3>4. Lap(4, v, memo'[c], o, mem')
      BY <1>2, <1>5, <2>4, <3>3, TurnDrop
    <3>5. Turn(v, Tail(s), memo'[c], o, mem')
      <4>1. a = v[2] /\ After(v, b, r) /\ Duty(v, o)
        BY <1>2, <1>5
      <4> HIDE DEF v, s, a
      <4> QED
        BY <3>1, <3>4, <4>1, TurnLaps
    <3>6. Harms(v, mem, mem')
      BY <1>3, <2>3, <3>1, TurnLaw
    <3> QED
      BY <1>1, <3>5, <3>6
  <2>5. CASE i = 4
    <3>1. Head(s) = Put(a, b) /\ Tail(s) = Laps(5, a, b) \o r
      <4>1. Head(s) = LapHead(4, a, b)
        BY <2>1, <2>5
      <4>2. Tail(s) = Laps(5, a, b) \o r
        <5>1. i + 1 = 5 /\ i # 5
          BY <2>5
        <5>2. LapFirst(s, i, a, b, r)
          BY <1>5
        <5> HIDE DEF v, s, a
        <5> QED
          BY <5>1, <5>2 DEF LapFirst
      <4>3. LapHead(4, a, b) = Put(a, b)
        <5> HIDE DEF a
        <5> QED
          BY DEF LapHead
      <4> HIDE DEF v, s, a
      <4> QED
        BY <4>1, <4>2, <4>3
    <3>2. Head(s).do = "put" /\ Head(s).node = a /\ Head(s).embedded = b
      BY <3>1 DEF Put
    <3>3. /\ mem' = Created(mem, a, (memo[c] \ Edges) \cup {<<"embedded", a, b>>})
          /\ memo'[c] = memo[c] \cap Edges
      BY <1>1, <3>2, WriteHere
    <3>4. Lap(5, v, memo'[c], o, mem')
      <4>1. a = v[2] /\ After(v, b, r) /\ Duty(v, o) /\ Lap(4, v, memo[c], o, mem)
        BY <1>2, <1>5, <2>5
      <4>2. v \in Scriptable /\ Rebuilds(v)
        OBVIOUS
      <4> HIDE DEF v, s, a
      <4> QED
        BY <3>3, <4>1, <4>2, TurnPut
    <3>5. Turn(v, Tail(s), memo'[c], o, mem')
      <4>1. a = v[2] /\ After(v, b, r) /\ Duty(v, o)
        BY <1>2, <1>5
      <4> HIDE DEF v, s, a
      <4> QED
        BY <3>1, <3>4, <4>1, TurnLaps
    <3>6. Harms(v, mem, mem')
      BY <1>3, <2>3, <3>1, TurnLaw
    <3> QED
      BY <1>1, <3>5, <3>6
  <2> QED
    BY <2>2, <2>4, <2>5, LapsAt
<1>6. \/ Head(s) = Sets(v) /\ Tail(s) = <<>> /\ v[1] = "reembed" /\ Kept(v, s, o, mem)
      \/ OnLap(v, s, memo[c], o, mem)
  BY <1>1, TurnHeads
<1> HIDE DEF v, s, a
<1> QED
  BY <1>4, <1>5, <1>6 DEF OnLap, a

LEMMA TurnRejoins ==
    ASSUME TInv, NEW c \in Calls, Rejoins(c), op[c] \in Scriptable, Rebuilds(op[c]),
           NEW o \in SUBSET Facts, Turn(op[c], todo[c], memo[c], o, mem)
    PROVE  Turn(op[c], todo'[c], memo'[c], o, mem') /\ Harms(op[c], mem, mem')
<1> DEFINE v == op[c]  s == todo[c]  a == v[2]
<1> SUFFICES Turn(v, todo'[c], memo'[c], o, mem') /\ Harms(v, mem, mem')
  OBVIOUS
<1>1. s # <<>> /\ Head(s).do = "rejoin"
  BY RejoinsHere
<1>2. Duty(v, o)
  BY DEF Turn
<1>3. Head(s) # Sets(v)
  BY <1>1 DEF Sets, Assign
<1>4. ASSUME NEW i \in 1 .. 5, NEW b \in BOOLEAN, NEW r, After(v, b, r), LapFirst(s, i, a, b, r),
             Lap(i, v, memo[c], o, mem), s = Laps(i, a, b) \o r
      PROVE  Turn(v, todo'[c], memo'[c], o, mem') /\ Harms(v, mem, mem')
  <2>1. Head(s) = LapHead(i, a, b)
    BY <1>4 DEF LapFirst
  <2>2. i \notin {1, 2, 3, 4}
    BY <1>1, <2>1, LapDo
  <2>3. i = 5
    BY <2>2, LapsAt
  <2>4. /\ Lap(5, v, memo[c], o, mem) /\ Tail(s) = r /\ s = Laps(5, a, b) \o r
        /\ \A f \in memo[c] : f[1] \in RowKinds \cup EdgeKinds
    BY <1>4, <2>3 DEF LapFirst, Lap
  <2>5. CASE memo[c] = {}
    <3>1. todo'[c] = r /\ mem' = mem
      BY <2>4, <2>5, RejoinsHere
    <3>2. Lap(5, v, {}, o, mem)
      BY <2>4, <2>5
    <3>3. Turn(v, r, memo'[c], o, mem)
      BY <1>2, <1>4, <3>2, TurnEnds
    <3> QED
      BY <3>1, <3>3, HarmNothing
  <2>6. CASE memo[c] # {}
    <3>1. PICK e \in memo[c] : mem' = Joined(mem, e) /\ memo'[c] = memo[c] \ {e} /\ todo'[c] = s
      BY <2>6, RejoinsHere
    <3>2. Lap(5, v, memo'[c], o, mem')
      BY <1>2, <2>4, <3>1, TurnJoins
    <3>3. a = v[2] /\ After(v, b, r)
      BY <1>4
    <3>4. Turn(v, s, memo'[c], o, mem')
      <4> HIDE DEF v, s, a
      <4> QED
        BY <1>2, <2>4, <3>2, <3>3, TurnLaps
    <3>5. Harms(v, mem, mem')
      BY <2>4, <3>1, RejoinHarms
    <3> QED
      BY <3>1, <3>4, <3>5
  <2> QED
    BY <2>5, <2>6
<1>5. \/ Head(s) = Sets(v)
      \/ OnLap(v, s, memo[c], o, mem)
  BY <1>1, TurnHeads
<1> HIDE DEF v, s, a
<1> QED
  BY <1>3, <1>4, <1>5 DEF OnLap, a

-----------------------------------------------------------------------------
\* Where the calls are.

\* A call that is under way leaves in the database what it owes once its lines
\* have run.
Tracked(v, s, m, o, g) ==
    IF Rebuilds(v) THEN Turn(v, s, m, o, g)
    ELSE Lines(Kind(v), s) /\ \A f \in o : f[1] # "strength" /\ Ready(s, f, g)

LEMMA TrackBegins ==
    ASSUME NEW v \in Scriptable, acked \in SUBSET Facts, acked \subseteq Current, NEW m
    PROVE  Tracked(v, Script(v), m, Owed(v), Current)
<1>1. CASE Rebuilds(v)
  BY <1>1, TurnBegins DEF Tracked
<1>2. CASE ~ Rebuilds(v)
  <2>1. Lines(Kind(v), Script(v))
    BY <1>2, ScriptMeets DEF Rebuilds, Meets
  <2>2. \A f \in Owed(v) : f[1] # "strength" /\ Ready(Script(v), f, Current)
    BY <1>2, OwedReady, PromiseKinds
  <2> QED
    BY <1>2, <2>1, <2>2 DEF Tracked
<1> QED
  BY <1>1, <1>2

LEMMA TrackEnds ==
    ASSUME NEW v \in Scriptable, NEW m, NEW o, NEW g, Tracked(v, <<>>, m, o, g)
    PROVE  o \subseteq g
<1>1. CASE Rebuilds(v)
  <2>1. Turn(v, <<>>, m, o, g)
    BY <1>1 DEF Tracked
  <2> DEFINE s == <<>>
  <2>2. ASSUME NEW b, NEW r, After(v, b, r), RowFirst(s, v[2], b, r) PROVE FALSE
    BY <2>2 DEF RowFirst
  <2>3. ~ OnLap(v, s, m, o, g)
    BY DEF OnLap, LapFirst
  <2> QED
    BY <1>1, <2>1, <2>2, <2>3, TurnPlaces
<1>2. CASE ~ Rebuilds(v)
  <2>1. \A f \in o : Ready(<<>>, f, g)
    BY <1>2 DEF Tracked
  <2>2. Len(<<>>) = 0
    OBVIOUS
  <2>3. \A f : Ready(<<>>, f, g) => f \in g
    BY <2>2 DEF Ready
  <2> QED
    BY <2>1, <2>3
<1> QED
  BY <1>1, <1>2

\* What a navigation leaves to others, and what others leave to a navigation.
Sees(g, h) ==
    /\ \A f \in g : f[1] # "strength" => f \in h
    /\ \A t \in Triples : Exists(h, t) => Exists(g, t)

Firm(f) == (f[1] = "node" /\ f[2] \notin Avatars \cup Triples) \/ f[1] \in {"AQUEDUCT_FROM", "AQUEDUCT_TO"}
Firmly(o) == \A f \in o : Firm(f) /\ \A n \in Ends(f) : Firm(<<"node", n>>)

LEMMA KnowledgeOf ==
    ASSUME NEW f \in Facts, f[1] = "HAS_KNOWLEDGE"
    PROVE  f[3] \in Triples
<1>1. f \in Edges
  BY FactShapes DEF Labels
<1> QED
  BY <1>1 DEF Edges

LEMMA TrackSees ==
    ASSUME NEW v, NEW s, NEW m, NEW o \in SUBSET Facts, NEW g, NEW h, Sees(g, h), Tracked(v, s, m, o, g)
    PROVE  Tracked(v, s, m, o, h)
<1>1. CASE Rebuilds(v)
  BY <1>1, TurnStays DEF Tracked, Sees
<1>2. CASE ~ Rebuilds(v)
  <2>1. ASSUME NEW f \in o PROVE f[1] # "strength" /\ Ready(s, f, h)
    <3>1. f[1] # "strength" /\ Ready(s, f, g)
      BY <1>2, <2>1 DEF Tracked
    <3>2. \A n : Exists(g, n) => Exists(h, n)
      BY NodeNotHead DEF Sees, Exists
    <3>3. f[1] = "HAS_KNOWLEDGE" => (Exists(h, f[3]) => Exists(g, f[3]))
      BY KnowledgeOf DEF Sees
    <3>4. f \in g => f \in h
      BY <3>1 DEF Sees
    <3> QED
      BY <3>1, <3>2, <3>3, <3>4, ReadyStays
  <2> QED
    BY <1>2, <2>1 DEF Tracked
<1> QED
  BY <1>1, <1>2

LEMMA TrackFirm ==
    ASSUME NEW v, ~ Rebuilds(v), NEW s, NEW m, NEW o, Firmly(o), NEW g, NEW h,
           \A f \in g : Firm(f) => f \in h, Tracked(v, s, m, o, g)
    PROVE  Tracked(v, s, m, o, h)
<1>1. ASSUME NEW f \in o PROVE f[1] # "strength" /\ Ready(s, f, h)
  <2>1. f[1] # "strength" /\ Ready(s, f, g)
    BY <1>1 DEF Tracked
  <2>2. Firm(f) /\ \A n \in Ends(f) : Firm(<<"node", n>>)
    BY <1>1 DEF Firmly
  <2>3. f[1] # "HAS_KNOWLEDGE"
    BY <2>2 DEF Firm
  <2>4. \A n \in Ends(f) : Exists(g, n) => Exists(h, n)
    BY <2>2 DEF Exists
  <2> QED
    BY <2>1, <2>2, <2>3, <2>4, ReadyStays
<1> QED
  BY <1>1 DEF Tracked

LEMMA LinesTail ==
    ASSUME NEW S, NEW s \in Seq(S), s # <<>>, NEW k, Lines(k, s)
    PROVE  /\ Flat(k, Head(s)) /\ Head(s) = s[1] /\ Lines(k, Tail(s))
           /\ \A T : \A t \in Seq(T) : Adds(k, t) => Lines(k, t \o Tail(s))
<1>1. Flat(k, Head(s)) /\ Head(s) = s[1]
  BY TailPlaces DEF Lines
<1>2. Lines(k, Tail(s))
  BY TailPlaces DEF Lines
<1>3. ASSUME NEW T, NEW t \in Seq(T), Adds(k, t) PROVE Lines(k, t \o Tail(s))
  <2>1. Tail(s) \in Seq(S)
    BY TailPlaces
  <2>2. \A j \in 1 .. Len(t) : Flat(k, t[j])
    BY <1>3 DEF Adds, Flat
  <2>3. \A j \in 1 .. Len(Tail(s)) : Flat(k, Tail(s)[j])
    BY <1>2 DEF Lines
  <2> DEFINE u == Tail(s)
  <2>4. /\ Len(t) \in Nat /\ Len(u) \in Nat /\ Len(t \o u) = Len(t) + Len(u)
        /\ \A j \in 1 .. Len(t) : (t \o u)[j] = t[j]
        /\ \A j \in 1 .. Len(u) : (t \o u)[Len(t) + j] = u[j]
    BY <1>3, <2>1, JoinedPlaces
  <2> HIDE DEF u
  <2>5. ASSUME NEW j \in 1 .. Len(t \o u) PROVE Flat(k, (t \o u)[j])
    <3>1. CASE j <= Len(t)
      <4>1. j \in 1 .. Len(t)
        BY <2>4, <2>5, <3>1
      <4> QED
        BY <2>2, <2>4, <4>1
    <3>2. CASE j > Len(t)
      <4> DEFINE i == j - Len(t)
      <4>1. i \in 1 .. Len(u) /\ j = Len(t) + i
        BY <2>4, <2>5, <3>2
      <4> HIDE DEF i
      <4> QED
        BY <2>3, <2>4, <4>1 DEF u
    <3> QED
      BY <2>4, <2>5, <3>1, <3>2
  <2> QED
    BY <2>5 DEF Lines, u
<1> QED
  BY <1>1, <1>2, <1>3

LEMMA TrackReads ==
    ASSUME TInv, NEW c \in Calls, Read(c), op[c] \in Scriptable, Rooted(mem),
           Tracked(op[c], todo[c], memo[c], owed[c], mem)
    PROVE  Tracked(op[c], todo'[c], memo'[c], owed[c], mem)
<1>1. owed[c] \in SUBSET Facts /\ mem \in SUBSET Facts
  BY DEF TInv, ClaimsTyped, GraphsTyped
<1>2. CASE Rebuilds(op[c])
  BY <1>1, <1>2, TurnReads DEF Tracked
<1>3. CASE ~ Rebuilds(op[c])
  <2> DEFINE s == todo[c]  k == Kind(op[c])
  <2>1. s \in Seq(Steps) /\ s # <<>>
    BY StagedSteps, ReadHere DEF TInv, CallsTyped
  <2>2. Lines(k, s)
    BY <1>3 DEF Tracked
  <2>3. \A f \in owed[c] : f \in Facts /\ f[1] # "strength" /\ Ready(s, f, mem)
    BY <1>1, <1>3 DEF Tracked
  <2>4. Flat(k, Head(s)) /\ Head(s) = s[1] /\ Lines(k, Tail(s)) /\ Tail(s) \in Seq(Steps)
    BY <2>1, <2>2, LinesTail, TailPlaces
  <2>5. Head(s).do \in {"probe", "must", "strength"}
    BY <2>4, ReadHere DEF Flat
  <2>6. Lines(k, todo'[c]) /\ \A f \in owed[c] : Ready(todo'[c], f, mem)
    <3>1. CASE Head(s).do \in {"must", "strength"}
      <4>1. todo'[c] = Tail(s)
        BY <3>1, ReadHere
      <4>2. s[1].do \in {"must", "strength"} /\ Flat(k, s[1])
        BY <2>4, <3>1
      <4>3. \A f : ~ Puts(s[1], f)
        BY <4>2 DEF Puts
      <4>4. ASSUME NEW f \in owed[c] PROVE Ready(Tail(s), f, mem)
        <5> HIDE DEF s, k
        <5>1. s[1].do # "probe" /\ s[1].do # "drop"
          BY <4>2
        <5>2. f \in Facts /\ f[1] # "strength" /\ Ready(s, f, mem)
          BY <2>3
        <5> QED
          BY <2>1, <4>2, <4>3, <5>1, <5>2, ReadyRan
      <4> QED
        BY <2>4, <4>1, <4>4
    <3>2. CASE Head(s).do = "probe" /\ Head(s).facts \subseteq mem
      <4>1. todo'[c] = Tail(s)
        <5>1. todo'[c] = Head(s).found \o Tail(s) /\ Head(s).found = <<>>
          BY <2>4, <3>2, ReadHere DEF Flat
        <5> QED
          BY <2>4, <5>1, ConcatEmptySeq
      <4>2. s[1].do = "probe" /\ s[1].facts \subseteq mem
        BY <2>4, <3>2
      <4>3. ASSUME NEW f \in owed[c] PROVE Ready(Tail(s), f, mem)
        <5> HIDE DEF s, k
        <5>1. f \in Facts /\ f[1] # "strength" /\ Ready(s, f, mem)
          BY <2>3
        <5> QED
          BY <1>1, <2>1, <4>2, <5>1, ReadyFound
      <4> QED
        BY <2>4, <4>1, <4>3
    <3>3. CASE Head(s).do = "probe" /\ ~ (Head(s).facts \subseteq mem)
      <4> DEFINE t == Head(s).missing
      <4>1. t \in Seq(Quiet) /\ todo'[c] = t \o Tail(s) /\ Adds(k, t)
        BY <2>4, <3>3, ReadHere DEF Flat
      <4>2. s[1].do = "probe" /\ s[1].missing = t /\ Flat(k, s[1])
        BY <2>4, <3>3
      <4>3. ASSUME NEW f \in owed[c] PROVE Ready(t \o Tail(s), f, mem)
        <5> HIDE DEF s, k, t
        <5>1. f \in Facts /\ f[1] # "strength" /\ Ready(s, f, mem)
          BY <2>3
        <5>2. s[1].missing \in Seq(Quiet)
          BY <4>1, <4>2
        <5>3. Ready(s[1].missing \o Tail(s), f, mem)
          BY <2>1, <4>2, <5>1, <5>2, ReadyMissing
        <5> QED
          BY <4>2, <5>3
      <4>4. Lines(k, t \o Tail(s))
        <5> HIDE DEF s, k, t
        <5> QED
          BY <2>1, <2>2, <4>1, LinesTail
      <4> QED
        BY <4>1, <4>3, <4>4
    <3> QED
      BY <2>5, <3>1, <3>2, <3>3
  <2> QED
    BY <1>3, <2>3, <2>6 DEF Tracked
<1> QED
  BY <1>2, <1>3

LEMMA TrackWrites ==
    ASSUME TInv, NEW c \in Calls, Write(c) \/ Rejoins(c), op[c] \in Scriptable,
           Tracked(op[c], todo[c], memo[c], owed[c], mem)
    PROVE  /\ Tracked(op[c], todo'[c], memo'[c], owed[c], mem')
           /\ Harms(Kind(op[c]), mem, mem')
<1>1. owed[c] \in SUBSET Facts /\ mem \in SUBSET Facts
  BY DEF TInv, ClaimsTyped, GraphsTyped
<1>2. CASE Rebuilds(op[c])
  <2>1. Kind(op[c]) = op[c]
    BY <1>2, RebuildParts
  <2>2. Turn(op[c], todo'[c], memo'[c], owed[c], mem') /\ Harms(op[c], mem, mem')
    BY <1>1, <1>2, TurnWrites, TurnRejoins DEF Tracked
  <2> QED
    BY <1>2, <2>1, <2>2 DEF Tracked
<1>3. CASE ~ Rebuilds(op[c])
  <2> DEFINE s == todo[c]  k == Kind(op[c])
  <2>1. s \in Seq(Steps) /\ s # <<>>
    BY StagedSteps, WriteLeaves, RejoinsHere DEF TInv, CallsTyped
  <2>2. Lines(k, s)
    BY <1>3 DEF Tracked
  <2>3. \A f \in owed[c] : f \in Facts /\ f[1] # "strength" /\ Ready(s, f, mem)
    BY <1>1, <1>3 DEF Tracked
  <2>4. Flat(k, Head(s)) /\ Head(s) = s[1] /\ Lines(k, Tail(s))
    BY <2>1, <2>2, LinesTail
  <2>5. Write(c)
    BY <2>4, RejoinsHere DEF Flat
  <2>6. Head(s).do \notin {"put", "probe"} /\ Law(k, Head(s)) /\ todo'[c] = Tail(s)
    BY <2>4, <2>5, WriteHere, WriteLeaves DEF Flat
  <2>7. Harms(k, mem, mem')
    BY <2>5, <2>6, WriteHarms
  <2>8. /\ \A e \in mem : e[1] # "strength" /\ Spares(s[1], e) => e \in mem'
        /\ \A e \in Facts : Puts(s[1], e) /\ (\A n \in Ends(e) : Exists(mem, n)) => e \in mem'
        /\ \A n : Puts(s[1], <<"node", n>>) => Exists(mem', n)
        /\ s[1].do = "drop" => \A n : Exists(mem', n) => Exists(mem, n)
    BY <2>4, <2>5, WriteRuns
  <2>9. ASSUME NEW f \in owed[c] PROVE f[1] # "strength" /\ Ready(Tail(s), f, mem')
    <3>1. f \in Facts /\ f[1] # "strength" /\ Ready(s, f, mem)
      BY <2>3
    <3>2. Flat(k, s[1]) /\ s[1].do # "probe"
      BY <2>4, <2>6
    <3> HIDE DEF s, k
    <3> QED
      BY <2>1, <2>8, <3>1, <3>2, ReadyRan
  <2> QED
    BY <1>3, <2>4, <2>6, <2>7, <2>9 DEF Tracked
<1> QED
  BY <1>2, <1>3

LEMMA NavigationHurts ==
    ASSUME NEW v \in Navigations
    PROVE  /\ v[1] = "navigate" /\ Kind(v) = v /\ ~ Rebuilds(v) /\ ~ Redoes(v) /\ ~ Crowns(v)
           /\ v \in Scriptable /\ \A f : ~ Hurts(v, f)
<1>1. /\ v[1] = "navigate" /\ v[2] \in {Palace} \cup Rooms /\ v[3] \in Rooms /\ v \in Scriptable
  BY DEF Navigations, Scriptable
<1>2. Kind(v) = v /\ ~ Rebuilds(v) /\ ~ Redoes(v) /\ ~ Crowns(v)
  BY <1>1 DEF Kind, Rebuilds, Redoes, Crowns
<1>3. Contract(v) = Passage(v[2], v[3]) \cup {<<"node", <<v[2], v[3], v[4]>> >>}
  BY <1>1 DEF Contract
<1>4. \A w \in Contract(v) : w[1] \in {"node", "AQUEDUCT_FROM", "AQUEDUCT_TO"}
  BY <1>1, <1>3, PassageKinds
<1> QED
  BY <1>1, <1>2, <1>4 DEF Hurts

LEMMA RedoneNode ==
    ASSUME NEW v \in Scriptable, Redoes(Kind(v))
    PROVE  Kind(v)[2] \in Avatars \cup Triples
<1>1. CASE v[1] = "mirrorAction"
  <2>1. v[3] \in MirrorKinds
    BY <1>1 DEF Scriptable, AllVerbs, Navigations
  <2>2. ~ Redoes(v[3])
    BY <2>1 DEF MirrorKinds, Redoes
  <2> QED
    BY <1>1, <2>2 DEF Kind
<1>2. CASE v[1] # "mirrorAction"
  <2>1. Kind(v) = v
    BY <1>2 DEF Kind
  <2>2. v[1] \in {"upsertEmbedding", "deleteEmbedding", "reembed", "deleteTriple", "updateTriple"}
    BY <2>1 DEF Redoes
  <2> QED
    BY <2>1, <2>2 DEF Scriptable, AllVerbs, Navigations
<1> QED
  BY <1>1, <1>2

LEMMA FirmUnhurt ==
    ASSUME NEW v \in Scriptable, NEW f \in Facts, Firm(f)
    PROVE  ~ Hurts(Kind(v), f) /\ f[1] # "strength"
<1>1. f[1] # "strength" /\ f[1] \notin {"MYTHOS_HEAD", "head", "source", "revision", "orphaned"}
  BY DEF Firm
<1>2. CASE ~ Redoes(Kind(v))
  BY <1>1, <1>2 DEF Hurts
<1>3. CASE Redoes(Kind(v))
  <2>1. Kind(v)[2] \in Avatars \cup Triples
    BY <1>3, RedoneNode
  <2>2. CASE f[1] = "node"
    <3>1. f[2] \notin Avatars \cup Triples /\ f[1] \notin Labels
      BY <2>2 DEF Firm, Labels
    <3> QED
      BY <1>1, <2>1, <3>1 DEF Hurts
  <2>3. CASE f[1] \in {"AQUEDUCT_FROM", "AQUEDUCT_TO"}
    <3>1. f \in Edges
      BY <2>3, FactShapes DEF Labels
    <3>2. f[2] \in Aqueducts /\ f[3] \in Rooms
      BY <2>3, <3>1 DEF Edges
    <3>3. f[2] \notin Avatars \cup Triples /\ f[3] \notin Avatars \cup Triples
      BY <3>2, FingerprintAssumption
    <3> QED
      BY <1>1, <2>1, <3>3 DEF Hurts
  <2> QED
    BY <2>2, <2>3 DEF Firm
<1> QED
  BY <1>2, <1>3

LEMMA NavigationOwes ==
    ASSUME NEW v \in Navigations, acked \in SUBSET Facts
    PROVE  Firmly(Owed(v))
<1>1. v[2] \in {Palace} \cup Rooms /\ v[3] \in Rooms /\ <<v[2], v[3], v[4]>> \in Moves
  BY DEF Navigations, Moves
<1>2. v[1] = "navigate" /\ ~ Rebuilds(v) /\ v \in Scriptable
  BY NavigationHurts
<1> DEFINE q == Aqueduct(v[2], v[3])  n == <<v[2], v[3], v[4]>>
<1>3. q \in Aqueducts /\ q \notin Avatars \cup Triples /\ n \notin Avatars \cup Triples
  <2>1. q \in Aqueducts
    BY <1>1, PassageApart
  <2> QED
    BY <1>1, <2>1, FingerprintAssumption
<1>4. \A f \in Owed(v) : f \in Passage(v[2], v[3]) \/ f = <<"node", n>>
  <2>1. Promise(v) = Contract(v) /\ Contract(v) = Passage(v[2], v[3]) \cup {<<"node", n>>}
    BY <1>2 DEF Promise, Contract
  <2>2. \A f \in Owed(v) : f \in Promise(v)
    BY <1>2, OwedSplit
  <2> QED
    BY <2>1, <2>2
<1> HIDE DEF q, n
<1>5. \A p : Firm(<<"node", p>>) <=> p \notin Avatars \cup Triples
  BY NodeNotHead DEF Firm
<1>6. ASSUME NEW f \in Passage(v[2], v[3]) PROVE Firm(f) /\ \A p \in Ends(f) : Firm(<<"node", p>>)
  <2>1. CASE f[1] = "node"
    <3>1. f = <<"node", q>> /\ Ends(f) = {}
      BY <1>1, <1>6, <2>1, PassageKinds DEF q
    <3> QED
      BY <1>3, <1>5, <3>1
  <2>2. CASE f[1] # "node"
    <3>1. f[1] \in {"AQUEDUCT_FROM", "AQUEDUCT_TO"} /\ Ends(f) = {q, f[3]} /\ f[3] \in Rooms
      BY <1>1, <1>6, <2>2, PassageKinds DEF q
    <3>2. f[3] \notin Avatars \cup Triples
      BY <3>1, FingerprintAssumption
    <3> QED
      BY <1>3, <1>5, <3>1, <3>2 DEF Firm
  <2> QED
    BY <2>1, <2>2
<1>7. Firm(<<"node", n>>) /\ Ends(<<"node", n>>) = {}
  BY <1>3, <1>5, NodeNotHead DEF Ends
<1> QED
  BY <1>4, <1>6, <1>7 DEF Firmly

LEMMA HarmSeen ==
    ASSUME NEW v \in Scriptable, NEW g \in SUBSET Facts, NEW h, Harms(Kind(v), g, h)
    PROVE  /\ v \in Navigations => Sees(g, h)
           /\ \A f \in g : Firm(f) => f \in h
<1>1. ASSUME v \in Navigations PROVE Sees(g, h)
  <2>1. Kind(v) = v /\ v[1] = "navigate" /\ \A f : ~ Hurts(v, f)
    BY <1>1, NavigationHurts
  <2> QED
    BY <2>1 DEF Harms, Sees
<1>2. ASSUME NEW f \in g, Firm(f) PROVE f \in h
  BY <1>2, FirmUnhurt DEF Harms
<1> QED
  BY <1>1, <1>2

\* What one step does to the calls and to what callers rely on.
LEMMA CallsMove ==
    ASSUME TInv, [Next]_vars, ~ Reload, \A c \in Calls : ~ Write(c) /\ ~ Rejoins(c)
    PROVE  \E c \in Calls :
              /\ \A d \in Calls \ {c} :
                    op'[d] = op[d] /\ todo'[d] = todo[d] /\ memo'[d] = memo[d] /\ owed'[d] = owed[d]
              /\ \/ /\ op'[c] \notin Scriptable /\ acked' = acked
                    /\ owed'[c] = {} \/ (op[c] \notin Scriptable /\ owed'[c] = owed[c])
                 \/ /\ op'[c] = op[c] /\ todo'[c] = todo[c] /\ memo'[c] = memo[c]
                    /\ owed'[c] = owed[c] /\ acked' = acked
                 \/ Resolve(c)
                 \/ \E v \in Scriptable : Call(c, v) /\ (c \in Clicks => v \in Navigations)
                 \/ Read(c)
<1> DEFINE Others(c) == \A d \in Calls \ {c} :
              op'[d] = op[d] /\ todo'[d] = todo[d] /\ memo'[d] = memo[d] /\ owed'[d] = owed[d]
           Leaves(c) == /\ op'[c] \notin Scriptable /\ acked' = acked
                        /\ owed'[c] = {} \/ (op[c] \notin Scriptable /\ owed'[c] = owed[c])
           Rests(c) == /\ op'[c] = op[c] /\ todo'[c] = todo[c] /\ memo'[c] = memo[c]
                       /\ owed'[c] = owed[c] /\ acked' = acked
           Calling(c) == \E v \in Scriptable : Call(c, v) /\ (c \in Clicks => v \in Navigations)
<1>1. /\ Idle \notin Scriptable /\ <<"open">> \notin Scriptable
      /\ <<"close">> \notin Scriptable /\ <<"syncfs">> \notin Scriptable
  BY OpKinds DEF Idle
<1>2. ASSUME NEW c \in Calls, NEW v \in Scriptable, Call(c, v) PROVE Others(c)
  BY <1>2, CallPlace DEF TInv, CallsTyped, ClaimsTyped, Call
<1>3. ASSUME NEW v \in AllVerbs, Verb(v) PROVE Others(Host) /\ Calling(Host) /\ Host \in Calls
  <2>1. Host \in Calls /\ v \in Scriptable /\ Call(Host, v) /\ Host \notin Clicks
    BY <1>3, VerbScripted, StoreCallsAssumption DEF Verb, Calls
  <2> QED
    BY <1>2, <2>1
<1>4. ASSUME NEW c \in Clicks, NEW r \in Rooms, Navigate(c, r)
      PROVE  Others(c) /\ Calling(c) /\ c \in Calls
  <2>1. c \in Calls
    BY DEF Calls
  <2>2. \E v \in Navigations : v \in Scriptable /\ Call(c, v)
    BY <1>4, NavigateCalls
  <2> QED
    BY <1>2, <2>1, <2>2
<1>5. ASSUME NEW c \in Calls, NEW v \in {<<"open">>, <<"close">>, <<"syncfs">>}, NEW s,
             Began(c, v, s), UNCHANGED <<memo, owed, acked>>
      PROVE  Others(c) /\ Leaves(c)
  BY <1>1, <1>5, BeganHere DEF TInv
<1>6. ASSUME NEW c \in Calls, Open(c) PROVE Others(c) /\ Leaves(c)
  BY <1>5, <1>6 DEF Open, claims
<1>7. ASSUME Close \/ SyncOut PROVE Others(Host) /\ Leaves(Host) /\ Host \in Calls
  <2>1. Host \in Calls
    BY DEF Calls
  <2> QED
    BY <1>5, <1>7, <2>1 DEF Close, SyncOut, claims
<1>8. ASSUME NEW c \in Calls, Ended(c) PROVE Others(c) /\ op'[c] \notin Scriptable /\ owed'[c] = {}
  BY <1>1, <1>8 DEF Ended, TInv, CallsTyped, ClaimsTyped
<1>9. ASSUME NEW c \in Calls, NEW name \in Lifecycle, Goes(c, name), acked' = acked
      PROVE  Others(c) /\ Leaves(c)
  <2>1. op[c] \in {<<"open">>, <<"close">>, <<"syncfs">>}
    BY <1>9, GoesAtLife DEF Goes, TInv, AtLife
  <2>2. op' = op /\ owed' = owed /\ memo' = memo
    BY <1>9 DEF Goes
  <2> QED
    BY <1>1, <1>9, <2>1, <2>2, LifeMoves DEF TInv
<1>10. ASSUME NEW c \in Calls, Step(c), ~ Write(c), ~ Rejoins(c)
       PROVE  Others(c) /\ (Leaves(c) \/ Rests(c) \/ Resolve(c) \/ Read(c))
  <2>1. CASE Mount(c) \/ Load(c) \/ TablesDone(c) \/ Disconnect(c) \/ Shut(c) \/ Save(c) \/ Unmount(c)
    <3>1. acked' = acked /\ \E name \in Lifecycle : Goes(c, name)
      BY <2>1 DEF Mount, Load, TablesDone, Disconnect, Shut, Save, Unmount, Lifecycle, claims
    <3> QED
      BY <1>9, <3>1
  <2>2. CASE CreateTables(c)
    BY <2>2 DEF CreateTables, claims
  <2>3. CASE Refused(c)
    BY <1>8, <2>3 DEF Refused, Rejected, claims
  <2>4. CASE Resolve(c)
    BY <1>8, <2>4 DEF Resolve
  <2>5. CASE Read(c)
    <3>1. op' = op /\ owed' = owed
      BY <2>5 DEF Read
    <3>2. \A d \in Calls \ {c} : todo'[d] = todo[d] /\ memo'[d] = memo[d]
      BY <2>5 DEF Read, TInv, CallsTyped
    <3> QED
      BY <2>5, <3>1, <3>2
  <2> QED
    BY <1>10, <2>1, <2>2, <2>3, <2>4, <2>5 DEF Step
<1>11. ASSUME NEW c \in Calls, Fail(c) PROVE Others(c) /\ Leaves(c)
  BY <1>8, <1>11 DEF Fail, Rejected, claims
<1>12. ASSUME UNCHANGED vars PROVE Others(Host) /\ Rests(Host) /\ Host \in Calls
  BY <1>12 DEF vars, claims, Calls
<1> HIDE DEF Others, Leaves, Rests, Calling
<1>13. \E c \in Calls : Others(c) /\ (Leaves(c) \/ Rests(c) \/ Resolve(c) \/ Calling(c) \/ Read(c))
  <2>1. CASE Next
    <3>1. CASE \E v \in AllVerbs : Verb(v)
      BY <1>3, <3>1
    <3>2. CASE \E c \in Clicks, r \in Rooms : Navigate(c, r)
      BY <1>4, <3>2
    <3>3. CASE (\E c \in Calls : Open(c)) \/ Close \/ SyncOut
      BY <1>6, <1>7, <3>3
    <3>4. CASE \E c \in Calls : Step(c)
      BY <1>10, <3>4
    <3>5. CASE \E c \in Calls : Fail(c)
      BY <1>11, <3>5
    <3> QED
      BY <2>1, <3>1, <3>2, <3>3, <3>4, <3>5 DEF Next
  <2> QED
    BY <1>12, <2>1
<1> QED
  BY <1>13 DEF Others, Leaves, Rests, Calling

\* The database is in memory from its load on.
LEMMA LoadedBefore ==
    ASSUME TInv, Session, [Next]_vars, ~ Reload, Loaded'
    PROVE  Loaded \/ \E c \in Calls : Load(c)
<1> SUFFICES ASSUME ~ \E c \in Calls : Load(c), conn = "none", ~ Shutting PROVE FALSE
  BY DEF Loaded
<1>1. Host \in Calls /\ CallsTyped
  BY DEF Calls, TInv
<1>2. \A c \in Calls : ~ Waiting(c, "disconnect")
  <2>1. ASSUME NEW c \in Calls, Waiting(c, "disconnect") PROVE Shutting
    <3>1. op[c] = <<"close">> /\ c = Host
      BY <1>1, <2>1, LifeOf DEF Lifecycle
    <3> QED
      BY <2>1, <3>1 DEF Shutting, Waiting
  <2> QED
    BY <2>1
<1>3. conn' = "none"
  <2>1. CASE UNCHANGED conn
    BY <2>1
  <2>2. CASE \E c \in Calls : Disconnect(c)
    BY <1>2, <2>2 DEF Disconnect, Goes
  <2>3. CASE \E c \in Calls : Shut(c)
    BY <2>3 DEF Shut
  <2>4. UNCHANGED conn \/ (\E c \in Calls : Disconnect(c) \/ Shut(c))
    BY DEF Next, vars, graphs, Verb, Navigate, Call, Open, Close, SyncOut, Step, Mount, CreateTables,
           TablesDone, Save, Unmount, Read, Write, Rejoins, Refused, Rejected, Resolve, Fail
  <2> QED
    BY <2>1, <2>2, <2>3, <2>4
<1>4. Shutting'
  BY <1>3 DEF Loaded
<1>5. op'[Host] = <<"close">> /\ todo'[Host] # <<>>
  BY <1>4 DEF Shutting
<1>6. <<"close">> \notin Scriptable /\ <<"close">> # Idle /\ <<"close">> # <<"open">>
      /\ <<"close">> # <<"syncfs">>
  BY OpKinds DEF Idle
<1>7. ASSUME NEW c \in Calls, Goes(c, "mount") \/ Goes(c, "ddl") \/ Goes(c, "shut") \/ Goes(c, "save")
                                \/ Goes(c, "unmount")
      PROVE  FALSE
  <2>1. PICK name \in Lifecycle : Goes(c, name)
    BY <1>7 DEF Lifecycle
  <2>2. op' = op /\ todo[c] # <<>> /\ \A d \in Calls \ {c} : todo'[d] = todo[d]
    BY <1>1, <2>1, LifeMoves
  <2>3. op[Host] = <<"close">> /\ todo[Host] # <<>>
    BY <1>1, <1>5, <2>2
  <2> QED
    BY <2>3 DEF Shutting
<1>8. ASSUME NEW c \in Calls, Read(c) \/ Write(c) \/ Rejoins(c) PROVE FALSE
  BY <1>8 DEF Read, Write, Rejoins, Usable
<1>9. ASSUME NEW c \in Calls, Ended(c) PROVE FALSE
  <2>1. c # Host
    BY <1>1, <1>5, <1>6, <1>9 DEF Ended, CallsTyped
  <2>2. op'[Host] = op[Host] /\ todo'[Host] = todo[Host]
    BY <1>1, <1>9, <2>1 DEF Ended, CallsTyped
  <2> QED
    BY <1>5, <2>2 DEF Shutting
<1>10. ASSUME NEW c \in Calls, NEW v, NEW s, Began(c, v, s) PROVE c = Host /\ v = <<"close">> /\ s # <<>>
  <2>1. c = Host
    BY <1>1, <1>5, <1>10, BeganHere DEF Shutting
  <2>2. op'[Host] = v /\ todo'[Host] = s
    BY <1>1, <1>10, <2>1, BeganHere
  <2> QED
    BY <1>5, <2>1, <2>2
<1>11. CASE \E v \in AllVerbs : Verb(v)
  BY <1>11 DEF Verb
<1>12. ASSUME NEW c \in Clicks, NEW r \in Rooms, Navigate(c, r) PROVE FALSE
  <2>1. c \in Calls
    BY DEF Calls
  <2>2. \E v \in Navigations : Call(c, v) /\ v \in Scriptable
    BY <1>12, NavigateCalls
  <2> QED
    BY <1>6, <1>10, <2>1, <2>2 DEF Call
<1>13. ASSUME NEW c \in Calls, Open(c) PROVE FALSE
  BY <1>6, <1>10, <1>13 DEF Open
<1>14. ~ Close /\ ~ SyncOut
  BY <1>1, <1>10 DEF Close, SyncOut
<1>15. ASSUME NEW c \in Calls, Step(c) PROVE FALSE
  <2>1. ~ CreateTables(c)
    BY DEF CreateTables
  <2> QED
    BY <1>2, <1>7, <1>8, <1>9, <1>15, <2>1
       DEF Step, Mount, TablesDone, Disconnect, Shut, Save, Unmount, Refused, Rejected, Resolve, Goes
<1>16. ASSUME NEW c \in Calls, Fail(c) PROVE FALSE
  BY <1>9, <1>16 DEF Fail, Rejected
<1>17. CASE UNCHANGED vars
  BY <1>5, <1>17 DEF vars, Shutting
<1> QED
  BY <1>11, <1>12, <1>13, <1>14, <1>15, <1>16, <1>17 DEF Next

LEMMA RootedBoth ==
    ASSUME NEW g, NEW h, Rooted(g), h = g \/ h = {} PROVE Rooted(h)
BY DEF Rooted

\* The database that is read has all that callers rely on, and every call is on
\* its way to what it owes; nobody hurts what others rely on or are owed.
Upright == Rooted(mem) /\ Rooted(disk) /\ (Loaded /\ mem = {} => disk = {})

Underway ==
    \A c \in Calls :
        /\ op[c] \notin Scriptable => owed[c] = {}
        /\ op[c] \in Scriptable => /\ Tracked(op[c], todo[c], memo[c], owed[c], Current)
                                   /\ \A f \in acked : ~ Hurts(Kind(op[c]), f)
        /\ op[c] \in Scriptable /\ c \in Clicks => op[c] \in Navigations /\ Firmly(owed[c])

Keeping ==
    /\ Upright /\ Underway
    /\ acked \subseteq Current /\ saved \subseteq disk
    /\ \A f \in acked \cup saved : f[1] # "strength"

LEMMA KeepingInit == Init => Keeping
<1> SUFFICES ASSUME Init PROVE Keeping
  OBVIOUS
<1>1. mem = {} /\ Rooted(disk) /\ Current = disk
  BY StoreSeedsAssumption DEF Init, Current
<1>2. Rooted(mem)
  BY <1>1, RootedBoth
<1>3. \A c \in Calls : op[c] = Idle /\ owed[c] = {} /\ todo[c] = <<>>
  BY DEF Init
<1>4. Idle \notin Scriptable /\ Host \in Calls
  BY OpKinds DEF Calls
<1>5. ~ Loaded
  BY <1>3, <1>4 DEF Init, Loaded, Shutting
<1>6. saved \subseteq disk /\ acked = saved /\ \A f \in saved : f[1] # "strength"
  BY DEF Init
<1>7. Underway
  BY <1>3, <1>4 DEF Underway
<1> QED
  BY <1>1, <1>2, <1>5, <1>6, <1>7 DEF Keeping, Upright

LEMMA KeepingReload == ASSUME Keeping, Reload PROVE Keeping'
<1>1. mem' = {} /\ disk' = disk /\ conn' = "none" /\ acked' = saved /\ saved' = saved
  BY DEF Reload
<1>2. \A c \in Calls : op'[c] = Idle /\ owed'[c] = {} /\ todo'[c] = <<>>
  BY DEF Reload
<1>3. Idle \notin Scriptable /\ Host \in Calls
  BY OpKinds DEF Calls
<1>4. Upright'
  <2>1. ~ Loaded'
    BY <1>1, <1>2, <1>3 DEF Loaded, Shutting
  <2>2. Rooted(mem') /\ Rooted(disk')
    BY <1>1, RootedBoth DEF Keeping, Upright
  <2> QED
    BY <2>1, <2>2 DEF Upright
<1>5. Underway'
  BY <1>2, <1>3 DEF Underway
<1>6. Current' = disk
  BY <1>1 DEF Current
<1> QED
  BY <1>1, <1>4, <1>5, <1>6 DEF Keeping

\* Steps that write nothing in memory.
LEMMA UprightQuiet ==
    ASSUME TInv, Session, Upright, [Next]_vars, ~ Reload,
           \A c \in Calls : ~ Write(c) /\ ~ Rejoins(c) /\ ~ CreateTables(c)
    PROVE  /\ Upright' /\ Current' = Current
           /\ \/ disk' = disk /\ saved' = saved
              \/ Loaded /\ disk' = mem /\ saved' = acked /\ acked' = acked
<1>1. ASSUME UNCHANGED <<disk, mem>> PROVE Current' = Current /\ Rooted(mem') /\ Rooted(disk')
  BY <1>1 DEF Current, Upright
<1>2. ASSUME NEW c \in Calls, Load(c)
      PROVE  Current' = Current /\ Rooted(mem') /\ Rooted(disk') /\ mem' = disk' /\ disk' = disk
  <2>1. mem = {}
    BY <1>2 DEF Load, Goes, Session
  <2>2. mem' = disk /\ disk' = disk
    BY <1>2 DEF Load
  <2> QED
    BY <2>1, <2>2 DEF Current, Upright
<1>3. ASSUME NEW c \in Calls, Save(c)
      PROVE  /\ Current' = Current /\ Rooted(mem') /\ Rooted(disk')
             /\ mem' = mem /\ disk' = mem /\ saved' = acked /\ acked' = acked /\ Loaded
  <2>1. Loaded /\ disk' = mem /\ mem' = mem /\ saved' = acked /\ acked' = acked
    BY <1>3, SessionSave DEF Save
  <2> QED
    BY <2>1 DEF Current, Upright
<1>4. ASSUME NEW c \in Calls, Unmount(c)
      PROVE  Current' = Current /\ Rooted(mem') /\ Rooted(disk') /\ disk' = disk /\ ~ Loaded'
  <2>1. disk = mem /\ disk' = disk /\ mem' = {}
    BY <1>4, SessionUnmount DEF Unmount
  <2>2. Session'
    BY <1>4, SessionUnmount
  <2>3. ~ mounted'
    BY <1>4 DEF Unmount
  <2>4. ~ Loaded'
    BY <2>2, <2>3 DEF Session
  <2> QED
    BY <2>1, <2>4, RootedBoth DEF Current, Upright
<1>5. \/ UNCHANGED <<disk, mem>>
      \/ \E c \in Calls : Load(c) \/ Save(c) \/ Unmount(c)
  BY GraphMoves
<1>6. Current' = Current /\ Rooted(mem') /\ Rooted(disk')
  BY <1>1, <1>2, <1>3, <1>4, <1>5
<1>7. Loaded' /\ mem' = {} => disk' = {}
  <2>1. Loaded' => Loaded \/ \E c \in Calls : Load(c)
    BY LoadedBefore
  <2>2. (Loaded /\ mem = {}) => disk = {}
    BY DEF Upright
  <2> QED
    BY <1>2, <1>3, <1>4, <1>5, <2>1, <2>2
<1>8. \/ disk' = disk /\ saved' = saved
      \/ Loaded /\ disk' = mem /\ saved' = acked /\ acked' = acked
  <2>1. saved' = saved \/ \E c \in Calls : Save(c)
    BY DEF Next, vars, claims, Verb, Navigate, Call, Open, Close, SyncOut, Step, Mount, Load, CreateTables,
           TablesDone, Disconnect, Shut, Unmount, Read, Write, Rejoins, Refused, Rejected, Resolve, Fail
  <2>2. disk' = disk \/ \E c \in Calls : Save(c)
    BY <1>2, <1>4, <1>5
  <2> QED
    BY <1>3, <2>1, <2>2
<1> QED
  BY <1>6, <1>7, <1>8 DEF Upright

\* A statement that writes, of one call, and what it leaves alone.
LEMMA WriteGraph ==
    ASSUME TInv, Session, Underway, NEW c \in Calls, Write(c) \/ Rejoins(c)
    PROVE  /\ op[c] \in Scriptable /\ Loaded /\ mem # {} /\ Current = mem /\ mem' # {} /\ Current' = mem'
           /\ Loaded' /\ disk' = disk /\ op' = op /\ owed' = owed /\ acked' = acked /\ saved' = saved
           /\ \A d \in Calls \ {c} : todo'[d] = todo[d] /\ memo'[d] = memo[d]
           /\ Tracked(op[c], todo'[c], memo'[c], owed[c], mem')
           /\ Harms(Kind(op[c]), mem, mem')
<1>1. /\ conn = "open" /\ conn' = conn /\ disk' = disk /\ op' = op
      /\ \A d \in Calls \ {c} : todo'[d] = todo[d] /\ memo'[d] = memo[d]
  BY WriteKinds, TidyWrites
<1>2. todo[c] # <<>> /\ Head(todo[c]).do \notin Lifecycle
  BY WriteLeaves, RejoinsHere DEF Write, NextStep, Lifecycle
<1>3. op[c] \in Scriptable
  BY <1>2, QueryOf DEF TInv
<1>4. PICK s \in Schema : <<"table", s>> \in mem
  BY SchemaAssumption DEF Write, Rejoins, Usable, TablesExist
<1>5. Current = mem
  BY <1>4 DEF Current
<1>6. /\ Tracked(op[c], todo'[c], memo'[c], owed[c], mem')
      /\ Harms(Kind(op[c]), mem, mem')
  BY <1>3, <1>5, TrackWrites DEF Underway
<1>7. <<"table", s>> \in mem'
  BY <1>4, <1>6 DEF Harms
<1>8. Current' = mem'
  BY <1>7 DEF Current
<1>9. owed' = owed /\ acked' = acked /\ saved' = saved
  BY DEF Write, Rejoins, claims
<1> QED
  BY <1>1, <1>3, <1>4, <1>5, <1>6, <1>7, <1>8, <1>9 DEF Loaded

LEMMA KeepingWrite ==
    ASSUME TInv, Session, Keeping, NEW c \in Calls, Write(c) \/ Rejoins(c)
    PROVE  Keeping'
<1>1. /\ op[c] \in Scriptable /\ Loaded /\ mem # {} /\ Current = mem /\ mem' # {} /\ Current' = mem'
      /\ Loaded' /\ disk' = disk /\ op' = op /\ owed' = owed /\ acked' = acked /\ saved' = saved
      /\ \A d \in Calls \ {c} : todo'[d] = todo[d] /\ memo'[d] = memo[d]
      /\ Tracked(op[c], todo'[c], memo'[c], owed[c], mem')
      /\ Harms(Kind(op[c]), mem, mem')
  BY WriteGraph DEF Keeping
<1>2. mem \in SUBSET Facts /\ owed \in [Calls -> SUBSET Facts]
  BY DEF TInv, GraphsTyped, ClaimsTyped
<1>3. Upright'
  BY <1>1 DEF Keeping, Upright, Harms
<1>4. /\ op[c] \in Navigations => Sees(mem, mem')
      /\ \A f \in mem : Firm(f) => f \in mem'
  BY <1>1, <1>2, HarmSeen
<1>5. ASSUME NEW d \in Calls, op[d] \in Scriptable
      PROVE  Tracked(op[d], todo'[d], memo'[d], owed[d], mem')
  <2>1. CASE d = c
    BY <1>1, <2>1
  <2>2. CASE d # c /\ c \in Clicks
    <3>1. Sees(mem, mem')
      BY <1>1, <1>4, <2>2 DEF Keeping, Underway
    <3>2. Tracked(op[d], todo[d], memo[d], owed[d], mem)
      BY <1>1, <1>5 DEF Keeping, Underway
    <3>3. owed[d] \in SUBSET Facts
      BY <1>2
    <3>4. Tracked(op[d], todo[d], memo[d], owed[d], mem')
      BY <3>1, <3>2, <3>3, TrackSees
    <3> QED
      BY <1>1, <2>2, <3>4
  <2>3. CASE d # c /\ c = Host
    <3>1. d \in Clicks
      BY <2>3 DEF Calls
    <3>2. op[d] \in Navigations /\ Firmly(owed[d])
      BY <1>5, <3>1 DEF Keeping, Underway
    <3>3. ~ Rebuilds(op[d])
      BY <3>2, NavigationHurts
    <3>4. Tracked(op[d], todo[d], memo[d], owed[d], mem)
      BY <1>1, <1>5 DEF Keeping, Underway
    <3>5. Tracked(op[d], todo[d], memo[d], owed[d], mem')
      BY <1>4, <3>2, <3>3, <3>4, TrackFirm
    <3> QED
      BY <1>1, <2>3, <3>5
  <2> QED
    BY <2>1, <2>2, <2>3 DEF Calls
<1>6. Underway'
  <2>1. ASSUME NEW d \in Calls PROVE op[d] \notin Scriptable => owed[d] = {}
    BY DEF Keeping, Underway
  <2>2. ASSUME NEW d \in Calls, op[d] \in Scriptable PROVE \A f \in acked : ~ Hurts(Kind(op[d]), f)
    BY <2>2 DEF Keeping, Underway
  <2>3. ASSUME NEW d \in Calls, op[d] \in Scriptable, d \in Clicks PROVE op[d] \in Navigations /\ Firmly(owed[d])
    BY <2>3 DEF Keeping, Underway
  <2> QED
    BY <1>1, <1>5, <2>1, <2>2, <2>3 DEF Underway
<1>7. acked \subseteq mem'
  <2>1. ASSUME NEW f \in acked PROVE f \in mem'
    <3>1. f \in mem /\ f[1] # "strength" /\ ~ Hurts(Kind(op[c]), f)
      BY <1>1 DEF Keeping, Underway
    <3> QED
      BY <1>1, <3>1 DEF Harms
  <2> QED
    BY <2>1
<1> QED
  BY <1>1, <1>3, <1>6, <1>7 DEF Keeping

LEMMA KeepingTables ==
    ASSUME TInv, Session, Keeping, NEW c \in Calls, CreateTables(c)
    PROVE  Keeping'
<1>1. PICK s \in Schema : mem' = mem \cup {<<"table", s>>}
  BY DEF CreateTables
<1>2. /\ conn = "open" /\ conn' = conn /\ disk' = disk /\ op' = op /\ todo' = todo /\ memo' = memo
      /\ owed' = owed /\ acked' = acked /\ saved' = saved
  BY DEF CreateTables, claims
<1>3. Loaded /\ Loaded'
  BY <1>2 DEF Loaded
<1>4. Current = mem
  BY <1>3 DEF Keeping, Upright, Current
<1>5. Current' = mem' /\ mem' # {}
  BY <1>1 DEF Current
<1>6. Sees(mem, mem')
  <2>1. \A t : Exists(mem', t) => Exists(mem, t)
    <3>1. ASSUME NEW t, <<"node", t>> = <<"table", s>> PROVE FALSE
      BY <3>1
    <3> QED
      BY <1>1, <3>1 DEF Exists
  <2> QED
    BY <1>1, <2>1 DEF Sees
<1>7. Upright'
  <2>1. Harms(<<"open">>, mem, mem')
    BY <1>1, HarmNothing
  <2> QED
    BY <1>2, <1>5, <2>1 DEF Keeping, Upright, Harms
<1>8. owed \in [Calls -> SUBSET Facts]
  BY DEF TInv, ClaimsTyped
<1>9. ASSUME NEW d \in Calls, op[d] \in Scriptable
      PROVE  Tracked(op[d], todo[d], memo[d], owed[d], mem')
  <2>1. Tracked(op[d], todo[d], memo[d], owed[d], mem)
    BY <1>4, <1>9 DEF Keeping, Underway
  <2>2. owed[d] \in SUBSET Facts
    BY <1>8
  <2> QED
    BY <1>6, <2>1, <2>2, TrackSees
<1>10. Underway'
  <2>1. ASSUME NEW d \in Calls PROVE op[d] \notin Scriptable => owed[d] = {}
    BY DEF Keeping, Underway
  <2>2. ASSUME NEW d \in Calls, op[d] \in Scriptable PROVE \A f \in acked : ~ Hurts(Kind(op[d]), f)
    BY <2>2 DEF Keeping, Underway
  <2>3. ASSUME NEW d \in Calls, op[d] \in Scriptable, d \in Clicks PROVE op[d] \in Navigations /\ Firmly(owed[d])
    BY <2>3 DEF Keeping, Underway
  <2> QED
    BY <1>2, <1>5, <1>9, <2>1, <2>2, <2>3 DEF Underway
<1> QED
  BY <1>1, <1>2, <1>4, <1>5, <1>7, <1>10 DEF Keeping

\* The calls but one rest.
LEMMA UnderwayOne ==
    ASSUME Underway, NEW c \in Calls, Current' = Current,
           \A d \in Calls \ {c} :
              op'[d] = op[d] /\ todo'[d] = todo[d] /\ memo'[d] = memo[d] /\ owed'[d] = owed[d],
           \A d \in Calls \ {c} : op[d] \in Scriptable => \A f \in acked' : ~ Hurts(Kind(op[d]), f),
           op'[c] \notin Scriptable => owed'[c] = {},
           op'[c] \in Scriptable =>
              /\ Tracked(op'[c], todo'[c], memo'[c], owed'[c], Current)
              /\ \A f \in acked' : ~ Hurts(Kind(op'[c]), f)
              /\ c \in Clicks => op'[c] \in Navigations /\ Firmly(owed'[c])
    PROVE  Underway'
<1>1. ASSUME NEW d \in Calls, d # c
      PROVE  /\ op'[d] \notin Scriptable => owed'[d] = {}
             /\ op'[d] \in Scriptable => /\ Tracked(op'[d], todo'[d], memo'[d], owed'[d], Current)
                                         /\ \A f \in acked' : ~ Hurts(Kind(op'[d]), f)
             /\ op'[d] \in Scriptable /\ d \in Clicks => op'[d] \in Navigations /\ Firmly(owed'[d])
  <2>1. op'[d] = op[d] /\ todo'[d] = todo[d] /\ memo'[d] = memo[d] /\ owed'[d] = owed[d]
    BY <1>1
  <2>2. /\ op[d] \notin Scriptable => owed[d] = {}
        /\ op[d] \in Scriptable => Tracked(op[d], todo[d], memo[d], owed[d], Current)
        /\ op[d] \in Scriptable /\ d \in Clicks => op[d] \in Navigations /\ Firmly(owed[d])
    BY DEF Underway
  <2>3. op[d] \in Scriptable => \A f \in acked' : ~ Hurts(Kind(op[d]), f)
    BY <1>1
  <2> QED
    BY <2>1, <2>2, <2>3
<1> QED
  BY <1>1 DEF Underway

\* What one call is owed no other takes away.
LEMMA OthersUnhurt ==
    ASSUME Underway, NEW c \in Calls, NEW d \in Calls, c # d, op[d] \in Scriptable,
           NEW o \in SUBSET Facts, c \in Clicks => Firmly(o), NEW f \in o
    PROVE  ~ Hurts(Kind(op[d]), f)
<1>1. CASE d \in Clicks
  BY <1>1, NavigationHurts DEF Underway
<1>2. CASE d \notin Clicks
  <2>1. c \in Clicks
    BY <1>2 DEF Calls
  <2> QED
    BY <2>1, FirmUnhurt DEF Firmly
<1> QED
  BY <1>1, <1>2

LEMMA OwedKinds ==
    ASSUME NEW v, NEW s, NEW m, NEW o, NEW g, Tracked(v, s, m, o, g), NEW f \in o
    PROVE  f[1] # "strength"
<1>1. CASE ~ Rebuilds(v)
  BY <1>1 DEF Tracked
<1>2. CASE Rebuilds(v)
  <2>1. f \in Contract(v) \/ Own(v, f)
    BY <1>2 DEF Tracked, Turn, Duty
  <2> QED
    BY <2>1, ContractKinds DEF Own, RowKinds, EdgeKinds
<1> QED
  BY <1>1, <1>2

LEMMA KeepingQuiet ==
    ASSUME TInv, Session, Keeping, [Next]_vars, ~ Reload,
           \A c \in Calls : ~ Write(c) /\ ~ Rejoins(c) /\ ~ CreateTables(c)
    PROVE  Keeping'
<1>1. /\ Upright' /\ Current' = Current
      /\ \/ disk' = disk /\ saved' = saved
         \/ Loaded /\ disk' = mem /\ saved' = acked /\ acked' = acked
  BY UprightQuiet DEF Keeping
<1>2. /\ Underway /\ acked \subseteq Current /\ saved \subseteq disk
      /\ \A f \in acked \cup saved : f[1] # "strength"
  BY DEF Keeping
<1>3. acked \in SUBSET Facts /\ owed \in [Calls -> SUBSET Facts]
  BY DEF TInv, ClaimsTyped
<1>4. Loaded => Current = mem
  BY DEF Keeping, Upright, Current
<1> DEFINE Rest(c) == \A d \in Calls \ {c} :
              op'[d] = op[d] /\ todo'[d] = todo[d] /\ memo'[d] = memo[d] /\ owed'[d] = owed[d]
           Goal == Underway' /\ acked' \subseteq Current /\ \A f \in acked' : f[1] # "strength"
<1>5. ASSUME NEW c \in Calls, Rest(c), op'[c] \notin Scriptable, acked' = acked,
             owed'[c] = {} \/ (op[c] \notin Scriptable /\ owed'[c] = owed[c])
      PROVE  Goal
  <2>1. owed'[c] = {}
    BY <1>2, <1>5 DEF Underway
  <2>2. \A d \in Calls \ {c} : op[d] \in Scriptable => \A f \in acked' : ~ Hurts(Kind(op[d]), f)
    BY <1>2, <1>5 DEF Underway
  <2>3. Underway'
    BY <1>1, <1>2, <1>5, <2>1, <2>2, UnderwayOne
  <2> QED
    BY <1>2, <1>5, <2>3
<1>6. ASSUME NEW c \in Calls, Rest(c), op'[c] = op[c], todo'[c] = todo[c], memo'[c] = memo[c],
             owed'[c] = owed[c], acked' = acked
      PROVE  Goal
  <2>1. \A d \in Calls : op[d] \in Scriptable => \A f \in acked' : ~ Hurts(Kind(op[d]), f)
    BY <1>2, <1>6 DEF Underway
  <2>2. /\ op[c] \notin Scriptable => owed[c] = {}
        /\ op[c] \in Scriptable => Tracked(op[c], todo[c], memo[c], owed[c], Current)
        /\ op[c] \in Scriptable /\ c \in Clicks => op[c] \in Navigations /\ Firmly(owed[c])
    BY <1>2 DEF Underway
  <2>3. Underway'
    BY <1>1, <1>2, <1>6, <2>1, <2>2, UnderwayOne
  <2> QED
    BY <1>2, <1>6, <2>3
<1>7. ASSUME NEW c \in Calls, Rest(c), Resolve(c) PROVE Goal
  <2>1. op'[c] = Idle /\ owed'[c] = {} /\ acked' = acked \cup owed[c] /\ todo[c] = <<>>
    BY <1>7 DEF Resolve, Ended, TInv, CallsTyped, ClaimsTyped
  <2>2. Idle \notin Scriptable
    BY OpKinds
  <2>3. owed[c] \subseteq Current /\ \A f \in owed[c] : f[1] # "strength"
    <3>1. CASE op[c] \in Scriptable
      <4>1. Tracked(op[c], <<>>, memo[c], owed[c], Current)
        BY <1>2, <2>1, <3>1 DEF Underway
      <4> QED
        BY <3>1, <4>1, TrackEnds, OwedKinds
    <3>2. CASE op[c] \notin Scriptable
      BY <1>2, <3>2 DEF Underway
    <3> QED
      BY <3>1, <3>2
  <2>4. ASSUME NEW d \in Calls \ {c}, op[d] \in Scriptable, NEW f \in acked' PROVE ~ Hurts(Kind(op[d]), f)
    <3>1. CASE f \in acked
      BY <1>2, <2>4, <3>1 DEF Underway
    <3>2. CASE f \in owed[c]
      <4>1. op[c] \in Scriptable
        BY <1>2, <3>2 DEF Underway
      <4>2. c \in Clicks => Firmly(owed[c])
        BY <1>2, <4>1 DEF Underway
      <4>3. owed[c] \in SUBSET Facts
        BY <1>3
      <4> QED
        BY <1>2, <2>4, <3>2, <4>2, <4>3, OthersUnhurt
    <3> QED
      BY <2>1, <3>1, <3>2
  <2>5. Underway'
    BY <1>1, <1>2, <1>7, <2>1, <2>2, <2>4, UnderwayOne
  <2> QED
    BY <1>2, <2>1, <2>3, <2>5
<1>8. ASSUME NEW c \in Calls, Rest(c), NEW v \in Scriptable, Call(c, v), c \in Clicks => v \in Navigations
      PROVE  Goal
  <2>1. op'[c] = v /\ todo'[c] = Script(v)
    BY <1>8, CallPlace
  <2>2. owed'[c] = Owed(v) /\ acked' = acked \ Suspended(v)
    BY <1>3, <1>8 DEF Call
  <2>3. Tracked(v, Script(v), memo'[c], Owed(v), Current)
    BY <1>2, <1>3, TrackBegins
  <2>4. \A f \in acked' : ~ Hurts(Kind(v), f)
    BY <2>2, SuspendedHurt
  <2>5. c \in Clicks => v \in Navigations /\ Firmly(Owed(v))
    BY <1>3, <1>8, NavigationOwes
  <2>6. \A d \in Calls \ {c} : op[d] \in Scriptable => \A f \in acked' : ~ Hurts(Kind(op[d]), f)
    BY <1>2, <2>2 DEF Underway
  <2>7. /\ op'[c] \notin Scriptable => owed'[c] = {}
        /\ op'[c] \in Scriptable =>
              /\ Tracked(op'[c], todo'[c], memo'[c], owed'[c], Current)
              /\ \A f \in acked' : ~ Hurts(Kind(op'[c]), f)
              /\ c \in Clicks => op'[c] \in Navigations /\ Firmly(owed'[c])
    BY <2>1, <2>2, <2>3, <2>4, <2>5
  <2>8. Underway'
    BY <1>1, <1>2, <1>8, <2>6, <2>7, UnderwayOne
  <2> QED
    BY <1>2, <2>2, <2>8
<1>9. ASSUME NEW c \in Calls, Rest(c), Read(c) PROVE Goal
  <2>1. op' = op /\ owed' = owed /\ acked' = acked
    BY <1>9 DEF Read, claims
  <2>2. mem # {}
    BY <1>9, SchemaAssumption DEF Read, Usable, TablesExist
  <2>3. Current = mem /\ Rooted(mem)
    BY <2>2 DEF Current, Keeping, Upright
  <2>4. op[c] \in Scriptable => Tracked(op[c], todo'[c], memo'[c], owed[c], Current)
    BY <1>2, <1>9, <2>3, TrackReads DEF Underway
  <2>5. \A d \in Calls : op[d] \in Scriptable => \A f \in acked' : ~ Hurts(Kind(op[d]), f)
    BY <1>2, <2>1 DEF Underway
  <2>6. /\ op[c] \notin Scriptable => owed[c] = {}
        /\ op[c] \in Scriptable /\ c \in Clicks => op[c] \in Navigations /\ Firmly(owed[c])
    BY <1>2 DEF Underway
  <2>7. Underway'
    BY <1>1, <1>2, <1>9, <2>1, <2>4, <2>5, <2>6, UnderwayOne
  <2> QED
    BY <1>2, <2>1, <2>7
<1> HIDE DEF Goal
<1>10. Goal
  <2>1. PICK c \in Calls :
              /\ Rest(c)
              /\ \/ /\ op'[c] \notin Scriptable /\ acked' = acked
                    /\ owed'[c] = {} \/ (op[c] \notin Scriptable /\ owed'[c] = owed[c])
                 \/ /\ op'[c] = op[c] /\ todo'[c] = todo[c] /\ memo'[c] = memo[c]
                    /\ owed'[c] = owed[c] /\ acked' = acked
                 \/ Resolve(c)
                 \/ \E v \in Scriptable : Call(c, v) /\ (c \in Clicks => v \in Navigations)
                 \/ Read(c)
    BY CallsMove
  <2> HIDE DEF Rest
  <2> QED
    BY <1>5, <1>6, <1>7, <1>8, <1>9, <2>1
<1>11. saved' \subseteq disk' /\ \A f \in saved' : f[1] # "strength"
  BY <1>1, <1>2, <1>4
<1> QED
  BY <1>1, <1>10, <1>11 DEF Keeping, Goal

LEMMA KeepingNext == TInv /\ Session /\ Keeping /\ [Next]_vars => Keeping'
<1> SUFFICES ASSUME TInv, Session, Keeping, [Next]_vars PROVE Keeping'
  OBVIOUS
<1>1. CASE Reload
  BY <1>1, KeepingReload
<1>2. CASE \E c \in Calls : Write(c) \/ Rejoins(c)
  BY <1>2, KeepingWrite
<1>3. CASE \E c \in Calls : CreateTables(c)
  BY <1>3, KeepingTables
<1>4. CASE ~ Reload /\ \A c \in Calls : ~ Write(c) /\ ~ Rejoins(c) /\ ~ CreateTables(c)
  BY <1>4, KeepingQuiet
<1> QED
  BY <1>1, <1>2, <1>3, <1>4

LEMMA KeepingInvariant == Spec => []Keeping
<1>1. TInv /\ Session /\ Keeping /\ [Next]_vars => Keeping'
  BY KeepingNext
<1> QED
  BY <1>1, KeepingInit, TypeInvariant, SessionInvariant, PTL DEF Spec

\* What callers rely on is in the database: a call that resolves has left what
\* its contract promises, no other call takes that away, and what close() or
\* syncfs('out') has saved is there after any reload.
THEOREM StoreAckedKept == Spec => []AckedKept
<1>1. Keeping => AckedKept
  BY DEF Keeping, AckedKept
<1> QED
  BY <1>1, KeepingInvariant, PTL

-----------------------------------------------------------------------------
\* The head of the palace.

LEMMA HeadFacts ==
    ASSUME NEW f \in Facts
    PROVE  /\ f[1] = "MYTHOS_HEAD" => f[2] = Palace /\ f = <<"MYTHOS_HEAD", Palace, f[3]>>
           /\ f[1] = "head" => f[2] = Palace /\ f = <<"head", Palace, f[3]>>
<1>1. ASSUME f[1] = "MYTHOS_HEAD" PROVE f[2] = Palace /\ f = <<"MYTHOS_HEAD", Palace, f[3]>>
  <2>1. f \in Edges
    BY <1>1, FactShapes DEF Labels
  <2> QED
    BY <1>1, <2>1 DEF Edges
<1>2. ASSUME f[1] = "head" PROVE f[2] = Palace /\ f = <<"head", Palace, f[3]>>
  <2>1. f \in Columns
    BY <1>2, FactShapes DEF Labels
  <2> QED
    BY <1>2, <2>1 DEF Columns
<1> QED
  BY <1>1, <1>2

\* A call that sets the head has still to delete the old edge or has none left
\* but its own, and the same of the column.
Clears(x) == x.do = "unjoin"
Marks(k, x) == x.do = "assign" /\ CrownColumn(k) \in x.values

Crowning(k, s, g) ==
    /\ (\E i \in 1 .. Len(s) : Clears(s[i])) \/ \A f \in g : f[1] = "MYTHOS_HEAD" => f = CrownEdge(k)
    /\ (\E i \in 1 .. Len(s) : Marks(k, s[i])) \/ \A f \in g : f[1] = "head" => f = CrownColumn(k)

HeadsOwed(k, o) ==
    \A f \in o : f[1] = "MYTHOS_HEAD" => Crowns(k) /\ f = CrownEdge(k) /\ CrownColumn(k) \in o

Crowned ==
    /\ OneHead(Current, acked) /\ OneHead(disk, saved)
    /\ \A c \in Calls : op[c] \in Scriptable =>
          /\ HeadsOwed(Kind(op[c]), owed[c])
          /\ Crowns(Kind(op[c])) => Crowning(Kind(op[c]), todo[c], Current)

LEMMA CrownKinds ==
    ASSUME NEW v, Crowns(Kind(v))
    PROVE  ~ Rebuilds(v) /\ ~ Redoes(Kind(v))
<1>1. ~ Redoes(Kind(v))
  BY DEF Crowns, Redoes
<1>2. ASSUME Rebuilds(v) PROVE FALSE
  <2>1. v[1] # "mirrorAction"
    BY <1>2 DEF Rebuilds
  <2> QED
    BY <1>2, <2>1 DEF Kind, Crowns, Rebuilds
<1> QED
  BY <1>1, <1>2

LEMMA CrownBegins ==
    ASSUME NEW v \in Scriptable, Crowns(Kind(v)), NEW g
    PROVE  Crowning(Kind(v), Script(v), g)
<1> DEFINE k == Kind(v)  s == Script(v)  f == CrownColumn(k)  p == {<<"node", Palace>>}
<1>1. Meets(v)
  BY CrownKinds, ScriptMeets DEF Rebuilds
<1>2. \E i \in 1 .. Len(s) : Clears(s[i])
  BY <1>1 DEF Meets, Clears
<1>3. f \in Promise(v)
  <2>1. f \in Contract(k)
    BY DEF Crowns, Contract, CrownColumn
  <2> QED
    BY <2>1 DEF Kind, Promise
<1>4. f[1] = "head" /\ f[2] = Palace /\ Ends(f) = {Palace}
  BY DEF CrownColumn, Ends, Labels
<1>5. Exists(p, Palace) /\ f \notin p
  BY <1>4 DEF Exists, CrownColumn
<1>6. Ready(s, f, p)
  <2> HIDE DEF p, f, s
  <2> QED
    BY <1>1, <1>3, <1>4, <1>5 DEF Meets, s
<1>7. PICK i \in 1 .. Len(s) : Gives(s[i], f)
  <2> HIDE DEF p, f, s
  <2> QED
    BY <1>5, <1>6 DEF Ready, Given
<1>8. Flat(k, s[i])
  BY <1>1 DEF Meets, Lines
<1>9. Marks(k, s[i])
  <2> DEFINE x == s[i]
  <2>1. Flat(k, x) /\ Gives(x, f)
    BY <1>7, <1>8
  <2> HIDE DEF x, f, s, k
  <2>2. ASSUME NEW y, y.do \in {"create", "join"}, Law(k, y) PROVE ~ Puts(y, f)
    <3>1. y.do = "create" => f # <<"node", y.node>>
      BY <1>4
    <3>2. y.do = "join" => f # y.edge
      BY <1>4, <2>2 DEF Law, Labels
    <3> QED
      BY <2>2, <3>1, <3>2 DEF Puts
  <2>3. x.do = "probe" => \A j \in 1 .. Len(x.missing) : ~ Puts(x.missing[j], f)
    BY <2>1, <2>2 DEF Flat, Adds
  <2>4. Puts(x, f)
    BY <2>1, <2>3 DEF Gives
  <2>5. x.do = "assign" /\ f \in x.values
    BY <2>1, <2>2, <2>4 DEF Puts, Flat
  <2> QED
    BY <2>5 DEF Marks, x, f
<1> QED
  BY <1>2, <1>9 DEF Crowning

LEMMA LineLater ==
    ASSUME NEW S, NEW s \in Seq(S), s # <<>>, NEW i \in 1 .. Len(s), s[i] # s[1]
    PROVE  /\ i - 1 \in 1 .. Len(Tail(s)) /\ Tail(s)[i - 1] = s[i]
<1>1. i # 1
  OBVIOUS
<1> QED
  BY <1>1, TailPlaces

LEMMA LineBehind ==
    ASSUME NEW S, NEW s \in Seq(S), NEW T, NEW t \in Seq(T), NEW i \in 1 .. Len(s)
    PROVE  /\ Len(t) + i \in 1 .. Len(t \o s) /\ (t \o s)[Len(t) + i] = s[i]
<1>1. /\ Len(t) \in Nat /\ Len(s) \in Nat /\ Len(t \o s) = Len(t) + Len(s)
      /\ (t \o s)[Len(t) + i] = s[i]
  BY JoinedPlaces
<1> QED
  BY <1>1

\* A line that is neither of the two has run.
LEMMA CrowningTail ==
    ASSUME NEW S, NEW s \in Seq(S), s # <<>>, NEW T, NEW t \in Seq(T), NEW k, NEW g, NEW h,
           Clears(s[1]) => \A f \in h : f[1] = "MYTHOS_HEAD" => f = CrownEdge(k),
           Marks(k, s[1]) => \A f \in h : f[1] = "head" => f = CrownColumn(k),
           \A f \in h : f[1] \in HeadKinds => f \in g \/ f \in {CrownEdge(k), CrownColumn(k)},
           Crowning(k, s, g)
    PROVE  Crowning(k, Tail(s), h) /\ Crowning(k, t \o Tail(s), h)
<1> DEFINE u == Tail(s)
<1>1. u \in Seq(S)
  BY TailPlaces
<1>2. ASSUME NEW i \in 1 .. Len(s), s[i] # s[1]
      PROVE  /\ \E j \in 1 .. Len(u) : u[j] = s[i]
             /\ \E j \in 1 .. Len(t \o u) : (t \o u)[j] = s[i]
  <2>1. i - 1 \in 1 .. Len(u) /\ u[i - 1] = s[i]
    BY <1>2, LineLater
  <2> HIDE DEF u
  <2>2. Len(t) + (i - 1) \in 1 .. Len(t \o u) /\ (t \o u)[Len(t) + (i - 1)] = u[i - 1]
    BY <1>1, <2>1, LineBehind
  <2> QED
    BY <2>1, <2>2
<1>3. CrownEdge(k)[1] = "MYTHOS_HEAD" /\ CrownColumn(k)[1] = "head"
  BY DEF CrownEdge, CrownColumn
<1>4. \/ (\E j \in 1 .. Len(u) : Clears(u[j])) /\ (\E j \in 1 .. Len(t \o u) : Clears((t \o u)[j]))
      \/ \A f \in h : f[1] = "MYTHOS_HEAD" => f = CrownEdge(k)
  <2>1. CASE Clears(s[1])
    BY <2>1
  <2>2. ASSUME ~ Clears(s[1]), NEW i \in 1 .. Len(s), Clears(s[i])
        PROVE  (\E j \in 1 .. Len(u) : Clears(u[j])) /\ (\E j \in 1 .. Len(t \o u) : Clears((t \o u)[j]))
    <3>1. s[i] # s[1]
      BY <2>2
    <3> HIDE DEF u
    <3> QED
      BY <1>2, <2>2, <3>1
  <2>3. CASE \A f \in g : f[1] = "MYTHOS_HEAD" => f = CrownEdge(k)
    BY <1>3, <2>3 DEF HeadKinds
  <2> QED
    BY <2>1, <2>2, <2>3 DEF Crowning
<1>5. \/ (\E j \in 1 .. Len(u) : Marks(k, u[j])) /\ (\E j \in 1 .. Len(t \o u) : Marks(k, (t \o u)[j]))
      \/ \A f \in h : f[1] = "head" => f = CrownColumn(k)
  <2>1. CASE Marks(k, s[1])
    BY <2>1
  <2>2. ASSUME ~ Marks(k, s[1]), NEW i \in 1 .. Len(s), Marks(k, s[i])
        PROVE  (\E j \in 1 .. Len(u) : Marks(k, u[j])) /\ (\E j \in 1 .. Len(t \o u) : Marks(k, (t \o u)[j]))
    <3>1. s[i] # s[1]
      BY <2>2
    <3> HIDE DEF u
    <3> QED
      BY <1>2, <2>2, <3>1
  <2>3. CASE \A f \in g : f[1] = "head" => f = CrownColumn(k)
    BY <1>3, <2>3 DEF HeadKinds
  <2> QED
    BY <2>1, <2>2, <2>3 DEF Crowning
<1> HIDE DEF u
<1>6. Crowning(k, u, h) /\ Crowning(k, t \o u, h)
  BY <1>4, <1>5 DEF Crowning
<1> QED
  BY <1>6 DEF u

LEMMA CrownReads ==
    ASSUME TInv, NEW c \in Calls, Read(c), op[c] \in Scriptable, Crowns(Kind(op[c])), NEW g,
           Tracked(op[c], todo[c], memo[c], owed[c], g), Crowning(Kind(op[c]), todo[c], g)
    PROVE  Crowning(Kind(op[c]), todo'[c], g)
<1> DEFINE s == todo[c]  k == Kind(op[c])
<1>1. s \in Seq(Steps) /\ s # <<>>
  BY StagedSteps, ReadHere DEF TInv, CallsTyped
<1>2. Lines(k, s)
  BY CrownKinds DEF Tracked
<1>3. Flat(k, Head(s)) /\ Head(s) = s[1]
  BY <1>1, <1>2, LinesTail
<1>4. Head(s).do \in {"probe", "must", "strength"}
  BY <1>3, ReadHere DEF Flat
<1>5. ~ Clears(s[1]) /\ ~ Marks(k, s[1])
  BY <1>3, <1>4 DEF Clears, Marks
<1>6. \E t \in Seq(Quiet) : todo'[c] = Tail(s) \/ todo'[c] = t \o Tail(s)
  <2>1. CASE Head(s).do \in {"must", "strength"}
    <3>1. todo'[c] = Tail(s)
      BY <2>1, ReadHere
    <3>2. <<>> \in Seq(Quiet)
      OBVIOUS
    <3> QED
      BY <3>1, <3>2
  <2>2. CASE Head(s).do = "probe"
    <3>1. Head(s).found = <<>> /\ Head(s).missing \in Seq(Quiet)
      BY <1>3, <2>2, ReadHere DEF Flat
    <3>2. todo'[c] = (IF Head(s).facts \subseteq mem THEN Head(s).found ELSE Head(s).missing) \o Tail(s)
      BY <2>2, ReadHere
    <3>3. <<>> \in Seq(Quiet)
      OBVIOUS
    <3> QED
      BY <3>1, <3>2, <3>3
  <2> QED
    BY <1>4, <2>1, <2>2
<1> HIDE DEF s, k
<1>7. Crowning(k, s, g)
  BY DEF s, k
<1>8. PICK t \in Seq(Quiet) : todo'[c] = Tail(s) \/ todo'[c] = t \o Tail(s)
  BY <1>6
<1>9. \A f \in g : f[1] \in HeadKinds => f \in g \/ f \in {CrownEdge(k), CrownColumn(k)}
  OBVIOUS
<1>10. Crowning(k, Tail(s), g) /\ Crowning(k, t \o Tail(s), g)
  BY <1>1, <1>5, <1>7, <1>9, CrowningTail
<1> QED
  BY <1>8, <1>10 DEF k

LEMMA CrownWrites ==
    ASSUME TInv, NEW c \in Calls, Write(c) \/ Rejoins(c), op[c] \in Scriptable, Crowns(Kind(op[c])),
           Rooted(mem), Tracked(op[c], todo[c], memo[c], owed[c], mem),
           Crowning(Kind(op[c]), todo[c], mem)
    PROVE  Crowning(Kind(op[c]), todo'[c], mem')
<1> DEFINE s == todo[c]  k == Kind(op[c])  x == Head(s)
<1>1. s \in Seq(Steps) /\ s # <<>>
  BY StagedSteps, WriteLeaves, RejoinsHere DEF TInv, CallsTyped
<1>2. Lines(k, s)
  BY CrownKinds DEF Tracked
<1>3. Flat(k, x) /\ x = s[1]
  BY <1>1, <1>2, LinesTail
<1>4. Write(c)
  BY <1>3, RejoinsHere DEF Flat
<1>5. todo'[c] = Tail(s)
  BY <1>4, WriteLeaves
<1>6. Harms(k, mem, mem')
  BY TrackWrites
<1>7. mem \in SUBSET Facts
  BY DEF TInv, GraphsTyped
<1>8. ASSUME Clears(x) PROVE \A f \in mem' : f[1] = "MYTHOS_HEAD" => f = CrownEdge(k)
  <2>1. mem' = Unjoined(mem, x.label, x.node)
    BY <1>4, <1>8, WriteHere DEF Clears
  <2>2. x.label = "MYTHOS_HEAD" /\ x.node = Palace
    BY <1>3, <1>8 DEF Clears, Flat, Law
  <2>3. \A f \in mem : f[1] = "MYTHOS_HEAD" => f[2] = Palace
    BY <1>7, HeadFacts
  <2> HIDE DEF x
  <2> QED
    BY <2>1, <2>2, <2>3 DEF Unjoined
<1>9. ASSUME Marks(k, x) PROVE \A f \in mem' : f[1] = "head" => f = CrownColumn(k)
  <2>1. mem' = Assigned(mem, x.node, x.values)
    BY <1>4, <1>9, WriteHere DEF Marks
  <2>2. /\ CrownColumn(k) \in x.values /\ x.do = "assign"
        /\ \A f \in x.values : f[2] = x.node /\ (f[1] = "head" => f = CrownColumn(k))
    BY <1>3, <1>9 DEF Marks, Flat, Law
  <2>3. CrownColumn(k)[1] = "head" /\ CrownColumn(k)[2] = Palace
    BY DEF CrownColumn
  <2>4. x.node = Palace
    BY <2>2, <2>3
  <2>5. \A f \in mem : f[1] = "head" => f[2] = Palace /\ Exists(mem, Palace)
    BY <1>7, HeadFacts DEF Rooted
  <2> HIDE DEF x, k
  <2>6. CASE Exists(mem, Palace)
    <3>1. mem' = {f \in mem : ~ \E v \in x.values : f[1] = v[1] /\ f[2] = v[2]} \cup x.values
      BY <2>1, <2>4, <2>6 DEF Assigned
    <3> QED
      BY <2>2, <2>3, <2>5, <3>1
  <2>7. CASE ~ Exists(mem, Palace)
    <3>1. mem' = mem
      BY <2>1, <2>4, <2>7 DEF Assigned
    <3> QED
      BY <2>5, <2>7, <3>1
  <2> QED
    BY <2>6, <2>7
<1>10. \A f \in mem' : f[1] \in HeadKinds => f \in mem \/ f \in {CrownEdge(k), CrownColumn(k)}
  BY <1>6 DEF Harms
<1>11. Crowning(k, s, mem)
  OBVIOUS
<1> HIDE DEF s, k, x
<1>12. <<>> \in Seq(Steps)
  OBVIOUS
<1>13. Crowning(k, Tail(s), mem')
  BY <1>1, <1>3, <1>8, <1>9, <1>10, <1>11, <1>12, CrowningTail
<1> QED
  BY <1>5, <1>13 DEF k

LEMMA CrownOwes ==
    ASSUME NEW v \in Scriptable, acked \in SUBSET Facts
    PROVE  HeadsOwed(Kind(v), Owed(v))
<1>1. ASSUME NEW f \in Owed(v), f[1] = "MYTHOS_HEAD"
      PROVE  Crowns(Kind(v)) /\ f = CrownEdge(Kind(v)) /\ CrownColumn(Kind(v)) \in Owed(v)
  <2>1. f \in Promise(v)
    <3>1. ASSUME f \in acked, Hurts(Kind(v), f), Rebuilds(v) PROVE FALSE
      <4>1. v[2] \in Avatars /\ Kind(v) = v /\ Redoes(v)
        BY <3>1, RebuildParts
      <4>2. f[2] = v[2] \/ f[3] = v[2]
        BY <3>1, <4>1 DEF Hurts
      <4>3. f \in Edges
        BY <1>1, <3>1, FactShapes DEF Labels
      <4>4. f[2] = Palace /\ f[3] \in Mythoi
        BY <1>1, <4>3 DEF Edges
      <4> QED
        BY <4>1, <4>2, <4>4, FingerprintAssumption
    <3> QED
      BY <3>1, OwedSplit
  <2>2. Crowns(Kind(v)) /\ f = CrownEdge(Kind(v)) /\ CrownColumn(Kind(v)) \in Promise(v)
    BY <1>1, <2>1, PromiseKinds DEF HeadKinds
  <2> DEFINE known == {e[2] : e \in {e \in acked \cup Promise(v) : e[1] = "node"}}
             Due(e) == /\ e[1] \in Labels => {e[2], e[3]} \subseteq known
                       /\ e[1] = "HAS_KNOWLEDGE" => ~ Exists(Current, e[3])
                       /\ e[2] \in known
             kept == IF v[1] \in {"deleteTriple", "updateTriple"} THEN {}
                     ELSE {e \in Suspended(v) : ~ \E w \in Promise(v) : e[1] = w[1] /\ e[2] = w[2]}
  <2>3. Owed(v) = {e \in Promise(v) : Due(e)} \cup {e \in kept : v[1] = "reembed" => e[1] # "embedded"}
    BY DEF Owed
  <2>4. f \notin kept
    BY <2>1
  <2> DEFINE w == CrownColumn(Kind(v))
  <2>5. w[1] = "head" /\ w[2] = Palace /\ "head" \notin Labels /\ f[2] = Palace
    BY <2>2 DEF CrownColumn, CrownEdge, Labels
  <2>6. Due(f)
    <3> HIDE DEF Due, kept, known
    <3> QED
      BY <2>3, <2>4
  <2>7. Due(w)
    <3> HIDE DEF known, w
    <3> QED
      BY <2>5, <2>6
  <2> HIDE DEF Due, kept, known, w
  <2>8. w \in Owed(v)
    BY <2>2, <2>3, <2>7 DEF w
  <2> QED
    BY <2>2, <2>8 DEF w
<1> QED
  BY <1>1 DEF HeadsOwed

LEMMA HeadUnhurt ==
    ASSUME NEW v \in Scriptable, ~ Crowns(Kind(v)), NEW f \in Facts, f[1] \in HeadKinds
    PROVE  ~ Hurts(Kind(v), f)
<1>1. CASE Redoes(Kind(v))
  <2>1. Kind(v)[2] \in Avatars \cup Triples
    BY <1>1, RedoneNode
  <2>2. f[2] = Palace
    BY HeadFacts DEF HeadKinds
  <2>3. f[1] \in Labels => f[3] \in Mythoi
    <3>1. f \in Edges => (f[1] = "MYTHOS_HEAD" => f[3] \in Mythoi)
      BY DEF Edges
    <3> QED
      BY <3>1, FactShapes DEF HeadKinds, Labels
  <2> QED
    BY <1>1, <2>1, <2>2, <2>3, FingerprintAssumption DEF Hurts
<1>2. CASE ~ Redoes(Kind(v))
  BY <1>2, ContractKinds DEF Hurts
<1> QED
  BY <1>1, <1>2

LEMMA CrownHurts ==
    ASSUME NEW k, Crowns(k), NEW f \in Facts, f[1] = "MYTHOS_HEAD"
    PROVE  Hurts(k, f)
<1>1. ~ Redoes(k)
  BY DEF Crowns, Redoes
<1>2. CrownEdge(k) \in Contract(k)
  BY DEF Crowns, Contract, CrownEdge
<1>3. CrownEdge(k)[1] = f[1] /\ CrownEdge(k)[2] = f[2]
  BY HeadFacts DEF CrownEdge
<1> QED
  BY <1>1, <1>2, <1>3 DEF Hurts

\* One head stays one when nobody sets it.
LEMMA HeadKept ==
    ASSUME NEW v \in Scriptable, ~ Crowns(Kind(v)), NEW g \in SUBSET Facts, NEW h,
           Harms(Kind(v), g, h), NEW a, OneHead(g, a)
    PROVE  OneHead(h, a)
<1> SUFFICES ASSUME NEW f \in a, f[1] = "MYTHOS_HEAD"
             PROVE  {e \in h : e[1] \in {"MYTHOS_HEAD", "head"}} = {f, <<"head", Palace, f[3]>>}
  BY DEF OneHead
<1> DEFINE w == <<"head", Palace, f[3]>>
<1>1. {e \in g : e[1] \in {"MYTHOS_HEAD", "head"}} = {f, w}
  BY DEF OneHead
<1>2. f \in g /\ w \in g /\ f[1] \in HeadKinds /\ w[1] \in HeadKinds /\ w[1] = "head"
  BY <1>1 DEF HeadKinds
<1> HIDE DEF w
<1>3. f \in h /\ w \in h
  BY <1>2, HeadUnhurt DEF Harms
<1>4. \A e \in h : e[1] \in HeadKinds => e \in g
  BY DEF Harms
<1> QED
  BY <1>1, <1>2, <1>3, <1>4 DEF HeadKinds, w

LEMMA HeadSame ==
    ASSUME NEW g, NEW h, \A f : f[1] \in HeadKinds => (f \in g <=> f \in h), NEW a, OneHead(g, a)
    PROVE  OneHead(h, a)
<1>1. {e \in g : e[1] \in {"MYTHOS_HEAD", "head"}} = {e \in h : e[1] \in {"MYTHOS_HEAD", "head"}}
  BY DEF HeadKinds
<1> QED
  BY <1>1 DEF OneHead

LEMMA CrowningStays ==
    ASSUME NEW k, NEW s, NEW g, NEW h, \A f \in h : f[1] \in HeadKinds => f \in g, Crowning(k, s, g)
    PROVE  Crowning(k, s, h)
BY DEF Crowning, HeadKinds

LEMMA CrownedInit == Init => Crowned
<1> SUFFICES ASSUME Init PROVE Crowned
  OBVIOUS
<1>1. Current = disk /\ acked = saved /\ saved \subseteq disk
  BY DEF Init, Current
<1>2. OneHead(disk, disk)
  BY StoreSeedsAssumption DEF Init
<1>3. OneHead(disk, saved)
  BY <1>1, <1>2 DEF OneHead
<1>4. \A c \in Calls : op[c] \notin Scriptable
  BY OpKinds DEF Init
<1> QED
  BY <1>1, <1>3, <1>4 DEF Crowned

LEMMA CrownedReload == ASSUME Crowned, Reload PROVE Crowned'
<1>1. mem' = {} /\ disk' = disk /\ acked' = saved /\ saved' = saved
  BY DEF Reload
<1>2. Current' = disk
  BY <1>1 DEF Current
<1>3. \A c \in Calls : op'[c] \notin Scriptable
  BY OpKinds DEF Reload
<1> QED
  BY <1>1, <1>2, <1>3 DEF Crowned

LEMMA CrownedWrite ==
    ASSUME TInv, Session, Keeping, Crowned, NEW c \in Calls, Write(c) \/ Rejoins(c)
    PROVE  Crowned'
<1>1. /\ op[c] \in Scriptable /\ Loaded /\ mem # {} /\ Current = mem /\ mem' # {} /\ Current' = mem'
      /\ Loaded' /\ disk' = disk /\ op' = op /\ owed' = owed /\ acked' = acked /\ saved' = saved
      /\ \A d \in Calls \ {c} : todo'[d] = todo[d] /\ memo'[d] = memo[d]
      /\ Tracked(op[c], todo'[c], memo'[c], owed[c], mem')
      /\ Harms(Kind(op[c]), mem, mem')
  BY WriteGraph DEF Keeping
<1>2. mem \in SUBSET Facts
  BY DEF TInv, GraphsTyped
<1>3. OneHead(mem', acked)
  <2>1. CASE Crowns(Kind(op[c]))
    <3>1. ASSUME NEW f \in acked PROVE f[1] # "MYTHOS_HEAD"
      <4>1. f \in Facts /\ ~ Hurts(Kind(op[c]), f)
        BY <1>1, <1>2 DEF Keeping, Underway
      <4> QED
        BY <2>1, <4>1, CrownHurts
    <3> QED
      BY <3>1 DEF OneHead
  <2>2. CASE ~ Crowns(Kind(op[c]))
    <3>1. OneHead(mem, acked)
      BY <1>1 DEF Crowned
    <3> QED
      BY <1>1, <1>2, <2>2, <3>1, HeadKept
  <2> QED
    BY <2>1, <2>2
<1>4. ASSUME NEW d \in Calls, op[d] \in Scriptable, Crowns(Kind(op[d]))
      PROVE  Crowning(Kind(op[d]), todo'[d], mem')
  <2>1. Crowning(Kind(op[d]), todo[d], mem)
    BY <1>1, <1>4 DEF Crowned
  <2>2. CASE d = c
    <3>1. Tracked(op[c], todo[c], memo[c], owed[c], mem) /\ Rooted(mem)
      BY <1>1 DEF Keeping, Underway, Upright
    <3> QED
      BY <1>1, <1>4, <2>1, <2>2, <3>1, CrownWrites
  <2>3. CASE d # c
    <3>1. d \notin Clicks
      BY <1>4, NavigationHurts DEF Keeping, Underway
    <3>2. op[c] \in Navigations
      BY <1>1, <2>3, <3>1 DEF Keeping, Underway, Calls
    <3>3. ~ Crowns(Kind(op[c]))
      BY <3>2, NavigationHurts
    <3>4. \A f \in mem' : f[1] \in HeadKinds => f \in mem
      BY <1>1, <3>3 DEF Harms
    <3>5. Crowning(Kind(op[d]), todo[d], mem')
      BY <2>1, <3>4, CrowningStays
    <3> QED
      BY <1>1, <2>3, <3>5
  <2> QED
    BY <2>2, <2>3
<1>5. \A d \in Calls : op[d] \in Scriptable => HeadsOwed(Kind(op[d]), owed[d])
  BY DEF Crowned
<1>6. OneHead(disk, saved)
  BY DEF Crowned
<1> QED
  BY <1>1, <1>3, <1>4, <1>5, <1>6 DEF Crowned

LEMMA CrownedTables ==
    ASSUME TInv, Session, Keeping, Crowned, NEW c \in Calls, CreateTables(c)
    PROVE  Crowned'
<1>1. PICK s \in Schema : mem' = mem \cup {<<"table", s>>}
  BY DEF CreateTables
<1>2. /\ conn = "open" /\ disk' = disk /\ op' = op /\ todo' = todo /\ memo' = memo
      /\ owed' = owed /\ acked' = acked /\ saved' = saved
  BY DEF CreateTables, claims
<1>3. Loaded
  BY <1>2 DEF Loaded
<1>4. Current = mem
  BY <1>3 DEF Keeping, Upright, Current
<1>5. Current' = mem'
  BY <1>1 DEF Current
<1>6. \A f : f[1] \in HeadKinds => (f \in mem <=> f \in mem')
  <2>1. <<"table", s>>[1] \notin HeadKinds
    BY DEF HeadKinds
  <2> QED
    BY <1>1, <2>1
<1>7. OneHead(mem', acked)
  BY <1>4, <1>6, HeadSame DEF Crowned
<1>8. ASSUME NEW d \in Calls, op[d] \in Scriptable, Crowns(Kind(op[d]))
      PROVE  Crowning(Kind(op[d]), todo[d], mem')
  <2>1. Crowning(Kind(op[d]), todo[d], mem)
    BY <1>4, <1>8 DEF Crowned
  <2> QED
    BY <1>6, <2>1, CrowningStays
<1>9. \A d \in Calls : op[d] \in Scriptable => HeadsOwed(Kind(op[d]), owed[d])
  BY DEF Crowned
<1>10. OneHead(disk, saved)
  BY DEF Crowned
<1> QED
  BY <1>2, <1>5, <1>7, <1>8, <1>9, <1>10 DEF Crowned

\* Once it has run, the head is the one it has set.
LEMMA CrownEnds ==
    ASSUME TInv, Keeping, Crowned, NEW c \in Calls, todo[c] = <<>>, op[c] \in Scriptable
    PROVE  OneHead(Current, owed[c])
<1> SUFFICES ASSUME NEW f \in owed[c], f[1] = "MYTHOS_HEAD"
             PROVE  {e \in Current : e[1] \in {"MYTHOS_HEAD", "head"}} = {f, <<"head", Palace, f[3]>>}
  BY DEF OneHead
<1> DEFINE k == Kind(op[c])
<1>1. Crowns(k) /\ f = CrownEdge(k) /\ CrownColumn(k) \in owed[c]
  BY DEF Crowned, HeadsOwed
<1>2. owed[c] \subseteq Current
  <2>1. Tracked(op[c], <<>>, memo[c], owed[c], Current)
    BY DEF Keeping, Underway
  <2> QED
    BY <2>1, TrackEnds
<1>3. Crowning(k, <<>>, Current)
  BY <1>1 DEF Crowned
<1>4. Len(<<>>) = 0 /\ \A i \in 1 .. 0 : FALSE
  OBVIOUS
<1>5. \A e \in Current : /\ e[1] = "MYTHOS_HEAD" => e = CrownEdge(k)
                         /\ e[1] = "head" => e = CrownColumn(k)
  BY <1>3, <1>4 DEF Crowning
<1>6. /\ CrownColumn(k) = <<"head", Palace, f[3]>> /\ CrownColumn(k)[1] = "head"
      /\ CrownEdge(k)[1] = "MYTHOS_HEAD"
  BY <1>1 DEF CrownColumn, CrownEdge
<1> HIDE DEF k
<1> QED
  BY <1>1, <1>2, <1>5, <1>6

\* The calls but one rest.
LEMMA CrownedOne ==
    ASSUME Crowned, NEW c \in Calls, Current' = Current,
           \A d \in Calls \ {c} :
              op'[d] = op[d] /\ todo'[d] = todo[d] /\ memo'[d] = memo[d] /\ owed'[d] = owed[d],
           OneHead(Current, acked'), OneHead(disk', saved'),
           op'[c] \in Scriptable =>
              /\ HeadsOwed(Kind(op'[c]), owed'[c])
              /\ Crowns(Kind(op'[c])) => Crowning(Kind(op'[c]), todo'[c], Current)
    PROVE  Crowned'
<1>1. ASSUME NEW d \in Calls, d # c, op'[d] \in Scriptable
      PROVE  /\ HeadsOwed(Kind(op'[d]), owed'[d])
             /\ Crowns(Kind(op'[d])) => Crowning(Kind(op'[d]), todo'[d], Current)
  <2>1. op'[d] = op[d] /\ todo'[d] = todo[d] /\ owed'[d] = owed[d]
    BY <1>1
  <2>2. op[d] \in Scriptable =>
           /\ HeadsOwed(Kind(op[d]), owed[d])
           /\ Crowns(Kind(op[d])) => Crowning(Kind(op[d]), todo[d], Current)
    BY DEF Crowned
  <2> QED
    BY <1>1, <2>1, <2>2
<1> QED
  BY <1>1 DEF Crowned

LEMMA CrownedQuiet ==
    ASSUME TInv, Session, Keeping, Crowned, [Next]_vars, ~ Reload,
           \A c \in Calls : ~ Write(c) /\ ~ Rejoins(c) /\ ~ CreateTables(c)
    PROVE  Crowned'
<1>1. /\ Current' = Current
      /\ \/ disk' = disk /\ saved' = saved
         \/ Loaded /\ disk' = mem /\ saved' = acked /\ acked' = acked
  BY UprightQuiet DEF Keeping
<1>2. Loaded => Current = mem
  BY DEF Keeping, Upright, Current
<1>3. OneHead(Current, acked) /\ OneHead(disk, saved)
  BY DEF Crowned
<1>4. OneHead(disk', saved')
  <2>1. CASE disk' = disk /\ saved' = saved
    BY <1>3, <2>1
  <2>2. CASE Loaded /\ disk' = mem /\ saved' = acked
    BY <1>2, <1>3, <2>2
  <2> QED
    BY <1>1, <2>1, <2>2
<1>5. acked \in SUBSET Facts /\ owed \in [Calls -> SUBSET Facts]
  BY DEF TInv, ClaimsTyped
<1>6. \A d \in Calls : op[d] \in Scriptable =>
         /\ HeadsOwed(Kind(op[d]), owed[d])
         /\ Crowns(Kind(op[d])) => Crowning(Kind(op[d]), todo[d], Current)
  BY DEF Crowned
<1> DEFINE Rest(c) == \A d \in Calls \ {c} :
              op'[d] = op[d] /\ todo'[d] = todo[d] /\ memo'[d] = memo[d] /\ owed'[d] = owed[d]
<1>7. ASSUME NEW c \in Calls, Rest(c), op'[c] \notin Scriptable, acked' = acked PROVE Crowned'
  BY <1>1, <1>3, <1>4, <1>7, CrownedOne
<1>8. ASSUME NEW c \in Calls, Rest(c), op'[c] = op[c], todo'[c] = todo[c], owed'[c] = owed[c], acked' = acked
      PROVE  Crowned'
  <2>1. op'[c] \in Scriptable =>
           /\ HeadsOwed(Kind(op'[c]), owed'[c])
           /\ Crowns(Kind(op'[c])) => Crowning(Kind(op'[c]), todo'[c], Current)
    BY <1>6, <1>8
  <2> QED
    BY <1>1, <1>3, <1>4, <1>8, <2>1, CrownedOne
<1>9. ASSUME NEW c \in Calls, Rest(c), Resolve(c) PROVE Crowned'
  <2>1. op'[c] = Idle /\ acked' = acked \cup owed[c] /\ todo[c] = <<>>
    BY <1>9 DEF Resolve, Ended, TInv, CallsTyped, ClaimsTyped
  <2>2. Idle \notin Scriptable
    BY OpKinds
  <2>3. OneHead(Current, owed[c])
    <3>1. CASE op[c] \in Scriptable
      BY <2>1, <3>1, CrownEnds
    <3>2. CASE op[c] \notin Scriptable
      <4>1. owed[c] = {}
        BY <3>2 DEF Keeping, Underway
      <4> QED
        BY <4>1 DEF OneHead
    <3> QED
      BY <3>1, <3>2
  <2>4. OneHead(Current, acked')
    BY <1>3, <2>1, <2>3 DEF OneHead
  <2> QED
    BY <1>1, <1>4, <1>9, <2>1, <2>2, <2>4, CrownedOne
<1>10. ASSUME NEW c \in Calls, Rest(c), NEW v \in Scriptable, Call(c, v) PROVE Crowned'
  <2>1. op'[c] = v /\ todo'[c] = Script(v)
    BY <1>10, CallPlace
  <2>2. owed'[c] = Owed(v) /\ acked' \subseteq acked
    BY <1>5, <1>10 DEF Call
  <2>3. HeadsOwed(Kind(v), Owed(v)) /\ (Crowns(Kind(v)) => Crowning(Kind(v), Script(v), Current))
    BY <1>5, CrownOwes, CrownBegins
  <2>4. OneHead(Current, acked')
    BY <1>3, <2>2 DEF OneHead
  <2>5. op'[c] \in Scriptable =>
           /\ HeadsOwed(Kind(op'[c]), owed'[c])
           /\ Crowns(Kind(op'[c])) => Crowning(Kind(op'[c]), todo'[c], Current)
    BY <2>1, <2>2, <2>3
  <2> QED
    BY <1>1, <1>4, <1>10, <2>4, <2>5, CrownedOne
<1>11. ASSUME NEW c \in Calls, Rest(c), Read(c) PROVE Crowned'
  <2>1. op' = op /\ owed' = owed /\ acked' = acked
    BY <1>11 DEF Read, claims
  <2>2. op[c] \in Scriptable => Tracked(op[c], todo[c], memo[c], owed[c], Current)
    BY DEF Keeping, Underway
  <2>3. op[c] \in Scriptable =>
           /\ HeadsOwed(Kind(op[c]), owed[c])
           /\ Crowns(Kind(op[c])) => Crowning(Kind(op[c]), todo'[c], Current)
    BY <1>6, <1>11, <2>2, CrownReads
  <2>4. op'[c] \in Scriptable =>
           /\ HeadsOwed(Kind(op'[c]), owed'[c])
           /\ Crowns(Kind(op'[c])) => Crowning(Kind(op'[c]), todo'[c], Current)
    BY <2>1, <2>3
  <2>5. OneHead(Current, acked')
    BY <1>3, <2>1
  <2> QED
    BY <1>1, <1>4, <1>11, <2>4, <2>5, CrownedOne
<1>12. PICK c \in Calls :
              /\ Rest(c)
              /\ \/ /\ op'[c] \notin Scriptable /\ acked' = acked
                    /\ owed'[c] = {} \/ (op[c] \notin Scriptable /\ owed'[c] = owed[c])
                 \/ /\ op'[c] = op[c] /\ todo'[c] = todo[c] /\ memo'[c] = memo[c]
                    /\ owed'[c] = owed[c] /\ acked' = acked
                 \/ Resolve(c)
                 \/ \E v \in Scriptable : Call(c, v) /\ (c \in Clicks => v \in Navigations)
                 \/ Read(c)
  BY CallsMove
<1> HIDE DEF Rest
<1> QED
  BY <1>7, <1>8, <1>9, <1>10, <1>11, <1>12

LEMMA CrownedNext == TInv /\ Session /\ Keeping /\ Crowned /\ [Next]_vars => Crowned'
<1> SUFFICES ASSUME TInv, Session, Keeping, Crowned, [Next]_vars PROVE Crowned'
  OBVIOUS
<1>1. CASE Reload
  BY <1>1, CrownedReload
<1>2. CASE \E c \in Calls : Write(c) \/ Rejoins(c)
  BY <1>2, CrownedWrite
<1>3. CASE \E c \in Calls : CreateTables(c)
  BY <1>3, CrownedTables
<1>4. CASE ~ Reload /\ \A c \in Calls : ~ Write(c) /\ ~ Rejoins(c) /\ ~ CreateTables(c)
  BY <1>4, CrownedQuiet
<1> QED
  BY <1>1, <1>2, <1>3, <1>4

\* Where a caller relies on a mythos head, the database has that one and no
\* other, and the palace's column names it: the delete-and-create of the edge
\* and the column that follows leave no other head behind, whatever runs in
\* between, whichever step fails and whenever the page is reloaded.
THEOREM StoreHeadUnique == Spec => []HeadUnique
<1>1. TInv /\ Session /\ Keeping /\ Crowned /\ [Next]_vars => Crowned'
  BY CrownedNext
<1>2. Crowned => HeadUnique
  BY DEF Crowned, HeadUnique
<1> QED
  BY <1>1, <1>2, CrownedInit, TypeInvariant, SessionInvariant, KeepingInvariant, PTL DEF Spec

=============================================================================
