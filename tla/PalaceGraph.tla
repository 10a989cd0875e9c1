---------------------------- MODULE PalaceGraph -----------------------------
(***************************************************************************)
(* The property graph both store adapters keep (schema.cypher) and what    *)
(* one Cypher statement does to it.  src/memory-palace/store.server.ts and *)
(* store.browser.ts send the same statements.                              *)
(*                                                                         *)
(* A graph is a set of facts: a node exists, an edge joins two nodes, a    *)
(* column of a node has a value, a table of the schema exists.  Rows of    *)
(* ActionLog are nodes.  The code derives some fingerprints: that of an    *)
(* aqueduct from its two ends in either order, that of a triple from its   *)
(* subject and object, that of a move from its ends and millisecond.  There is *)
(* one palace.  Names, policies, numbers other than an aqueduct's revision *)
(* and the vectors themselves are left out.                                *)
(***************************************************************************)
EXTENDS Naturals, FiniteSets, Sequences

CONSTANTS
    Palace, Oracle,  \* fingerprints of the palace and of its Agent
    Rooms, Avatars, Mythoi, Contents,
    Actions,         \* fingerprints of the actions callers record
    Schema,          \* the tables schema.cypher creates
    MaxClock         \* bound: milliseconds at which a traversal may happen

\* deriveAqueductFp sorts the ends: both directions share one fingerprint.
Aqueduct(x, y) == <<"aqueduct", {x, y}>>

Aqueducts == {Aqueduct(x, y) : x \in {Palace} \cup Rooms, y \in Rooms}
Triples   == Avatars \X Rooms
Moves     == ({Palace} \cup Rooms) \X Rooms \X (0 .. MaxClock)

\* The derived fingerprint of an aqueduct-created row.
Birth(q) == <<"aqueduct-created", q>>

\* Fingerprints are hashes: those of moves and aqueducts are nobody else's, nor
\* are those of the nodes verbs delete.
ASSUME FingerprintAssumption ==
    LET Births == {Birth(q) : q \in Aqueducts}
        Others == {Palace, Oracle} \cup Rooms \cup Avatars \cup Mythoi \cup Triples \cup Actions
    IN  /\ Moves \cap (Others \cup Aqueducts \cup Births) = {}
        /\ Aqueducts \cap (Others \cup Births) = {}
        /\ Births \cap Others = {}
        /\ Avatars \cap Triples = {}
        /\ (Avatars \cup Triples) \cap ({Palace, Oracle} \cup Rooms \cup Mythoi) = {}

\* schema.cypher creates tables, whose names are no fingerprints.
ASSUME SchemaAssumption == Schema # {} /\ Schema \cap (Avatars \cup Triples) = {}

Nodes == {Palace, Oracle} \cup Rooms \cup Avatars \cup Mythoi \cup Aqueducts \cup Triples
            \cup Actions \cup Moves \cup {Birth(q) : q \in Aqueducts}

\* The relationship tables: what a MATCH of both ends can match.
Edges == ({"CONTAINS"} \X {Palace} \X Rooms)
            \cup ({"CONTAINS"} \X Rooms \X Avatars)
            \cup ({"LIVES_IN"} \X Avatars \X Rooms)
            \cup ({"MYTHOS_HEAD"} \X {Palace} \X Mythoi)
            \cup ({"PREDECESSOR"} \X Mythoi \X Mythoi)
            \cup ({"AQUEDUCT_FROM", "AQUEDUCT_TO"} \X Aqueducts \X Rooms)
            \cup ({"HAS_KNOWLEDGE"} \X {Oracle} \X Triples)

\* The columns a property depends on.
Columns == ({"head"} \X {Palace} \X Mythoi)
            \cup ({"source"} \X Avatars \X Contents)
            \cup ({"revision"} \X Avatars \X {0, 1})
            \cup ({"orphaned", "embedded"} \X Avatars \X BOOLEAN)
            \cup ({"strength"} \X Aqueducts \X Nat)

Facts == ({"node"} \X Nodes) \cup ({"table"} \X Schema) \cup Edges \cup Columns

Labels == {"CONTAINS", "LIVES_IN", "MYTHOS_HEAD", "PREDECESSOR", "AQUEDUCT_FROM",
           "AQUEDUCT_TO", "HAS_KNOWLEDGE"}

Exists(g, n) == <<"node", n>> \in g

-----------------------------------------------------------------------------
\* Statements.

\* CREATE (:Table {fp: n, ...}); the caller has checked the primary key.
Created(g, n, columns) == g \cup {<<"node", n>>} \cup columns

\* Mutant of Joined: the ends are not looked up.
JoinedBlindly(g, e) == g \cup {e}

\* MATCH (x) MATCH (y) CREATE (x)-[:Label]->(y): nothing when an end is missing.
Joined(g, e) ==
    IF e \in Edges /\ Exists(g, e[2]) /\ Exists(g, e[3]) THEN g \cup {e} ELSE g

\* MATCH (n)-[e:Label]->() DELETE e.
Unjoined(g, label, n) == {f \in g : ~ (f[1] = label /\ f[2] = n)}

\* What a graph says of a node: itself, its columns and its edges.
Of(g, n) == {f \in g : f[2] = n \/ (f[1] \in Labels /\ f[3] = n)}

\* MATCH (n) DETACH DELETE n.
Dropped(g, n) == g \ Of(g, n)

\* MATCH (n) SET n.column = value, ...: nothing when the node is missing.
Assigned(g, n, values) ==
    IF Exists(g, n)
    THEN {f \in g : ~ \E v \in values : f[1] = v[1] /\ f[2] = v[2]} \cup values
    ELSE g

\* The properties upsertEmbedding and deleteEmbedding read before they delete.
RowOf(g, a) == {f \in g : f[1] \in {"source", "revision", "orphaned"} /\ f[2] = a}

\* The edges they read: the rooms that contain it, the rooms it lives in.
EdgesOf(g, label, a) == {e \in g : e[1] = label /\ a \in {e[2], e[3]}}

=============================================================================
