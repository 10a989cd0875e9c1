---------------------------- MODULE PalaceVerify ----------------------------
(***************************************************************************)
(* `palace verify` (src/cli/internal/verify.zig) and the walk along the    *)
(* chain of mythoi it calls (src/memory-palace/mythos-chain.zig), as       *)
(* operators over the bundle and the content store that the verbs of       *)
(* PalaceVault leave.  The verifier writes nothing.  What its scanners     *)
(* find in the bytes of an envelope is what the verb that made it wrote    *)
(* there.                                                                  *)
(***************************************************************************)
EXTENDS PalaceVault

ASSUME VerifyAssumption == IsFiniteSet(Commands) /\ None \notin Fps

\* The scanners.  An envelope's type, and the kind of a field.
EnvelopeType(f) ==
    CASE f.kind = "oracle" -> "agent"
      [] f.kind \in {"palace", "room"} -> "field"
      [] OTHER -> f.kind
FieldKind(f) == IF EnvelopeType(f) = "field" THEN f.kind ELSE "none"

ParentHashes(f) == parents[f.of]

\* The mint is signed for the palace, everything else by the custodian.
Actor(f) == IF f.of = Mint THEN "palace" ELSE "custodian"

\* Mutant of HeadHashes: the head an action replaces stays a head.
HeadHashesKept(f) == {Action(f.of)} \cup parents[f.of]

HeadHashes(f) == {Action(f.of)}

\* add-room and inscribe give a room or an inscription a mythos of its own: a
\* genesis.  Only rename-mythos writes a predecessor.
MythosFields(f) ==
    IF verb[f.of] = "rename-mythos"
    THEN [genesis |-> FALSE, predecessor |-> Predecessor(f.of)]
    ELSE [genesis |-> TRUE, predecessor |-> None]

-----------------------------------------------------------------------------
\* A scaled-down depth_limit: no bundle of an instance has more envelopes.
DepthLimit == Cardinality(All) + 1

\* Walk towards the root: how deep, at which mythos, and the last one met that
\* claims to be a genesis and has a predecessor, with which the walk goes on.
Walk[at \in (0..DepthLimit) \X Fps \X (Fps \cup {None})] ==
    LET depth == at[1]
        f     == at[2]
        first == at[3]
        m     == MythosFields(f)
    IN  IF depth = DepthLimit \/ f \notin cas THEN "unresolvable_predecessor"
        ELSE IF m.genesis /\ first # None THEN "multiple_genesis"
        ELSE IF m.predecessor = None
             THEN IF m.genesis THEN "ok" ELSE "unresolvable_predecessor"
             ELSE Walk[<<depth + 1, m.predecessor, IF m.genesis THEN f ELSE first>>]

WalkToGenesis(head) == Walk[<<0, head, None>>]

-----------------------------------------------------------------------------
\* The scan: the lines that resolve, by type; the last one of a type.

Scanned(type) == {i \in DOMAIN bundle : bundle[i] \in cas /\ EnvelopeType(bundle[i]) = type}
At(is) == {bundle[i] : i \in is}
LastLine(is) == {bundle[i] : i \in {i \in is : \A j \in is : j <= i}}

Actions == At(Scanned("action"))
ReferencedAsParent == UNION {ParentHashes(a) : a \in Actions}

IsPalace == bundle # <<>> /\ bundle[1] \in cas /\ FieldKind(bundle[1]) = "palace"

\* (a) A room; (b) one agent; (c) the parents of every action are stored; (d) the
\* last mythos leads to one genesis; (e) the heads of the last timeline are
\* stored actions that no action follows; (f) no action is signed as the
\* agent's envelope when the oracle's key is there to compare.
HasRoom == \E i \in Scanned("field") : FieldKind(bundle[i]) = "room"
SoleAgent == Cardinality(Scanned("agent")) <= 1
ParentsResolve == ReferencedAsParent \subseteq cas
ChainResolves == \A m \in LastLine(Scanned("mythos")) : WalkToGenesis(m) = "ok"
HeadsAreLeaves ==
    \A t \in LastLine(Scanned("timeline")) : \A h \in HeadHashes(t) :
        h \in cas /\ EnvelopeType(h) = "action" /\ h \notin ReferencedAsParent
ActorsProven == key => \A a \in Actions : Actor(a) # "agent"

\* The exit code.
Verdict ==
    IF bundle = <<>> \/ bundle[1] \notin cas THEN 2
    ELSE IF /\ IsPalace /\ HasRoom /\ SoleAgent /\ ParentsResolve
            /\ ChainResolves /\ HeadsAreLeaves /\ ActorsProven
         THEN 0 ELSE 1

-----------------------------------------------------------------------------
\* The verifier accepts what the verbs make: at every instant at which a bundle
\* exists and names a stored room, whatever commands ran together, failed or
\* died, and however they overwrote each other's lines.
VerifyAccepts == bundle # <<>> /\ HasRoom => Verdict = 0

=============================================================================
