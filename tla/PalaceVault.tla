---------------------------- MODULE PalaceVault -----------------------------
(***************************************************************************)
(* The palace verbs of the command line (src/cli/internal/mint.zig,        *)
(* add_room.zig, inscribe.zig, move.zig, rename_mythos.zig) with their     *)
(* bridges (src/lib/bridge/palace-*.ts) over what they share: the bundle   *)
(* (a file of fingerprints), the content store (one file per envelope) and *)
(* the graph database.                                                     *)
(*                                                                         *)
(* A command is one process: it reads the bundle and the key, signs and    *)
(* stages its envelopes, runs the bridge, which opens the database and     *)
(* writes one query at a time, then renames the staged envelopes into the  *)
(* content store and rewrites the bundle.  No step is undone by a later    *)
(* one, and a command may die between any two.  Several commands may be    *)
(* running (MaxAlive), but one process at a time has the database open.    *)
(*                                                                         *)
(* A fingerprint names the envelope by its kind and the command that made  *)
(* it.  A command makes at most one envelope of a kind.  An archiform      *)
(* travels exactly as a mythos does and is left out, and so are names,     *)
(* bodies, keys, signatures and the numbers of an aqueduct.                *)
(***************************************************************************)
EXTENDS Integers, Sequences, FiniteSets

CONSTANTS
    Commands,      \* runs of the verbs other than mint
    Mint,          \* the run of `palace mint`
    Verbs,         \* the verbs the runs may use
    None,          \* no fingerprint, no command
    MaxAlive,      \* bound: commands running at the same time
    MaxFaults      \* bound: failing steps and deaths

AllVerbs == {"mint", "add-room", "inscribe", "inscribe-via", "move", "rename-mythos"}

All == Commands \cup {Mint}

ASSUME VaultCommandsAssumption == Mint \notin Commands /\ None \notin All
ASSUME VaultVerbsAssumption == Verbs \subseteq AllVerbs \ {"mint"}
ASSUME VaultBoundsAssumption == MaxAlive \in Nat \ {0} /\ MaxFaults \in Nat

VARIABLES
    bundle,        \* lines of <palace>.bundle; empty when missing or truncated
    key,           \* the key files are in place
    cas,           \* envelopes in <palace>.cas
    scratch,       \* commands whose staging directory exists
    \* per command
    pc, code,      \* where it is, and its exit code
    verb, own,     \* the verb, and whether --mythos was given
    room, avatar,  \* the fingerprints given by the user
    seen,          \* bundle_content as read at the start
    parents,       \* parent_hashes of its signed action
    from,          \* move: the room found by the bridge
    todo,          \* queries its bridge has still to run
    promoted,      \* envelopes renamed into the content store
    offline,       \* commands whose embedding service did not answer
    owner,         \* the command whose bridge has the database open
    db,            \* the graph database
    faults         \* bound

files == <<bundle, key, cas, scratch>>
args  == <<verb, own, room, avatar, seen, parents>>
vars == <<files, pc, code, args, from, todo, promoted, offline, owner, db, faults>>

-----------------------------------------------------------------------------
\* Fingerprints.

Fp(k, c) == [kind |-> k, of |-> c]

Kinds == {"palace", "oracle", "registry", "mythos", "action", "timeline", "room",
          "inscription", "aqueduct", "mirror"}
Fps == [kind : Kinds, of : All]

Action(c) == Fp("action", c)
Palace == Fp("palace", Mint)
Oracle == Fp("oracle", Mint)
Genesis == Fp("mythos", Mint)

LinesOf(s) == {s[i] : i \in DOMAIN s}

\* Mutant of Envelopes: the timeline is renamed before its head action.
EnvelopesHeadless(c) ==
    CASE verb[c] = "mint" -> <<Fp("oracle", c), Fp("mythos", c), Fp("registry", c),
                               Fp("timeline", c), Fp("action", c), Fp("palace", c)>>
      [] verb[c] = "add-room" -> <<Fp("room", c), Fp("timeline", c), Fp("action", c)>>
      [] OTHER -> <<Fp("mythos", c), Fp("timeline", c), Fp("action", c)>>

\* What a command stages, in the order it is renamed into the content store.
\* Every verb but mint appends the same list to the bundle.
Envelopes(c) ==
    LET Of(k) == Fp(k, c)
        Optional == IF own[c] THEN <<Of("mythos")>> ELSE <<>>
    IN  CASE verb[c] = "mint" -> <<Of("oracle"), Of("mythos"), Of("registry"),
                                   Of("action"), Of("timeline"), Of("palace")>>
          [] verb[c] = "add-room" ->
                <<Of("room"), Of("action"), Of("timeline")>> \o Optional
          [] verb[c] \in {"inscribe", "inscribe-via"} ->
                <<Of("inscription"), Of("action"), Of("timeline")>> \o Optional
          [] verb[c] = "move" -> <<Of("action"), Of("timeline")>>
          [] OTHER -> <<Of("mythos"), Of("action"), Of("timeline")>>

\* The manifest that mint renames to <palace>.bundle.
MintLines == <<Palace, Oracle, Genesis, Fp("registry", Mint), Action(Mint),
               Fp("timeline", Mint)>>

\* The predecessor written into a renamed mythos: line 2 of the bundle.
Predecessor(c) == IF Len(seen[c]) > 2 THEN seen[c][3] ELSE None

\* Mutant of Heads: the timeline is ignored, every action follows the mint.
HeadsOfMint(lines) == IF Len(lines) > 4 THEN {lines[5]} ELSE {}

\* The head of the last timeline of the bundle that is in the content store;
\* without one, the action of the mint-time manifest.
Heads(lines) ==
    LET At == {i \in DOMAIN lines : lines[i].kind = "timeline" /\ lines[i] \in cas}
    IN  IF At # {}
        THEN {Action(lines[i].of) : i \in {i \in At : \A j \in At : j <= i}}
        ELSE IF Len(lines) > 4 THEN {lines[5]} ELSE {}

-----------------------------------------------------------------------------
\* The queries of a bridge: <<name, fp, fp>>.

Node(f)       == <<"node", f, None>>
Contain(f, g) == <<"contain", f, g>>
Live(i, r)    == <<"live", i, r>>
Unlive(i, r)  == <<"unlive", i, r>>
Query(name)   == <<name, None, None>>
LogRow(f)     == <<"log", f, None>>

Queries == {"node", "contain", "live", "unlive", "drop", "chain", "unhead", "head", "headCol",
            "triple", "know", "forget", "log", "mirror", "aqueduct", "aqFrom", "aqTo",
            "strengthen"}

MythosNode(c) == IF own[c] THEN <<Node(Fp("mythos", c))>> ELSE <<>>

\* setMythosHead, and the true-naming branch of mirrorAction.
SwapHead == <<Query("unhead"), Query("head"), Query("headCol")>>

\* Mutant of Inscribed: no LIVES_IN edge.
InscribedNowhere(c) ==
    <<Node(Fp("inscription", c)), Contain(room[c], Fp("inscription", c))>>

Inscribed(c) ==
    LET i == Fp("inscription", c)
    IN  <<Node(i), Contain(room[c], i), Live(i, room[c])>>

\* The lazy aqueduct from the palace to the room.  The palace is not a Room
\* node, so only the AQUEDUCT_TO edge is made.
RoomAqueduct(c) ==
    IF <<Palace, room[c]>> \in db.aqueducts
    THEN MythosNode(c)
    ELSE <<Query("aqueduct"), Query("aqTo"), LogRow(Fp("aqueduct", c))>>
         \o MythosNode(c) \o <<Query("mirror")>>

MoveAqueduct(c, f, r) ==
    IF {<<f, r, "from">>, <<f, r, "to">>} \subseteq db.ends
    THEN <<Query("strengthen")>>
    ELSE <<Query("aqueduct"), Query("aqFrom"), Query("aqTo"), LogRow(Fp("aqueduct", c)),
           Query("strengthen")>>

MintScript(c) ==
    <<Node(Palace), Node(Genesis)>> \o SwapHead
    \o <<Node(Oracle), Contain(Palace, Oracle), Query("triple"), Query("know"),
         LogRow(Action(c))>>

AddRoomScript(c) ==
    <<Node(Fp("room", c)), Contain(Palace, Fp("room", c))>>
    \o MythosNode(c) \o <<LogRow(Action(c))>>

InscribeScript(c) == Inscribed(c) \o <<LogRow(Action(c))>> \o RoomAqueduct(c)

\* Action before effect; with an answer of the embedding service, also the vector.
InscribeViaScript(c, offl) ==
    <<LogRow(Action(c))>> \o Inscribed(c)
    \o (IF offl THEN <<>> ELSE <<Query("drop")>> \o Inscribed(c))
    \o RoomAqueduct(c)

\* A move to the room the avatar is in has nothing to write.
MoveScript(c, src) ==
    IF src = room[c] THEN <<>>
    ELSE <<Unlive(avatar[c], src), Live(avatar[c], room[c]), LogRow(Action(c))>>
         \o MoveAqueduct(c, src, room[c])

\* setMythosHead, then mirrorAction does the same swap again, then the triple.
RenameScript(c) ==
    <<Node(Fp("mythos", c)), Query("chain")>> \o SwapHead
    \o <<LogRow(Action(c))>> \o SwapHead
    \o <<Query("forget"), Query("triple"), Query("know")>>

Script(c, src, offl) ==
    CASE verb[c] = "mint" -> MintScript(c)
      [] verb[c] = "add-room" -> AddRoomScript(c)
      [] verb[c] = "inscribe" -> InscribeScript(c)
      [] verb[c] = "inscribe-via" -> InscribeViaScript(c, offl)
      [] verb[c] = "move" -> MoveScript(c, src)
      [] OTHER -> RenameScript(c)

-----------------------------------------------------------------------------
Steps == {"idle", "staged", "bridge", "promote", "write", "keys", "done", "dead"}
Running(c) == pc[c] \notin {"idle", "done", "dead"}

Row == [fp : Fps, kind : AllVerbs \cup {"pending", "aqueduct-created"}, parents : SUBSET Fps]

\* Nodes but ActionLog, Triple and Aqueduct; CONTAINS, LIVES_IN and PREDECESSOR
\* edges; the MYTHOS_HEAD edge and Palace.mythos_head_fp; the objects of the
\* oracle's mythos-head triples, and those joined to it by HAS_KNOWLEDGE;
\* ActionLog rows; Aqueduct nodes, by the fps they join, their edges, and the
\* moves that strengthened one.
Graph == [nodes : SUBSET Fps, contains : SUBSET (Fps \X Fps), lives : SUBSET (Fps \X Fps),
          chain : SUBSET (Fps \X Fps), head : Fps \cup {None}, headCol : Fps \cup {None},
          triples : SUBSET Fps, knows : SUBSET Fps, log : SUBSET Row,
          aqueducts : SUBSET (Fps \X Fps), ends : SUBSET (Fps \X Fps \X {"from", "to"}),
          flow : SUBSET All]

TypeOK ==
    /\ bundle \in Seq(Fps)
    /\ key \in BOOLEAN
    /\ cas \in SUBSET Fps
    /\ scratch \in SUBSET All
    /\ pc \in [All -> Steps]
    /\ code \in [All -> 0..2]
    /\ verb \in [All -> AllVerbs]
    /\ own \in [All -> BOOLEAN]
    /\ room \in [All -> Fps \cup {None}]
    /\ avatar \in [All -> Fps \cup {None}]
    /\ seen \in [All -> Seq(Fps)]
    /\ parents \in [All -> SUBSET Fps]
    /\ from \in [All -> Fps \cup {None}]
    /\ todo \in [All -> Seq(Queries \X (Fps \cup {None}) \X (Fps \cup {None}))]
    /\ promoted \in [All -> Nat]
    /\ offline \in SUBSET All
    /\ owner \in All \cup {None}
    /\ db \in Graph
    /\ faults \in 0..MaxFaults

Init ==
    /\ bundle = <<>> /\ key = FALSE /\ cas = {} /\ scratch = {}
    /\ pc = [c \in All |-> "idle"]
    /\ code = [c \in All |-> 0]
    /\ verb = [c \in All |-> "mint"]
    /\ own = [c \in All |-> FALSE]
    /\ room = [c \in All |-> None] /\ avatar = [c \in All |-> None]
    /\ seen = [c \in All |-> <<>>]
    /\ parents = [c \in All |-> {}]
    /\ from = [c \in All |-> None]
    /\ todo = [c \in All |-> <<>>]
    /\ promoted = [c \in All |-> 0]
    /\ offline = {} /\ owner = None
    /\ db = [nodes |-> {}, contains |-> {}, lives |-> {}, chain |-> {}, head |-> None,
             headCol |-> None, triples |-> {}, knows |-> {}, log |-> {}, aqueducts |-> {},
             ends |-> {}, flow |-> {}]
    /\ faults = 0

-----------------------------------------------------------------------------
\* The command, up to its bridge.

Goto(c, p) == pc' = [pc EXCEPT ![c] = p]

Exit(c, n) == Goto(c, "done") /\ code' = [code EXCEPT ![c] = n]

CanStart(c) == pc[c] = "idle" /\ Cardinality({d \in All : Running(d)}) < MaxAlive

\* runMint signs its envelopes and stages them with the manifest and the keys.
StartMint ==
    /\ CanStart(Mint)
    /\ Goto(Mint, "staged")
    /\ scratch' = scratch \cup {Mint}
    /\ UNCHANGED <<bundle, key, cas, code, args, from, todo, promoted, offline, owner, db,
                   faults>>

\* No bundle, an empty bundle, or no key: the verb exits 2.
Refuse(c) ==
    /\ CanStart(c) /\ c # Mint
    /\ bundle = <<>> \/ ~key
    /\ Exit(c, 2)
    /\ UNCHANGED <<files, args, from, todo, promoted, offline, owner, db, faults>>

\* The fingerprints a user can have seen: made by a command that has ended.
Known(k, vs) == {Fp(k, d) : d \in {d \in Commands : pc[d] \in {"done", "dead"} /\ verb[d] \in vs}}

\* Read bundle, timeline and key; sign; create the staging directory.
Start(c, v, withMythos, r, a) ==
    /\ CanStart(c) /\ c # Mint
    /\ bundle # <<>> /\ key
    /\ verb' = [verb EXCEPT ![c] = v]
    /\ own' = [own EXCEPT ![c] = withMythos]
    /\ room' = [room EXCEPT ![c] = r]
    /\ avatar' = [avatar EXCEPT ![c] = a]
    /\ seen' = [seen EXCEPT ![c] = bundle]
    /\ parents' = [parents EXCEPT ![c] = Heads(bundle)]
    /\ scratch' = scratch \cup {c}
    /\ Goto(c, "staged")
    /\ UNCHANGED <<bundle, key, cas, code, from, todo, promoted, offline, owner, db, faults>>

StartAddRoom(c) ==
    /\ "add-room" \in Verbs
    /\ \E m \in BOOLEAN : Start(c, "add-room", m, None, None)

StartInscribe(c) ==
    \E v \in Verbs \cap {"inscribe", "inscribe-via"}, m \in BOOLEAN,
       r \in Known("room", {"add-room"}) : Start(c, v, m, r, None)

StartMove(c) ==
    /\ "move" \in Verbs
    /\ \E r \in Known("room", {"add-room"}),
          a \in Known("inscription", {"inscribe", "inscribe-via"}) :
          Start(c, "move", FALSE, r, a)

StartRename(c) ==
    /\ "rename-mythos" \in Verbs
    /\ Start(c, "rename-mythos", FALSE, None, None)

StartAny(c) == StartAddRoom(c) \/ StartInscribe(c) \/ StartMove(c) \/ StartRename(c)

-----------------------------------------------------------------------------
\* The bridge.

\* The verb deletes its staging directory and exits.
RollBack(c, n) ==
    /\ scratch' = scratch \ {c}
    /\ Exit(c, n)

Homes(i) == {r \in db.nodes : <<i, r>> \in db.lives}

\* Mutant of Passes: a move of an avatar without a room goes ahead.
PassesUnhoused(c, src) ==
    CASE verb[c] = "add-room" -> <<Palace, Fp("room", c)>> \notin db.contains
      [] verb[c] \in {"inscribe", "inscribe-via", "move"} -> <<Palace, room[c]>> \in db.contains
      [] OTHER -> TRUE

\* The checks a bridge makes before its first write.
Passes(c, src) ==
    CASE verb[c] = "mint" -> TRUE
      [] verb[c] = "add-room" -> /\ <<Palace, Fp("room", c)>> \notin db.contains
                                 /\ Palace \in db.nodes
      [] verb[c] \in {"inscribe", "inscribe-via"} -> <<Palace, room[c]>> \in db.contains
      [] verb[c] = "move" -> src # None /\ <<Palace, room[c]>> \in db.contains
      [] OTHER -> Predecessor(c) # None /\ Palace \in db.nodes

\* The room a move starts from: the first row of a query.
Sources(c) == IF verb[c] = "move" /\ Homes(avatar[c]) # {} THEN Homes(avatar[c]) ELSE {None}

\* The embedding service is asked before the first write.
OpenStore(c) ==
    /\ pc[c] = "staged" /\ owner = None
    /\ \E src \in Sources(c), offl \in (IF verb[c] = "inscribe-via" THEN BOOLEAN ELSE {FALSE}) :
        /\ Passes(c, src)
        /\ from' = [from EXCEPT ![c] = src]
        /\ offline' = IF offl THEN offline \cup {c} ELSE offline
        /\ todo' = [todo EXCEPT ![c] = Script(c, src, offl)]
    /\ owner' = c
    /\ Goto(c, "bridge")
    /\ UNCHANGED <<files, code, args, promoted, db, faults>>

\* A check fails, or another process has the database open.
BridgeRefuses(c) ==
    /\ pc[c] = "staged"
    /\ owner # None \/ \A src \in Sources(c) : ~Passes(c, src)
    /\ RollBack(c, 1)
    /\ UNCHANGED <<bundle, key, cas, args, from, todo, promoted, offline, owner, db, faults>>

\* The next query of c's bridge is q; the rest of its script follows.
Runs(c, q) ==
    /\ pc[c] = "bridge" /\ todo[c] # <<>>
    /\ Head(todo[c])[1] = q
    /\ todo' = [todo EXCEPT ![c] = Tail(@)]
    /\ UNCHANGED <<files, pc, code, args, from, promoted, offline, owner, faults>>

X(c) == Head(todo[c])[2]
Y(c) == Head(todo[c])[3]

\* An edge is created between nodes that are found.
Joined(edges, f, g) == IF {f, g} \subseteq db.nodes THEN edges \cup {<<f, g>>} ELSE edges

CreateNode(c) ==
    /\ Runs(c, "node")
    /\ db' = [db EXCEPT !.nodes = @ \cup {X(c)}]

CreateContains(c) ==
    /\ Runs(c, "contain")
    /\ db' = [db EXCEPT !.contains = Joined(@, X(c), Y(c))]

CreateLivesIn(c) ==
    /\ Runs(c, "live")
    /\ db' = [db EXCEPT !.lives = Joined(@, X(c), Y(c))]

\* Mutant of DeleteLivesIn: the old edge stays.
DeleteNothing(c) == Runs(c, "unlive") /\ db' = db

DeleteLivesIn(c) ==
    /\ Runs(c, "unlive")
    /\ db' = [db EXCEPT !.lives = @ \ {<<X(c), Y(c)>>}]

\* upsertEmbedding: DETACH DELETE before the node is created again.
DropInscription(c) ==
    LET i == Fp("inscription", c)
    IN  /\ Runs(c, "drop")
        /\ db' = [db EXCEPT !.nodes = @ \ {i}, !.contains = {e \in @ : e[2] # i},
                              !.lives = {e \in @ : e[1] # i}]

\* The predecessor's node is created when it is not there.
CreatePredecessor(c) ==
    /\ Runs(c, "chain")
    /\ db' = [db EXCEPT !.nodes = @ \cup {Predecessor(c)},
                          !.chain = @ \cup {<<Fp("mythos", c), Predecessor(c)>>}]

DeleteHead(c) ==
    /\ Runs(c, "unhead")
    /\ db' = [db EXCEPT !.head = None]

CreateHead(c) ==
    /\ Runs(c, "head")
    /\ db' = [db EXCEPT !.head = Fp("mythos", c)]

SetHeadColumn(c) ==
    /\ Runs(c, "headCol")
    /\ db' = [db EXCEPT !.headCol = Fp("mythos", c)]

\* Mutant of ForgetHeads: the old triple stays.
ForgetNothing(c) == Runs(c, "forget") /\ db' = db

\* Every mythos-head triple the oracle knows is deleted.
ForgetHeads(c) ==
    /\ Runs(c, "forget")
    /\ db' = [db EXCEPT !.triples = @ \ db.knows, !.knows = {}]

CreateTriple(c) ==
    /\ Runs(c, "triple")
    /\ db' = [db EXCEPT !.triples = @ \cup {Fp("mythos", c)}]

CreateKnowledge(c) ==
    /\ Runs(c, "know")
    /\ db' = [db EXCEPT !.knows = @ \cup {Fp("mythos", c)}]

\* The kind of a row; every bridge gives an empty list of parents.
RowOf(c, f) ==
    [fp |-> f, parents |-> {},
     kind |-> IF f.kind = "aqueduct" THEN "aqueduct-created"
              ELSE IF c \in offline THEN "pending" ELSE verb[c]]

AppendLog(c) ==
    /\ Runs(c, "log")
    /\ db' = [db EXCEPT !.log = @ \cup {RowOf(c, X(c))}]

\* The bridge logs the aqueduct it has just logged once more, under another fp.
MirrorAqueduct(c) ==
    /\ Runs(c, "mirror")
    /\ db' = [db EXCEPT !.log = @ \cup {[fp |-> Fp("mirror", c), kind |-> "aqueduct-created",
                                         parents |-> {Action(c)}]}]

Joins(c) == <<IF verb[c] = "move" THEN from[c] ELSE Palace, room[c]>>

\* The fp of an aqueduct is derived from what it joins: it is created once.
CreateAqueduct(c) ==
    /\ Runs(c, "aqueduct")
    /\ Joins(c) \notin db.aqueducts
    /\ db' = [db EXCEPT !.aqueducts = @ \cup {Joins(c)}]

CreateEnd(c, side) ==
    /\ Runs(c, IF side = "from" THEN "aqFrom" ELSE "aqTo")
    /\ db' = [db EXCEPT !.ends = @ \cup {<<Joins(c)[1], Joins(c)[2], side>>}]

Strengthen(c) ==
    /\ Runs(c, "strengthen")
    /\ db' = [db EXCEPT !.flow = @ \cup {c}]

BridgeQuery(c) ==
    \/ CreateNode(c) \/ CreateContains(c) \/ CreateLivesIn(c) \/ DeleteLivesIn(c)
    \/ DropInscription(c) \/ CreatePredecessor(c)
    \/ DeleteHead(c) \/ CreateHead(c) \/ SetHeadColumn(c)
    \/ ForgetHeads(c) \/ CreateTriple(c) \/ CreateKnowledge(c)
    \/ AppendLog(c) \/ MirrorAqueduct(c)
    \/ CreateAqueduct(c) \/ (\E side \in {"from", "to"} : CreateEnd(c, side)) \/ Strengthen(c)

\* The aqueduct exists without its edges: CREATE violates the primary key.
KeyConflict(c) ==
    /\ todo[c] # <<>> /\ Head(todo[c])[1] = "aqueduct"
    /\ Joins(c) \in db.aqueducts

\* An aqueduct of an inscription is best effort: its queries are given up.
GivesUpAqueduct(c) ==
    /\ verb[c] \in {"inscribe", "inscribe-via"} /\ todo[c] # <<>>
    /\ \/ Head(todo[c])[1] \in {"aqueduct", "aqTo"}
       \/ Head(todo[c])[1] = "log" /\ X(c).kind = "aqueduct"

SkipAqueduct(c) ==
    /\ pc[c] = "bridge" /\ GivesUpAqueduct(c)
    /\ faults < MaxFaults
    /\ faults' = faults + 1
    /\ todo' = [todo EXCEPT ![c] = MythosNode(c)]
    /\ UNCHANGED <<files, pc, code, args, from, promoted, offline, owner, db>>

\* Mutant of BridgeFails: the exit code of the bridge is ignored.
BridgeFailsUnseen(c) ==
    /\ pc[c] = "bridge" /\ ~GivesUpAqueduct(c)
    /\ faults < MaxFaults /\ faults' = faults + 1
    /\ owner' = None
    /\ Goto(c, "promote")
    /\ UNCHANGED <<files, code, args, from, todo, promoted, offline, db>>

\* A query fails or the bridge dies: what it wrote stays, the verb exits 1.
BridgeFails(c) ==
    /\ pc[c] = "bridge" /\ ~GivesUpAqueduct(c)
    /\ \/ faults < MaxFaults /\ faults' = faults + 1
       \/ KeyConflict(c) /\ faults' = faults
    /\ owner' = None
    /\ RollBack(c, 1)
    /\ UNCHANGED <<bundle, key, cas, args, from, todo, promoted, offline, db>>

\* Exit 0, or 2 after an inscription without its embedding.
BridgeExits(c) ==
    /\ pc[c] = "bridge" /\ todo[c] = <<>>
    /\ owner' = None
    /\ IF c \in offline
       THEN RollBack(c, 2)
       ELSE Goto(c, "promote") /\ UNCHANGED <<code, scratch>>
    /\ UNCHANGED <<bundle, key, cas, args, from, todo, promoted, offline, db, faults>>

-----------------------------------------------------------------------------
\* Content store and bundle.

\* One rename of promoteStagingFiles.  After the last one the directory is
\* removed; but the manifest is still in it and the failure is ignored.
Promote(c) ==
    /\ pc[c] = "promote"
    /\ promoted[c] < Len(Envelopes(c))
    /\ cas' = cas \cup {Envelopes(c)[promoted[c] + 1]}
    /\ promoted' = [promoted EXCEPT ![c] = @ + 1]
    /\ UNCHANGED <<bundle, key, scratch, pc, code, args, from, todo, offline, owner, db, faults>>

\* Mutant of Promoted: the bundle is rewritten after the first rename.
PromotedFirst(c) == promoted[c] > 0

Promoted(c) == promoted[c] = Len(Envelopes(c))

Unpromoted == <<key, cas, args, from, todo, promoted, offline, owner, db, faults>>

\* mint renames its manifest to <palace>.bundle, then the two keys.
InstallBundle ==
    /\ pc[Mint] = "promote" /\ Promoted(Mint)
    /\ bundle' = MintLines
    /\ Goto(Mint, "keys")
    /\ UNCHANGED <<Unpromoted, scratch, code>>

InstallKeys ==
    /\ pc[Mint] = "keys"
    /\ key' = TRUE
    /\ RollBack(Mint, 0)
    /\ UNCHANGED <<bundle, cas, args, from, todo, promoted, offline, owner, db, faults>>

\* The other verbs open the bundle for writing, which truncates it ...
TruncateBundle(c) ==
    /\ pc[c] = "promote" /\ Promoted(c) /\ c # Mint
    /\ bundle' = <<>>
    /\ Goto(c, "write")
    /\ UNCHANGED <<Unpromoted, scratch, code>>

\* ... and write from its start: lines beyond the last one written stay.
Overlay(new, old) == new \o SubSeq(old, Len(new) + 1, Len(old))

\* Mutant of WriteBundle: only the new lines are written.
WriteNewLines(c) ==
    /\ pc[c] = "write"
    /\ bundle' = Overlay(Envelopes(c), bundle)
    /\ Exit(c, 0)
    /\ UNCHANGED <<Unpromoted, scratch>>

WriteBundle(c) ==
    /\ pc[c] = "write"
    /\ bundle' = Overlay(seen[c] \o Envelopes(c), bundle)
    /\ Exit(c, 0)
    /\ UNCHANGED <<Unpromoted, scratch>>

\* A rename or a write fails: the verb exits 1 and leaves everything.
FileFails(c) ==
    /\ pc[c] \in {"staged", "promote", "write", "keys"}
    /\ faults < MaxFaults
    /\ faults' = faults + 1
    /\ Exit(c, 1)
    /\ UNCHANGED <<files, args, from, todo, promoted, offline, owner, db>>

\* The command is killed, and its bridge with it.
Die(c) ==
    /\ Running(c)
    /\ faults < MaxFaults
    /\ faults' = faults + 1
    /\ Goto(c, "dead")
    /\ owner' = IF owner = c THEN None ELSE owner
    /\ UNCHANGED <<files, code, args, from, todo, promoted, offline, db>>

CommandStep(c) ==
    \/ Refuse(c) \/ StartAny(c)
    \/ OpenStore(c) \/ BridgeRefuses(c) \/ BridgeQuery(c) \/ SkipAqueduct(c)
    \/ BridgeFails(c) \/ BridgeExits(c)
    \/ Promote(c) \/ TruncateBundle(c) \/ WriteBundle(c)
    \/ FileFails(c) \/ Die(c)

Next == StartMint \/ InstallBundle \/ InstallKeys \/ \E c \in All : CommandStep(c)

Spec == Init /\ [][Next]_vars

-----------------------------------------------------------------------------
\* Properties of any interleaving of commands, failures and deaths.

\* What an envelope refers to: an action its parents, a timeline its head, a
\* renamed mythos its predecessor, the palace what it contains.
References(f) ==
    CASE f.kind = "action" -> parents[f.of]
      [] f.kind = "timeline" -> {Action(f.of)}
      [] f.kind = "mythos" /\ verb[f.of] = "rename-mythos" -> {Predecessor(f.of)}
      [] f.kind = "palace" -> LinesOf(MintLines) \ {Palace, Action(Mint)}
      [] OTHER -> {}

\* Every reference of a stored envelope resolves in the content store
\* (invariants c and d of `palace verify`, at every instant).
CasClosed == \A f \in cas : References(f) \subseteq cas

\* Every line of the bundle names a stored envelope, whoever wrote it and
\* however two commands overwrote each other (casRead in verify.zig and show.zig).
BundleResolves == LinesOf(bundle) \subseteq cas

SameRoom(c) == verb[c] = "move" /\ from[c] = room[c]

Logged(f) == \E r \in db.log : r.fp = f

\* The graph is never behind the content store: a stored action has its
\* ActionLog row, except a move to the room the avatar is in.
MirroredFirst == \A c \in All : Action(c) \in cas => SameRoom(c) \/ Logged(Action(c))

\* An inscription lives in one room at most (LIVES_IN in schema.cypher).
OneHome == \A i \in db.nodes : Cardinality(Homes(i)) <= 1

-----------------------------------------------------------------------------
\* Properties of one command at a time, with failures and deaths.

Succeeded(c) == pc[c] = "done" /\ code[c] = 0
Recorded(c) == Action(c) \in LinesOf(bundle)

\* The bundle's actions form one chain from the mint action, and the head of
\* its last timeline is the end of it (invariant e of `palace verify`).
HistoryLinear ==
    LET Acts == {c \in All : Recorded(c)}
    IN  /\ \A c \in Acts \ {Mint} : \E d \in Acts : parents[c] = {Action(d)}
        /\ \A c, d \in Acts : parents[c] = parents[d] => c = d
        /\ \A c \in Acts : parents[c] \cap Heads(bundle) = {}

\* What a command that exited 0 signed is in the bundle for good, unless the
\* whole bundle was lost while it was being rewritten.
Acknowledged ==
    \A c \in All : Succeeded(c) =>
        bundle = <<>> \/ LinesOf(Envelopes(c)) \subseteq LinesOf(bundle)

Position(f) == CHOOSE i \in DOMAIN bundle : bundle[i] = f

\* The commands of the bundle that placed an avatar, and the last of them.
Placements(i) ==
    {c \in Commands : /\ Recorded(c)
                      /\ \/ Fp("inscription", c) = i /\ verb[c] \in {"inscribe", "inscribe-via"}
                         \/ verb[c] = "move" /\ avatar[c] = i}
Last(cs) == CHOOSE c \in cs : \A d \in cs : Position(Action(d)) <= Position(Action(c))

Unrecorded(c) == pc[c] # "idle" /\ ~Recorded(c)

\* The graph has an avatar where the bundle's history put it, or where a command
\* that did not reach the bundle was taking it; only such a command leaves it
\* without a room.
ResidenceRecorded ==
    \A i \in {Fp("inscription", c) : c \in Commands} :
        LET Now == Homes(i)
            Pending == {c \in Commands : Unrecorded(c) /\ (avatar[c] = i \/ i.of = c)}
        IN  Placements(i) # {} =>
                \/ Now = {room[Last(Placements(i))]}
                \/ Pending # {} /\ Now \subseteq {room[c] : c \in Pending}

Renames == {c \in All : verb[c] = "rename-mythos" /\ Recorded(c)} \cup
           {c \in {Mint} : Recorded(c)}

\* The MYTHOS_HEAD edge, the palace's mythos_head_fp and the oracle's triple all
\* name the last mythos the bundle records, unless a rename did not reach it.
HeadRecorded ==
    Renames # {} =>
        LET m == Fp("mythos", Last(Renames))
        IN  \/ db.head = m /\ db.headCol = m /\ db.knows = {m}
            \/ \E c \in Commands : verb[c] = "rename-mythos" /\ Unrecorded(c)

-----------------------------------------------------------------------------
\* What the documents and comments say and the code does not do.  Each of these
\* is refuted by a run of its own.

AtRest == \A c \in All : ~Running(c)

\* The bundle is never lost: the other verbs stage and rename "the same" way as
\* mint, so a crash leaves the old bundle or the new one (rename_mythos.zig).
BundleSurvives == AtRest /\ Succeeded(Mint) => bundle # <<>>

\* A renamed mythos names the head it replaces, so no two recorded mythoi name
\* the same predecessor (rename_mythos.zig).
ChainUnforked ==
    \A c, d \in Renames \ {Mint} : Predecessor(c) = Predecessor(d) => c = d

=============================================================================
