--------------------------- MODULE DreamballFile ---------------------------
(***************************************************************************)
(* The generic commands of the dreamball executable (src/cli): mint, grow, *)
(* join-guild, seal, unseal, seal-relic, unlock, transmit, export-json and *)
(* import-json, on the envelopes of src/envelope.zig, their JSON rendering *)
(* (src/json.zig), DragonBall files (src/sealing.zig) and key files.       *)
(*                                                                         *)
(* A command reads its input (join-guild: both), reads the key file if it  *)
(* signs, truncates its output and writes it; mint then does the same with *)
(* the key file.                                                           *)
(* Nothing locks a file, so commands interleave at these steps, and a      *)
(* command may die between them.  A command that refuses its input changes *)
(* nothing and is not a step.                                              *)
(*                                                                         *)
(* Of an envelope the model keeps the subject, the names of the attributes *)
(* present in each slot, the guilds and the signatures.  A key pair is one *)
(* value: its Ed25519 and its ML-DSA-87 half.                              *)
(***************************************************************************)
EXTENDS Naturals

CONSTANTS
    Procs,         \* processes running a command
    Paths,         \* files; the key file of p is <p>.key
    Keys,          \* key pairs
    None, Torn,    \* no file; a file that is empty or cut off
    GivenPath, GivenKey,        \* a DreamBall found at the start, and its key
    Edits,         \* combinations of the options of grow
    LookFile, CoverageFile,     \* attributes of the documents given to grow
    MaxCommands,   \* bound: commands
    MaxDeaths      \* bound: commands that die

Options == {"name", "personality", "voice", "model", "system-prompt", "look", "coverage",
            "revision-bump", "dreamball", "dragonball"}

ASSUME FileNoneAssumption == None \notin Keys
ASSUME FileGivenAssumption == GivenPath \in Paths /\ GivenKey \in Keys
ASSUME FileEditsAssumption == Edits \subseteq SUBSET Options
ASSUME FileBoundsAssumption == MaxCommands \in Nat /\ MaxDeaths \in Nat

VARIABLES
    file,    \* what each path holds
    keyFile, \* the key in <path>.key
    minted,  \* key pairs generated so far
    at,      \* per process: where its command is
    job,     \* per process: the command
    clash,   \* processes on whose output another one wrote since they opened it
    ran, deaths

vars == <<file, keyFile, minted, at, job, clash, ran, deaths>>

-----------------------------------------------------------------------------
(* The codecs: the attributes each of them knows.  The optional attributes  *)
(* of a record inside a slot (an asset, a skill, a node) count with the     *)
(* slot; its required ones go with the record.                              *)

AssetEncode == {"asset.embedded", "asset.url", "asset.size", "asset.note"}
AssetDecode == {"asset.url", "asset.embedded", "asset.size", "asset.note"}
AssetWrite  == {"asset.url", "asset.embedded", "asset.size", "asset.note"}
AssetRead   == {"asset.url", "asset.embedded", "asset.size", "asset.note"}

SkillEncode == {"skill.trigger", "skill.body", "skill.asset", "skill.requires", "skill.note"}
SkillDecode == {"skill.trigger", "skill.body", "skill.asset", "skill.requires", "skill.note"}
SkillWrite  == {"skill.trigger", "skill.body", "skill.asset", "skill.requires", "skill.note"}
SkillRead   == {"skill.trigger", "skill.body", "skill.asset", "skill.requires", "skill.note"}

LookEncode == {"asset", "preview", "background", "note"} \cup AssetEncode
LookDecode == {"asset", "preview", "background", "note"} \cup AssetDecode
LookWrite  == {"asset", "preview", "background", "note"} \cup AssetWrite
LookRead   == {"asset", "preview", "background", "note"} \cup AssetRead

FeelEncode == {"personality", "voice", "value", "tempo", "note"}
FeelDecode == {"personality", "voice", "value", "tempo", "note"}
FeelWrite  == {"personality", "voice", "value", "tempo", "note"}
FeelRead   == {"personality", "voice", "value", "tempo", "note"}

\* Mutant of ActDecode: it does not know scripts.
ActDecodeShort == {"model", "system-prompt", "skill", "tool", "note"} \cup SkillDecode

ActEncode == {"model", "system-prompt", "skill", "script", "tool", "note"} \cup SkillEncode \cup AssetEncode
ActDecode == {"model", "system-prompt", "skill", "script", "tool", "note"} \cup SkillDecode \cup AssetDecode
ActWrite  == {"model", "system-prompt", "skill", "script", "tool", "note"} \cup SkillWrite \cup AssetWrite
ActRead   == {"model", "system-prompt", "skill", "script", "tool", "note"} \cup SkillRead \cup AssetRead

MemoryItemEncode == {"node.content", "node.lookup", "node.created", "node.last-recalled", "connection.label"}
MemoryItemDecode == {"node.content", "node.lookup", "node.created", "node.last-recalled", "connection.label"}
MemoryItemWrite  == {"node.content", "node.lookup", "node.created", "node.last-recalled", "connection.label"}
MemoryEncode == {"node", "connection", "last-updated"} \cup MemoryItemEncode
MemoryDecode == {"node", "connection", "last-updated"} \cup MemoryItemDecode
MemoryWrite  == {"node", "connection", "last-updated"} \cup MemoryItemWrite

KnowledgeGraphEncode == {"triple", "source"}
KnowledgeGraphDecode == {"triple", "source"}
KnowledgeGraphWrite  == {"triple", "source"}

EmotionalRegisterEncode == {"axis", "observed-at"}
EmotionalRegisterDecode == {"axis", "observed-at"}
EmotionalRegisterWrite  == {"axis", "observed-at"}

InteractionEncode == {"interaction.content", "interaction.outcome", "interaction.timestamp"}
InteractionDecode == {"interaction.content", "interaction.outcome", "interaction.timestamp"}
InteractionWrite  == {"interaction.content", "interaction.timestamp", "interaction.outcome"}
InteractionSetEncode == {"interaction", "created"} \cup InteractionEncode
InteractionSetDecode == {"interaction", "created"} \cup InteractionDecode
InteractionSetWrite  == {"interaction", "created"} \cup InteractionWrite

GuildPolicyEncode == {"public", "guild-only", "admin-only", "note"}
GuildPolicyDecode == {"public", "guild-only", "admin-only", "note"}
GuildPolicyWrite  == {"public", "guild-only", "admin-only", "note"}

CoverageItemEncode ==
    {"node.lat", "node.lon", "radio.mesh-mac", "radio.channel", "radio.freq-mhz", "radio.stations",
     "station.expected-throughput-mbps", "sample.x", "sample.z", "sample.lat", "sample.lon",
     "sample.heading", "sample.rssi-dbm", "sample.node-id", "sample.ssid", "render.score", "render.note"}
CoverageItemDecode ==
    {"station.expected-throughput-mbps", "node.lat", "node.lon", "radio.mesh-mac", "radio.channel",
     "radio.freq-mhz", "radio.stations", "sample.x", "sample.z", "sample.lat", "sample.lon",
     "sample.heading", "sample.rssi-dbm", "sample.node-id", "sample.ssid", "render.score", "render.note"}
CoverageItemWrite ==
    {"node.lat", "node.lon", "radio.mesh-mac", "radio.channel", "radio.freq-mhz", "radio.stations",
     "station.expected-throughput-mbps", "sample.x", "sample.z", "sample.lat", "sample.lon",
     "sample.heading", "sample.rssi-dbm", "sample.node-id", "sample.ssid"}
CoverageItemRead ==
    {"node.lat", "node.lon", "station.expected-throughput-mbps", "radio.mesh-mac", "radio.channel",
     "radio.freq-mhz", "radio.stations", "sample.x", "sample.z", "sample.lat", "sample.lon",
     "sample.heading", "sample.rssi-dbm", "sample.node-id", "sample.ssid"}
CoverageEncode == {"node", "radio", "sample", "render"} \cup CoverageItemEncode
CoverageDecode == {"node", "radio", "sample", "render"} \cup CoverageItemDecode
CoverageWrite  == {"node", "radio", "sample", "render", "render.score", "render.note"} \cup CoverageItemWrite
CoverageRead   == {"node", "radio", "sample", "render", "render.score", "render.note"} \cup CoverageItemRead

\* encodeDreamBall, slot by slot.
Encoded ==
    [plain  |-> {"name", "created", "updated", "note", "field-kind", "archiform-fp", "contains",
                 "derived-from"},
     look   |-> LookEncode, feel |-> FeelEncode, act |-> ActEncode, memory |-> MemoryEncode,
     graph  |-> KnowledgeGraphEncode, register |-> EmotionalRegisterEncode,
     interactions |-> InteractionSetEncode, policy |-> GuildPolicyEncode,
     coverage |-> CoverageEncode]

\* decodeDreamBall: an attribute it does not know is skipped.
Decoded ==
    [plain  |-> {"name", "note", "created", "updated", "contains", "derived-from", "archiform-fp"},
     look   |-> LookDecode, feel |-> FeelDecode, act |-> ActDecode, memory |-> MemoryDecode,
     graph  |-> KnowledgeGraphDecode, register |-> EmotionalRegisterDecode,
     interactions |-> InteractionSetDecode, policy |-> GuildPolicyDecode,
     coverage |-> CoverageDecode]

\* writeDreamBall.
Written ==
    [plain  |-> {"name", "created", "updated", "note", "contains", "derived-from"},
     look   |-> LookWrite, feel |-> FeelWrite, act |-> ActWrite, memory |-> MemoryWrite,
     graph  |-> KnowledgeGraphWrite, register |-> EmotionalRegisterWrite,
     interactions |-> InteractionSetWrite, policy |-> GuildPolicyWrite,
     coverage |-> CoverageWrite]

\* readDreamBall: the other slots of a rendering are not read back.
Read ==
    [plain  |-> {"name", "note", "created", "updated", "contains", "derived-from"},
     look   |-> LookRead, feel |-> FeelRead, act |-> ActRead, memory |-> {}, graph |-> {},
     register |-> {}, interactions |-> {}, policy |-> {}, coverage |-> CoverageRead]

Slots  == DOMAIN Encoded
Fields == UNION {Encoded[s] : s \in Slots}

NoAttributes == [s \in Slots |-> {}]
\* What a codec keeps.  Of a look, feel or act the decoders of envelope.zig refuse
\* what they do not know; all that is written there they do know.
Through(attrs, codec) == [s \in Slots |-> attrs[s] \cap codec[s]]

-----------------------------------------------------------------------------
(* What files hold.  A "mixed" file holds pieces of two writers: it decodes *)
(* or does not, and its signatures are no one's.                            *)

Stages == {"seed", "dreamball", "dragonball"}

Unsigned ==
    [kind : {"ball"}, typed : BOOLEAN, stage : Stages, identity : Keys, pq : Keys \cup {None},
     rev : Nat, attrs : [Slots -> SUBSET Fields], guilds : SUBSET Keys, sigs : {{}}]

Signatures == [alg : {"ed25519", "ml-dsa-87"}, key : Keys, over : Unsigned]

DreamBalls ==
    [kind : {"ball", "mixed", "json"}, typed : BOOLEAN, stage : Stages, identity : Keys,
     pq : Keys \cup {None}, rev : Nat, attrs : [Slots -> SUBSET Fields], guilds : SUBSET Keys,
     sigs : SUBSET Signatures]

Plain == DreamBalls \cup [kind : {"receipt"}, tool : Keys, sender : Keys \cup {None}]
             \cup [kind : {"relic"}, unlocks : Keys] \cup {Torn}

\* writeSealedFile: an envelope, and attachments.
Sealed == [kind : {"sealed"}, envelope : Plain, attachments : SUBSET Plain]

Is(c, kind) == c \notin {None, Torn} /\ c.kind = kind

\* stripSignatures
Strip(b) == [b EXCEPT !.sigs = {}]

\* Mutant of SignEnvelope: the signatures of the last update are still there
\* when the new ones are made.
SignEnvelopeOver(db, k) ==
    LET u == [db EXCEPT !.pq = k]
    IN  [u EXCEPT !.sigs = {[alg |-> a, key |-> k, over |-> u] : a \in {"ed25519", "ml-dsa-87"}}]

\* signEnvelope: without the old signatures, with the ML-DSA-87 half of the key.
SignEnvelope(db, k) ==
    LET u == [db EXCEPT !.sigs = {}, !.pq = k]
    IN  [u EXCEPT !.sigs = {[alg |-> a, key |-> k, over |-> u] : a \in {"ed25519", "ml-dsa-87"}}]

\* The verify command on an envelope.
Verify(b) ==
    /\ \A s \in b.sigs :
          /\ s.over = Strip(b)
          /\ s.key = IF s.alg = "ed25519" THEN b.identity ELSE b.pq
    /\ \E s \in b.sigs : s.alg = "ed25519"

\* The decoders refuse a relic, a receipt, a sealed file and a rendering.
Decodes(c) == Is(c, "ball") \/ Is(c, "mixed")

DecodeDreamBall(c) == [c EXCEPT !.kind = "ball", !.attrs = Through(@, Decoded)]

DecodeDreamBallSubject(c) ==
    [c EXCEPT !.kind = "ball", !.attrs = NoAttributes, !.guilds = {}, !.sigs = {}]

-----------------------------------------------------------------------------
(* The results of the commands. *)

Seed(k, typed, named) ==
    [kind |-> "ball", typed |-> typed, stage |-> "seed", identity |-> k, pq |-> k, rev |-> 0,
     attrs |-> [NoAttributes EXCEPT !.plain = {"created"} \cup (IF named THEN {"name"} ELSE {})],
     guilds |-> {}, sigs |-> {}]

\* A slot the options of grow touch is replaced, never merged.
Edited(attrs, edits) ==
    LET Slot(s, given) == IF given = {} THEN attrs[s] ELSE given
    IN  [attrs EXCEPT
           !.plain    = @ \cup {"updated"} \cup (edits \cap {"name"}),
           !.feel     = Slot("feel", edits \cap {"personality", "voice"}),
           !.act      = Slot("act", edits \cap {"model", "system-prompt"}),
           !.look     = IF "look" \in edits THEN LookFile \cap LookRead ELSE @,
           !.coverage = IF "coverage" \in edits THEN CoverageFile \cap CoverageRead ELSE @]

\* --stage sets any stage, a lower one too, but no seed leaves grow a seed: asked
\* for one, or given one, it writes a dreamball.
Grown(db, edits) ==
    [db EXCEPT !.attrs = Edited(@, edits),
               !.rev   = IF "revision-bump" \in edits THEN @ + 1 ELSE @,
               !.stage = IF "dragonball" \in edits THEN "dragonball"
                         ELSE IF "dreamball" \in edits \/ @ = "seed" THEN "dreamball" ELSE @]

Joined(db, guild) ==
    [db EXCEPT !.guilds = @ \cup {guild}, !.rev = @ + 1, !.attrs.plain = @ \cup {"updated"}]

\* identity-pq is not rendered.
WriteDreamBall(db) == [db EXCEPT !.kind = "json", !.pq = None, !.attrs = Through(@, Written)]

\* dreamBallFromValue refuses a typed DreamBall.
Imports(c) == Is(c, "json") /\ ~ c.typed

DreamBallFromValue(c) ==
    [c EXCEPT !.kind = "ball", !.attrs = Through(@, Read), !.guilds = {}]

WriteSealedFile(envelope, attachments) ==
    [kind |-> "sealed", envelope |-> envelope, attachments |-> attachments]

-----------------------------------------------------------------------------
Init ==
    /\ \E typed \in BOOLEAN :
          file = [p \in Paths |->
                    IF p = GivenPath
                    THEN SignEnvelope([Seed(GivenKey, typed, TRUE) EXCEPT !.attrs = Encoded], GivenKey)
                    ELSE None]
    /\ keyFile = [p \in Paths |-> IF p = GivenPath THEN GivenKey ELSE None]
    /\ minted = {GivenKey}
    /\ at = [p \in Procs |-> "idle"] /\ job = [p \in Procs |-> None]
    /\ clash = {} /\ ran = 0 /\ deaths = 0

\* A command that has read its input and computed what it will sign or write.
Runs(p, op, place, out, signer, read, edits, result) ==
    /\ at[p] = "idle"
    /\ ran < MaxCommands /\ ran' = ran + 1
    /\ at' = [at EXCEPT ![p] = place]
    /\ job' = [job EXCEPT ![p] = [op |-> op, out |-> out, signer |-> signer, read |-> read,
                                  edits |-> edits, result |-> result]]
    /\ UNCHANGED <<file, keyFile, clash, deaths>>

Writes(p, op, out, read, result) ==
    Runs(p, op, "open", out, None, read, {}, result) /\ UNCHANGED minted

Mint(p, out, typed, named) ==
    \E k \in Keys \ minted :
        /\ Runs(p, "mint", "open", out, None, None, {}, SignEnvelope(Seed(k, typed, named), k))
        /\ minted' = minted \cup {k}

Grow(p, in, out, signer, edits) ==
    /\ Decodes(file[in])
    /\ Runs(p, "grow", "sign", out, signer, file[in], edits,
            Grown(DecodeDreamBall(file[in]), edits))
    /\ UNCHANGED minted

JoinGuild(p, in, guild, out, signer) ==
    /\ Decodes(file[in]) /\ Decodes(file[guild])
    /\ Runs(p, "join-guild", "sign", out, signer, file[in], {},
            Joined(DecodeDreamBallSubject(file[in]), file[guild].identity))
    /\ UNCHANGED minted

\* Any bytes are sealed; here those of a file that is not sealed itself.
Seal(p, in, out) ==
    /\ file[in] # None /\ ~ Is(file[in], "sealed")
    /\ Writes(p, "seal", out, file[in], WriteSealedFile(file[in], {}))

\* The wrapper is signed with a key nobody keeps.
SealRelic(p, in, out, guild) ==
    /\ file[in] # None /\ ~ Is(file[in], "sealed")
    /\ Writes(p, "seal-relic", out, file[in],
              WriteSealedFile([kind |-> "relic", unlocks |-> guild], {file[in]}))

Unseal(p, in, out) ==
    /\ Is(file[in], "sealed")
    /\ Writes(p, "unseal", out, file[in], file[in].envelope)

Unlock(p, in, out) ==
    /\ Is(file[in], "sealed")
    /\ \E inner \in file[in].attachments :
          Decodes(inner) /\ Writes(p, "unlock", out, file[in], inner)

Transmit(p, in, out, signer) ==
    /\ Decodes(file[in])
    /\ Runs(p, "transmit", "sign", out, signer, file[in], {},
            [kind |-> "receipt", tool |-> file[in].identity, sender |-> None])
    /\ UNCHANGED minted

ExportJson(p, in, out) ==
    /\ Decodes(file[in])
    /\ Writes(p, "export-json", out, file[in], WriteDreamBall(DecodeDreamBall(file[in])))

ImportJson(p, in, out) ==
    /\ Imports(file[in])
    /\ Writes(p, "import-json", out, file[in], DreamBallFromValue(file[in]))

-----------------------------------------------------------------------------
Stops(p) ==
    /\ at' = [at EXCEPT ![p] = "idle"]
    /\ job' = [job EXCEPT ![p] = None]

Signed(p, k) ==
    IF job[p].op = "transmit" THEN [job[p].result EXCEPT !.sender = k]
    ELSE SignEnvelope(job[p].result, k)

\* The key file is read after the input; without a key the command fails.
Sign(p) ==
    LET k == keyFile[job[p].signer]
    IN  /\ at[p] = "sign"
        /\ IF k \in Keys
           THEN /\ at' = [at EXCEPT ![p] = "open"]
                /\ job' = [job EXCEPT ![p].result = Signed(p, k)]
           ELSE Stops(p)
        /\ UNCHANGED <<file, keyFile, minted, clash, ran, deaths>>

\* Other processes with the same file open.
Rivals(p, place) ==
    {q \in Procs \ {p} : at[q] = place /\ job[q].out = job[p].out}

\* writeFile: createFile truncates, then the bytes are written.
Open(p) ==
    /\ at[p] = "open"
    /\ at' = [at EXCEPT ![p] = "write"]
    /\ file' = [file EXCEPT ![job[p].out] = Torn]
    /\ clash' = (clash \ {p}) \cup Rivals(p, "write")
    /\ UNCHANGED <<keyFile, minted, job, ran, deaths>>

\* Pieces of the two files, where two processes wrote at the same time.
Mixtures(new, old) ==
    {Torn} \cup (IF Is(new, "ball") /\ Decodes(old)
                 THEN {[new EXCEPT !.kind = "mixed"], [old EXCEPT !.kind = "mixed"]} ELSE {})

Write(p) ==
    /\ at[p] = "write"
    /\ \E c \in {job[p].result} \cup
                (IF p \in clash THEN Mixtures(job[p].result, file[job[p].out]) ELSE {}) :
          file' = [file EXCEPT ![job[p].out] = c]
    /\ clash' = (clash \ {p}) \cup Rivals(p, "write")
    /\ IF job[p].op = "mint"
       THEN at' = [at EXCEPT ![p] = "open key"] /\ UNCHANGED job
       ELSE Stops(p)
    /\ UNCHANGED <<keyFile, minted, ran, deaths>>

\* writeHybridToPath: after the envelope, and in the same way.
OpenKey(p) ==
    /\ at[p] = "open key"
    /\ at' = [at EXCEPT ![p] = "write key"]
    /\ keyFile' = [keyFile EXCEPT ![job[p].out] = Torn]
    /\ clash' = (clash \ {p}) \cup Rivals(p, "write key")
    /\ UNCHANGED <<file, minted, job, ran, deaths>>

WriteKey(p) ==
    /\ at[p] = "write key"
    /\ \E k \in {job[p].result.identity} \cup (IF p \in clash THEN {Torn} ELSE {}) :
          keyFile' = [keyFile EXCEPT ![job[p].out] = k]
    /\ clash' = (clash \ {p}) \cup Rivals(p, "write key")
    /\ Stops(p)
    /\ UNCHANGED <<file, minted, ran, deaths>>

\* Killed, or a read or a write failed.
Die(p) ==
    /\ at[p] # "idle"
    /\ deaths < MaxDeaths /\ deaths' = deaths + 1
    /\ clash' = clash \ {p}
    /\ Stops(p)
    /\ UNCHANGED <<file, keyFile, minted, ran>>

Command(p, in, out) ==
    \/ \E typed, named \in BOOLEAN : Mint(p, out, typed, named)
    \/ \E signer \in Paths, edits \in Edits : Grow(p, in, out, signer, edits)
    \/ \E signer, guild \in Paths : JoinGuild(p, in, guild, out, signer)
    \/ Seal(p, in, out) \/ Unseal(p, in, out) \/ Unlock(p, in, out)
    \/ \E guild \in Keys : SealRelic(p, in, out, guild)
    \/ \E signer \in Paths : Transmit(p, in, out, signer)
    \/ ExportJson(p, in, out) \/ ImportJson(p, in, out)

Next ==
    \E p \in Procs :
        \/ \E in, out \in Paths : Command(p, in, out)
        \/ Sign(p) \/ Open(p) \/ Write(p) \/ OpenKey(p) \/ WriteKey(p) \/ Die(p)

Spec == Init /\ [][Next]_vars

-----------------------------------------------------------------------------
\* Properties.

Jobs ==
    [op : {"mint", "grow", "join-guild", "seal", "seal-relic", "unseal", "unlock", "transmit",
           "export-json", "import-json"},
     out : Paths, signer : Paths \cup {None}, read : Plain \cup Sealed \cup {None},
     edits : SUBSET Options, result : Plain \cup Sealed]

\* Every variable keeps its type.
TypeOK ==
    /\ file \in [Paths -> Plain \cup Sealed \cup {None}]
    /\ keyFile \in [Paths -> Keys \cup {None, Torn}]
    /\ minted \in SUBSET Keys
    /\ at \in [Procs -> {"idle", "sign", "open", "write", "open key", "write key"}]
    /\ job \in [Procs -> Jobs \cup {None}]
    /\ clash \in SUBSET Procs
    /\ ran \in 0 .. MaxCommands /\ deaths \in 0 .. MaxDeaths

\* The keys an envelope was signed with.
Signers(b) == {s.key : s \in b.sigs}

\* Whatever commands wrote, sealed, unlocked or imported it, an envelope passes
\* `verify` exactly when the key of its own identity signed it and it still
\* carries the ML-DSA-87 half of that key: no update leaves a signature of an
\* earlier revision behind, and none makes another key acceptable.
VerifiesIffOwned ==
    \A p \in Paths :
        Is(file[p], "ball") =>
            (Verify(file[p]) <=> Signers(file[p]) = {file[p].identity} /\ file[p].pq # None)

\* The slots a command is to leave alone reach its output: all but those it was
\* given for grow ("Prior attributes survive into the re-encoded envelope unless
\* this grow explicitly overwrites them", grow.zig) and but the field kind,
\* which the decoder skips; all but the archiform for export-json; and what
\* import-json knows of a DreamBall.
Replaced(edits) ==
    (IF edits \cap {"personality", "voice"} # {} THEN {"feel"} ELSE {})
        \cup (IF edits \cap {"model", "system-prompt"} # {} THEN {"act"} ELSE {})
        \cup (edits \cap {"look", "coverage"})

Lost(op) ==
    CASE op = "grow" -> {"field-kind"}
      [] op = "export-json" -> {"field-kind", "archiform-fp"}
      [] OTHER -> {}

FieldsSurvive ==
    \A p \in Procs :
        at[p] # "idle" /\ job[p].op \in {"grow", "export-json", "import-json"} =>
            \A s \in (IF job[p].op = "import-json" THEN {"plain", "look", "feel", "act", "coverage"}
                      ELSE Slots \ Replaced(job[p].edits)) :
                job[p].read.attrs[s] \ Lost(job[p].op) \subseteq job[p].result.attrs[s]

=============================================================================
