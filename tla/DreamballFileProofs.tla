------------------------ MODULE DreamballFileProofs ------------------------
(***************************************************************************)
(* Proofs about DreamballFile, for any files, keys, processes and deaths:   *)
(* an envelope passes `verify` exactly when the key of its own identity     *)
(* signed it, the slots a command is to leave alone reach its output, and   *)
(* every variable keeps its type.                                          *)
(***************************************************************************)
EXTENDS DreamballFile, TLAPS

Record(c, names) == DOMAIN c = names /\ c = [x \in DOMAIN c |-> c[x]]

\* An envelope, an imported one or a rendering; a receipt; a command.
Shape(c) ==
    Record(c, {"kind", "typed", "stage", "identity", "pq", "rev", "attrs", "guilds", "sigs"})

Receipt(c) == Record(c, {"kind", "tool", "sender"}) /\ c.kind = "receipt"

JobShape(j) == Record(j, {"op", "out", "signer", "read", "edits", "result"})

IsBall(c) == Is(c, "ball") \/ Is(c, "mixed") \/ Is(c, "json")

\* Both signatures of k over u.
Pair(k, u) == {[alg |-> a, key |-> k, over |-> u] : a \in {"ed25519", "ml-dsa-87"}}

\* Every signature is over an envelope that carries an ML-DSA-87 key.
Marked(c) == \A s \in c.sigs : s.over.pq # None

\* Not signed, without the ML-DSA-87 key, or signed as it is by the key it carries.
Fresh(c) == c.sigs = {} \/ c.pq = None \/ c.sigs = Pair(c.pq, Strip(c))

\* Attributes encodeDreamBall writes.
Known(a) == a = [s \in Slots |-> a[s]] /\ \A s \in Slots : a[s] \subseteq Encoded[s]

GoodBall(c) ==
    IsBall(c) =>
        /\ Shape(c) /\ Marked(c) /\ Known(c.attrs)
        /\ Is(c, "json") => c.pq = None /\ \A s \in Slots : c.attrs[s] \subseteq Written[s]
        /\ Is(c, "ball") => Fresh(c)

\* A sealed file holds no other.
Inside(c) == GoodBall(c) /\ ~ Is(c, "sealed")

Good(c) ==
    /\ GoodBall(c)
    /\ Is(c, "sealed") => Inside(c.envelope) /\ \A a \in c.attachments : Inside(a)

\* What a command is to leave alone.
Keeps(op, read, edits, result) ==
    op \in {"grow", "export-json", "import-json"} =>
        \A s \in (IF op = "import-json" THEN {"plain", "look", "feel", "act", "coverage"}
                  ELSE Slots \ Replaced(edits)) :
            read.attrs[s] \ Lost(op) \subseteq result.attrs[s]

Signable(c) == Shape(c) /\ c.kind = "ball" /\ Known(c.attrs)

\* What a command is to sign, and what it is to write.
GoodJob(place, j) ==
    place # "idle" =>
        /\ JobShape(j) /\ j.out \in Paths
        /\ Keeps(j.op, j.read, j.edits, j.result)
        /\ IF place = "sign" THEN IF j.op = "transmit" THEN Receipt(j.result) ELSE Signable(j.result)
                             ELSE Good(j.result)

FInv ==
    /\ file = [p \in Paths |-> file[p]] /\ \A p \in Paths : Good(file[p])
    /\ at = [p \in Procs |-> at[p]] /\ job = [p \in Procs |-> job[p]]
    /\ \A p \in Procs : GoodJob(at[p], job[p])

-----------------------------------------------------------------------------
\* The slots of an envelope.
LEMMA SlotNames ==
    /\ Slots = {"plain", "look", "feel", "act", "memory", "graph", "register", "interactions",
                "policy", "coverage"}
    /\ Encoded = [s \in Slots |-> Encoded[s]]
BY DEF Slots, Encoded

\* What encodeDreamBall writes decodeDreamBall knows, but for the field kind.
LEMMA DecodesAll == \A s \in Slots : Encoded[s] \ {"field-kind"} \subseteq Decoded[s]
<1>1. Encoded["plain"] \ {"field-kind"} \subseteq Decoded["plain"]
  BY DEF Encoded, Decoded
<1>2. Encoded["look"] \subseteq Decoded["look"]
  BY DEF Encoded, Decoded, LookEncode, LookDecode, AssetEncode, AssetDecode
<1>3. Encoded["feel"] \subseteq Decoded["feel"]
  BY DEF Encoded, Decoded, FeelEncode, FeelDecode
<1>4. Encoded["act"] \subseteq Decoded["act"]
  BY DEF Encoded, Decoded, ActEncode, ActDecode, SkillEncode, SkillDecode, AssetEncode, AssetDecode
<1>5. Encoded["memory"] \subseteq Decoded["memory"]
  BY DEF Encoded, Decoded, MemoryEncode, MemoryDecode, MemoryItemEncode, MemoryItemDecode
<1>6. Encoded["graph"] \subseteq Decoded["graph"]
  BY DEF Encoded, Decoded, KnowledgeGraphEncode, KnowledgeGraphDecode
<1>7. Encoded["register"] \subseteq Decoded["register"]
  BY DEF Encoded, Decoded, EmotionalRegisterEncode, EmotionalRegisterDecode
<1>8. Encoded["interactions"] \subseteq Decoded["interactions"]
  BY DEF Encoded, Decoded, InteractionSetEncode, InteractionSetDecode, InteractionEncode, InteractionDecode
<1>9. Encoded["policy"] \subseteq Decoded["policy"]
  BY DEF Encoded, Decoded, GuildPolicyEncode, GuildPolicyDecode
<1>10. Encoded["coverage"] \subseteq Decoded["coverage"]
  BY DEF Encoded, Decoded, CoverageEncode, CoverageDecode, CoverageItemEncode, CoverageItemDecode
<1> QED
  BY <1>1, <1>2, <1>3, <1>4, <1>5, <1>6, <1>7, <1>8, <1>9, <1>10, SlotNames

\* What encodeDreamBall writes writeDreamBall renders, but for the field kind and
\* the archiform.
LEMMA WritesAll == \A s \in Slots : Encoded[s] \ {"field-kind", "archiform-fp"} \subseteq Written[s]
<1>1. Encoded["plain"] \ {"field-kind", "archiform-fp"} \subseteq Written["plain"]
  BY DEF Encoded, Written
<1>2. Encoded["look"] \subseteq Written["look"]
  BY DEF Encoded, Written, LookEncode, LookWrite, AssetEncode, AssetWrite
<1>3. Encoded["feel"] \subseteq Written["feel"]
  BY DEF Encoded, Written, FeelEncode, FeelWrite
<1>4. Encoded["act"] \subseteq Written["act"]
  BY DEF Encoded, Written, ActEncode, ActWrite, SkillEncode, SkillWrite, AssetEncode, AssetWrite
<1>5. Encoded["memory"] \subseteq Written["memory"]
  BY DEF Encoded, Written, MemoryEncode, MemoryWrite, MemoryItemEncode, MemoryItemWrite
<1>6. Encoded["graph"] \subseteq Written["graph"]
  BY DEF Encoded, Written, KnowledgeGraphEncode, KnowledgeGraphWrite
<1>7. Encoded["register"] \subseteq Written["register"]
  BY DEF Encoded, Written, EmotionalRegisterEncode, EmotionalRegisterWrite
<1>8. Encoded["interactions"] \subseteq Written["interactions"]
  BY DEF Encoded, Written, InteractionSetEncode, InteractionSetWrite, InteractionEncode, InteractionWrite
<1>9. Encoded["policy"] \subseteq Written["policy"]
  BY DEF Encoded, Written, GuildPolicyEncode, GuildPolicyWrite
<1>10. Encoded["coverage"] \subseteq Written["coverage"]
  BY DEF Encoded, Written, CoverageEncode, CoverageWrite, CoverageItemEncode, CoverageItemWrite
<1> QED
  BY <1>1, <1>2, <1>3, <1>4, <1>5, <1>6, <1>7, <1>8, <1>9, <1>10, SlotNames

\* What is rendered of the slots that are read back is read back whole.
LEMMA ReadsKnown ==
    \A s \in {"plain", "look", "feel", "act", "coverage"} : Written[s] \subseteq Read[s]
<1>1. Written["plain"] \subseteq Read["plain"]
  BY DEF Written, Read
<1>2. Written["look"] \subseteq Read["look"]
  BY DEF Written, Read, LookWrite, LookRead, AssetWrite, AssetRead
<1>3. Written["feel"] \subseteq Read["feel"]
  BY DEF Written, Read, FeelWrite, FeelRead
<1>4. Written["act"] \subseteq Read["act"]
  BY DEF Written, Read, ActWrite, ActRead, SkillWrite, SkillRead, AssetWrite, AssetRead
<1>5. Written["coverage"] \subseteq Read["coverage"]
  BY DEF Written, Read, CoverageWrite, CoverageRead, CoverageItemWrite, CoverageItemRead
<1> QED
  BY <1>1, <1>2, <1>3, <1>4, <1>5

\* A codec adds nothing.
LEMMA ThroughKnown ==
    ASSUME NEW a, Known(a), NEW codec
    PROVE  /\ Known(Through(a, codec))
           /\ \A s \in Slots : Through(a, codec)[s] = a[s] \cap codec[s]
BY DEF Known, Through

\* The options of grow and the guild of join-guild put in what encodeDreamBall
\* writes, and grow leaves the other slots.
LEMMA EditedKnown ==
    ASSUME NEW a, Known(a), NEW edits
    PROVE  /\ Known(Edited(a, edits))
           /\ \A s \in Slots \ Replaced(edits) : a[s] \subseteq Edited(a, edits)[s]
<1> DEFINE Slot(s, given) == IF given = {} THEN a[s] ELSE given
           plain == a.plain \cup {"updated"} \cup (edits \cap {"name"})
           feel  == Slot("feel", edits \cap {"personality", "voice"})
           act   == Slot("act", edits \cap {"model", "system-prompt"})
           look  == IF "look" \in edits THEN LookFile \cap LookRead ELSE a.look
           cover == IF "coverage" \in edits THEN CoverageFile \cap CoverageRead ELSE a.coverage
           r     == [a EXCEPT !.plain = plain, !.feel = feel, !.act = act, !.look = look, !.coverage = cover]
<1>1. Edited(a, edits) = r
  BY DEF Edited
<1>2. plain \subseteq Encoded.plain /\ a.plain \subseteq plain
  BY SlotNames DEF Known, Encoded
<1>3. feel \subseteq Encoded.feel /\ ("feel" \notin Replaced(edits) => a.feel \subseteq feel)
  BY SlotNames DEF Known, Encoded, FeelEncode, Replaced
<1>4. act \subseteq Encoded.act /\ ("act" \notin Replaced(edits) => a.act \subseteq act)
  BY SlotNames DEF Known, Encoded, ActEncode, Replaced
<1>5. look \subseteq Encoded.look /\ ("look" \notin Replaced(edits) => a.look \subseteq look)
  <2>1. LookRead \subseteq Encoded.look
    BY DEF Encoded, LookEncode, LookRead, AssetEncode, AssetRead
  <2>2. a.look \subseteq Encoded.look
    BY SlotNames DEF Known
  <2> QED
    BY <2>1, <2>2 DEF Replaced
<1>6. cover \subseteq Encoded.coverage /\ ("coverage" \notin Replaced(edits) => a.coverage \subseteq cover)
  <2>1. CoverageRead \subseteq Encoded.coverage
    BY DEF Encoded, CoverageEncode, CoverageRead, CoverageItemEncode, CoverageItemRead
  <2>2. a.coverage \subseteq Encoded.coverage
    BY SlotNames DEF Known
  <2> QED
    BY <2>1, <2>2 DEF Replaced
<1> HIDE DEF plain, feel, act, look, cover
<1>7. r = [s \in Slots |-> CASE s = "plain" -> plain [] s = "feel" -> feel [] s = "act" -> act
                             [] s = "look" -> look [] s = "coverage" -> cover [] OTHER -> a[s]]
  BY SlotNames DEF Known
<1> HIDE DEF r
<1>8. r = [s \in Slots |-> r[s]]
  BY <1>7
<1>9. \A s \in Slots : r[s] \subseteq Encoded[s] /\ (s \notin Replaced(edits) => a[s] \subseteq r[s])
  <2> TAKE s \in Slots
  <2>1. CASE s \in {"plain", "feel", "act", "look", "coverage"}
    BY <1>2, <1>3, <1>4, <1>5, <1>6, <1>7, <2>1
  <2>2. CASE s \notin {"plain", "feel", "act", "look", "coverage"}
    BY <1>7, <2>2 DEF Known
  <2> QED
    BY <2>1, <2>2
<1> QED
  BY <1>1, <1>8, <1>9 DEF Known

\* The slots of a new envelope, of a decoded subject and of a joined one.
LEMMA PlainKnown ==
    /\ Known(NoAttributes) /\ Known(Encoded)
    /\ \A named : Known([NoAttributes EXCEPT !.plain = {"created"} \cup (IF named THEN {"name"} ELSE {})])
    /\ Known([NoAttributes EXCEPT !.plain = @ \cup {"updated"}])
<1>1. Known(NoAttributes) /\ Known(Encoded)
  BY SlotNames DEF Known, NoAttributes
<1>2. ASSUME NEW x, x \subseteq Encoded.plain
      PROVE  Known([NoAttributes EXCEPT !.plain = x])
  BY <1>2, SlotNames DEF Known, NoAttributes
<1>3. /\ \A named : {"created"} \cup (IF named THEN {"name"} ELSE {}) \subseteq Encoded.plain
      /\ NoAttributes.plain \cup {"updated"} \subseteq Encoded.plain
  BY SlotNames DEF Encoded, NoAttributes
<1> QED
  BY <1>1, <1>2, <1>3
-----------------------------------------------------------------------------
\* What signEnvelope returns is signed as it is, by a key it carries.
LEMMA SignedGood ==
    ASSUME NEW c, Signable(c), NEW k \in Keys
    PROVE  Good(SignEnvelope(c, k)) /\ SignEnvelope(c, k).attrs = c.attrs
<1> DEFINE u == [c EXCEPT !.sigs = {}, !.pq = k]
           r == [u EXCEPT !.sigs = Pair(k, u)]
<1>1. SignEnvelope(c, k) = r
  BY DEF SignEnvelope, Pair
<1>2. Shape(u) /\ u.sigs = {} /\ u.pq = k /\ u.kind = "ball" /\ u.attrs = c.attrs /\ Known(c.attrs)
  BY DEF Signable, Shape, Record
<1> HIDE DEF u
<1>3. Shape(r) /\ r.pq = k /\ r.kind = "ball" /\ r.sigs = Pair(k, u) /\ r.attrs = c.attrs
  BY <1>2 DEF Shape, Record
<1>4. Strip(r) = u
  BY <1>2 DEF Shape, Record, Strip
<1> HIDE DEF r
<1>5. Marked(r)
  BY <1>2, <1>3, FileNoneAssumption DEF Marked, Pair
<1>6. Fresh(r)
  BY <1>3, <1>4 DEF Fresh
<1> QED
  BY <1>1, <1>2, <1>3, <1>5, <1>6 DEF Good, GoodBall, IsBall, Is

\* What is signed and sound is so when it is decoded, rendered or imported: a
\* rendering keeps the signatures and loses the key.
LEMMA DecodedShape ==
    ASSUME NEW c, Shape(c)
    PROVE  /\ Shape(DecodeDreamBall(c)) /\ DecodeDreamBall(c).kind = "ball"
           /\ DecodeDreamBall(c).attrs = Through(c.attrs, Decoded)
           /\ DecodeDreamBall(c).sigs = c.sigs /\ DecodeDreamBall(c).pq = c.pq
BY DEF Shape, Record, DecodeDreamBall

\* decodeDreamBallSubject drops attributes and signatures, and leaves a DreamBall.
LEMMA SubjectShape ==
    ASSUME NEW c, Shape(c)
    PROVE  /\ Shape(DecodeDreamBallSubject(c)) /\ DecodeDreamBallSubject(c).kind = "ball"
           /\ DecodeDreamBallSubject(c).attrs = NoAttributes
BY DEF Shape, Record, DecodeDreamBallSubject

\* A rendering has no ML-DSA-87 key, so the signatures it copies verify for nobody.
LEMMA RenderingGood ==
    ASSUME NEW c, Shape(c), Marked(c), Known(c.attrs)
    PROVE  Good(WriteDreamBall(c)) /\ WriteDreamBall(c).attrs = Through(c.attrs, Written)
<1> DEFINE r == WriteDreamBall(c)
<1>1. /\ Shape(r) /\ r.kind = "json" /\ r.pq = None /\ r.sigs = c.sigs
      /\ r.attrs = Through(c.attrs, Written)
  BY DEF Shape, Record, WriteDreamBall
<1> HIDE DEF r
<1>2. Marked(r) /\ Known(r.attrs) /\ \A s \in Slots : r.attrs[s] \subseteq Written[s]
  BY <1>1, ThroughKnown DEF Marked
<1>3. Good(r) /\ r.attrs = Through(c.attrs, Written)
  BY <1>1, <1>2 DEF Good, GoodBall, IsBall, Is
<1> QED
  BY <1>3 DEF r

\* An envelope read back from a rendering has none either.
LEMMA ImportedGood ==
    ASSUME NEW c, Shape(c), Marked(c), Known(c.attrs), c.pq = None
    PROVE  Good(DreamBallFromValue(c)) /\ DreamBallFromValue(c).attrs = Through(c.attrs, Read)
<1> DEFINE r == DreamBallFromValue(c)
<1>1. /\ Shape(r) /\ r.kind = "ball" /\ r.pq = None /\ r.sigs = c.sigs
      /\ r.attrs = Through(c.attrs, Read)
  BY DEF Shape, Record, DreamBallFromValue
<1> HIDE DEF r
<1>2. Marked(r) /\ Fresh(r) /\ Known(r.attrs)
  BY <1>1, ThroughKnown DEF Marked, Fresh
<1>3. Good(r) /\ r.attrs = Through(c.attrs, Read)
  BY <1>1, <1>2 DEF Good, GoodBall, IsBall, Is
<1> QED
  BY <1>3 DEF r

\* A mixed file is some envelope whose signatures say nothing.
LEMMA MixedGood ==
    ASSUME NEW c, Good(c), IsBall(c)
    PROVE  Good([c EXCEPT !.kind = "mixed"])
<1> DEFINE r == [c EXCEPT !.kind = "mixed"]
<1>1. Shape(c) /\ Marked(c) /\ Known(c.attrs)
  BY DEF Good, GoodBall
<1>2. Shape(r) /\ r.kind = "mixed" /\ r.sigs = c.sigs /\ r.attrs = c.attrs
  BY <1>1 DEF Shape, Record
<1> HIDE DEF r
<1>3. Good(r)
  BY <1>1, <1>2 DEF Good, GoodBall, IsBall, Is, Marked
<1> QED
  BY <1>3 DEF r

\* No file, and an empty one, hold no envelope.
LEMMA NothingGood == Good(None) /\ Good(Torn)
BY DEF Good, GoodBall, IsBall, Is

\* A new envelope has the fields of its record.
LEMMA SeedShape ==
    ASSUME NEW k, NEW typed, NEW named
    PROVE  Signable(Seed(k, typed, named))
<1> DEFINE x == [NoAttributes EXCEPT !.plain = {"created"} \cup (IF named THEN {"name"} ELSE {})]
           r == Seed(k, typed, named)
<1>1. Known(x)
  BY PlainKnown
<1> HIDE DEF x
<1>2. Shape(r) /\ r.kind = "ball" /\ r.attrs = x
  BY DEF Shape, Record, Seed, x
<1> QED
  BY <1>1, <1>2 DEF Signable

\* grow edits the attributes of the envelope, and leaves the slots its options do
\* not touch.
LEMMA GrownGood ==
    ASSUME NEW c, Signable(c), NEW edits
    PROVE  /\ Signable(Grown(c, edits))
           /\ \A s \in Slots \ Replaced(edits) : c.attrs[s] \subseteq Grown(c, edits).attrs[s]
<1> DEFINE r == Grown(c, edits)
<1>1. Shape(r) /\ r.kind = "ball" /\ r.attrs = Edited(c.attrs, edits)
  BY DEF Signable, Shape, Record, Grown
<1> HIDE DEF r
<1>2. Signable(r) /\ \A s \in Slots \ Replaced(edits) : c.attrs[s] \subseteq r.attrs[s]
  BY <1>1, EditedKnown DEF Signable
<1> QED
  BY <1>2 DEF r

\* join-guild adds a guild and a revision to the subject.
LEMMA JoinedGood ==
    ASSUME NEW c, Shape(c), NEW guild
    PROVE  Signable(Joined(DecodeDreamBallSubject(c), guild))
<1> DEFINE d == DecodeDreamBallSubject(c)
           r == Joined(d, guild)
           x == [NoAttributes EXCEPT !.plain = @ \cup {"updated"}]
<1>1. Shape(d) /\ d.kind = "ball" /\ d.attrs = NoAttributes
  BY SubjectShape
<1> HIDE DEF d
<1>2. Shape(r) /\ r.kind = "ball" /\ r.attrs = x
  BY <1>1 DEF Shape, Record, Joined
<1>3. Known(x)
  BY PlainKnown
<1> HIDE DEF x, r
<1> QED
  BY <1>2, <1>3 DEF Signable, d, r

\* Sealing, with or without an attachment.
LEMMA SealedGood ==
    ASSUME NEW e, Inside(e), NEW att, \A a \in att : Inside(a)
    PROVE  Good(WriteSealedFile(e, att))
<1> DEFINE r == WriteSealedFile(e, att)
<1>1. r.kind = "sealed" /\ r.envelope = e /\ r.attachments = att
  BY DEF WriteSealedFile
<1> HIDE DEF r
<1>2. Good(r)
  BY <1>1 DEF Good, GoodBall, IsBall, Is
<1> QED
  BY <1>2 DEF r

\* What may be sealed is what may be in a file by itself, but for a sealed file.
LEMMA InsideGood ==
    ASSUME NEW c
    PROVE  (Inside(c) => Good(c)) /\ (Good(c) /\ ~ Is(c, "sealed") => Inside(c))
BY DEF Inside, Good

\* A receipt is no envelope.
LEMMA ReceiptGood ==
    ASSUME NEW c, Receipt(c), NEW k
    PROVE  Good([c EXCEPT !.sender = k])
<1> DEFINE r == [c EXCEPT !.sender = k]
<1>1. r.kind = "receipt"
  BY DEF Receipt, Record
<1> HIDE DEF r
<1>2. Good(r)
  BY <1>1 DEF Good, GoodBall, IsBall, Is
<1> QED
  BY <1>2 DEF r

-----------------------------------------------------------------------------
\* The files that can be read, and the states of commands.
LEMMA FileFacts ==
    ASSUME FInv, NEW in \in Paths
    PROVE  /\ Good(file[in]) /\ Good(None) /\ Good(Torn)
           /\ Decodes(file[in]) => Shape(file[in]) /\ Marked(file[in]) /\ Known(file[in].attrs)
           /\ Is(file[in], "json") =>
                 /\ Shape(file[in]) /\ Marked(file[in]) /\ Known(file[in].attrs) /\ file[in].pq = None
                 /\ \A s \in Slots : file[in].attrs[s] \subseteq Written[s]
           /\ Is(file[in], "sealed") => /\ Inside(file[in].envelope)
                                         /\ \A a \in file[in].attachments : Inside(a)
           /\ ~ Is(file[in], "sealed") => Inside(file[in])
<1>1. Good(file[in])
  BY DEF FInv
<1> QED
  BY <1>1, NothingGood, InsideGood DEF Good, GoodBall, IsBall, Decodes

\* A process moves on, and what its command now holds is as it should be.
LEMMA JobStep ==
    ASSUME FInv, NEW p \in Procs, NEW place, NEW j, GoodJob(place, j),
           at' = [at EXCEPT ![p] = place], job' = [job EXCEPT ![p] = j],
           file' = [q \in Paths |-> file'[q]], \A q \in Paths : Good(file'[q])
    PROVE  FInv'
<1>1. /\ at' = [q \in Procs |-> IF q = p THEN place ELSE at[q]]
      /\ job' = [q \in Procs |-> IF q = p THEN j ELSE job[q]]
  BY DEF FInv
<1>2. ASSUME NEW q \in Procs
      PROVE  GoodJob(at'[q], job'[q])
  <2>1. CASE q = p
    BY <1>1, <2>1
  <2>2. CASE q # p
    <3>1. at'[q] = at[q] /\ job'[q] = job[q]
      BY <1>1, <2>2
    <3> QED
      BY <3>1 DEF FInv
  <2> QED
    BY <2>1, <2>2
<1>3. at' = [q \in Procs |-> at'[q]] /\ job' = [q \in Procs |-> job'[q]]
  BY <1>1
<1> QED
  BY <1>2, <1>3 DEF FInv

\* A command starts: nothing but its state changes.
LEMMA RunsStep ==
    ASSUME FInv, NEW p \in Procs, NEW op, NEW place \in {"sign", "open"}, NEW out \in Paths, NEW signer,
           NEW read, NEW edits, NEW result, Runs(p, op, place, out, signer, read, edits, result),
           Keeps(op, read, edits, result), place = "open" => Good(result),
           place = "sign" => IF op = "transmit" THEN Receipt(result) ELSE Signable(result)
    PROVE  FInv'
<1> DEFINE j == [op |-> op, out |-> out, signer |-> signer, read |-> read, edits |-> edits,
                 result |-> result]
<1>1. /\ at' = [at EXCEPT ![p] = place] /\ job' = [job EXCEPT ![p] = j] /\ UNCHANGED file
  BY DEF Runs
<1>2. /\ JobShape(j) /\ j.op = op /\ j.out = out /\ j.read = read /\ j.edits = edits
      /\ j.result = result
  BY DEF JobShape, Record
<1> HIDE DEF j
<1>3. GoodJob(place, j)
  BY <1>2 DEF GoodJob
<1>4. file' = [q \in Paths |-> file'[q]] /\ \A q \in Paths : Good(file'[q])
  BY <1>1 DEF FInv
<1> QED
  BY <1>1, <1>3, <1>4, JobStep

\* Whatever command starts, what it is to write is sound, or will be signed.
LEMMA CommandStep ==
    ASSUME FInv, NEW p \in Procs, NEW in \in Paths, NEW out \in Paths, Command(p, in, out)
    PROVE  FInv'
<1>0. \A op, read, edits, result :
          op \notin {"grow", "export-json", "import-json"} => Keeps(op, read, edits, result)
  BY DEF Keeps
<1>1. ASSUME NEW typed, NEW named, Mint(p, out, typed, named)
      PROVE  FInv'
  <2>1. PICK k \in Keys : Runs(p, "mint", "open", out, None, None, {},
                               SignEnvelope(Seed(k, typed, named), k))
    BY <1>1 DEF Mint
  <2>2. Good(SignEnvelope(Seed(k, typed, named), k))
    BY SeedShape, SignedGood
  <2> QED
    BY <1>0, <2>1, <2>2, RunsStep
<1>2. ASSUME NEW signer \in Paths, NEW edits \in Edits, Grow(p, in, out, signer, edits)
      PROVE  FInv'
  <2> DEFINE r == Grown(DecodeDreamBall(file[in]), edits)
  <2>1. Decodes(file[in]) /\ Runs(p, "grow", "sign", out, signer, file[in], edits, r)
    BY <1>2 DEF Grow
  <2> DEFINE d == DecodeDreamBall(file[in])
  <2>2. Signable(d) /\ d.attrs = Through(file[in].attrs, Decoded) /\ Known(file[in].attrs)
    BY <2>1, FileFacts, DecodedShape, ThroughKnown DEF Signable
  <2>3. \A s \in Slots : file[in].attrs[s] \ {"field-kind"} \subseteq d.attrs[s]
    <3>1. ASSUME NEW s \in Slots
          PROVE  /\ d.attrs[s] = file[in].attrs[s] \cap Decoded[s]
                 /\ file[in].attrs[s] \subseteq Encoded[s]
      BY <2>2, ThroughKnown DEF Known
    <3> QED
      BY <3>1, DecodesAll
  <2> HIDE DEF d
  <2>4. Signable(r) /\ \A s \in Slots \ Replaced(edits) : d.attrs[s] \subseteq r.attrs[s]
    BY <2>2, GrownGood DEF d
  <2> HIDE DEF r
  <2>5. Keeps("grow", file[in], edits, r)
    BY <2>3, <2>4 DEF Keeps, Lost
  <2> QED
    BY <2>1, <2>4, <2>5, RunsStep
<1>3. ASSUME NEW signer \in Paths, NEW guild \in Paths, JoinGuild(p, in, guild, out, signer)
      PROVE  FInv'
  <2> DEFINE r == Joined(DecodeDreamBallSubject(file[in]), file[guild].identity)
  <2>1. Decodes(file[in]) /\ Runs(p, "join-guild", "sign", out, signer, file[in], {}, r)
    BY <1>3 DEF JoinGuild
  <2>2. Signable(r)
    BY <2>1, FileFacts, JoinedGood
  <2> HIDE DEF r
  <2> QED
    BY <1>0, <2>1, <2>2, RunsStep
<1>4. CASE Seal(p, in, out)
  <2>1. Good(WriteSealedFile(file[in], {}))
    BY <1>4, FileFacts, SealedGood DEF Seal
  <2> QED
    BY <1>0, <1>4, <2>1, RunsStep DEF Seal, Writes
<1>5. CASE Unseal(p, in, out)
  <2>1. Good(file[in].envelope)
    BY <1>5, FileFacts, InsideGood DEF Unseal
  <2> QED
    BY <1>0, <1>5, <2>1, RunsStep DEF Unseal, Writes
<1>6. CASE Unlock(p, in, out)
  <2>1. PICK inner \in file[in].attachments : Writes(p, "unlock", out, file[in], inner)
    BY <1>6 DEF Unlock
  <2>2. Good(inner)
    BY <1>6, FileFacts, InsideGood DEF Unlock
  <2> QED
    BY <1>0, <2>1, <2>2, RunsStep DEF Writes
<1>7. ASSUME NEW guild \in Keys, SealRelic(p, in, out, guild)
      PROVE  FInv'
  <2> DEFINE relic == [kind |-> "relic", unlocks |-> guild]
  <2>1. relic.kind = "relic"
    OBVIOUS
  <2>2. ~ Is(file[in], "sealed") /\ Writes(p, "seal-relic", out, file[in], WriteSealedFile(relic, {file[in]}))
    BY <1>7 DEF SealRelic
  <2> HIDE DEF relic
  <2>3. Inside(relic)
    BY <2>1 DEF Inside, GoodBall, IsBall, Is
  <2>4. Good(WriteSealedFile(relic, {file[in]}))
    BY <2>2, <2>3, FileFacts, SealedGood
  <2> QED
    BY <1>0, <2>2, <2>4, RunsStep DEF Writes
<1>8. ASSUME NEW signer \in Paths, Transmit(p, in, out, signer)
      PROVE  FInv'
  <2> DEFINE r == [kind |-> "receipt", tool |-> file[in].identity, sender |-> None]
  <2>1. Runs(p, "transmit", "sign", out, signer, file[in], {}, r)
    BY <1>8 DEF Transmit
  <2>2. Receipt(r)
    BY DEF Receipt, Record
  <2> HIDE DEF r
  <2> QED
    BY <1>0, <2>1, <2>2, RunsStep
<1>9. CASE ExportJson(p, in, out)
  <2>1. Decodes(file[in]) /\ Writes(p, "export-json", out, file[in], WriteDreamBall(DecodeDreamBall(file[in])))
    BY <1>9 DEF ExportJson
  <2> DEFINE d == DecodeDreamBall(file[in])
             r == WriteDreamBall(d)
  <2>2. /\ Shape(d) /\ Marked(d) /\ Known(d.attrs) /\ Known(file[in].attrs)
        /\ d.attrs = Through(file[in].attrs, Decoded)
    BY <2>1, FileFacts, DecodedShape, ThroughKnown DEF Marked
  <2> HIDE DEF d
  <2>3. Good(r) /\ r.attrs = Through(d.attrs, Written)
    BY <2>2, RenderingGood
  <2> HIDE DEF r
  <2>4. ASSUME NEW s \in Slots
        PROVE  file[in].attrs[s] \ {"field-kind", "archiform-fp"} \subseteq r.attrs[s]
    <3>1. /\ d.attrs[s] = file[in].attrs[s] \cap Decoded[s] /\ r.attrs[s] = d.attrs[s] \cap Written[s]
          /\ file[in].attrs[s] \subseteq Encoded[s]
      BY <2>2, <2>3, ThroughKnown DEF Known
    <3> QED
      BY <3>1, DecodesAll, WritesAll
  <2>5. Keeps("export-json", file[in], {}, r)
    BY <2>4 DEF Keeps, Lost
  <2> QED
    BY <2>1, <2>3, <2>5, RunsStep DEF Writes, d, r
<1>10. CASE ImportJson(p, in, out)
  <2>1. Is(file[in], "json") /\ Writes(p, "import-json", out, file[in], DreamBallFromValue(file[in]))
    BY <1>10 DEF ImportJson, Imports
  <2> DEFINE r == DreamBallFromValue(file[in])
  <2>2. /\ Good(r) /\ r.attrs = Through(file[in].attrs, Read) /\ Known(file[in].attrs)
        /\ \A s \in Slots : file[in].attrs[s] \subseteq Written[s]
    BY <2>1, FileFacts, ImportedGood
  <2> HIDE DEF r
  <2>3. ASSUME NEW s \in {"plain", "look", "feel", "act", "coverage"}
        PROVE  file[in].attrs[s] \subseteq r.attrs[s]
    <3>1. s \in Slots
      BY SlotNames
    <3>2. r.attrs[s] = file[in].attrs[s] \cap Read[s] /\ file[in].attrs[s] \subseteq Written[s]
      BY <2>2, <3>1, ThroughKnown
    <3> QED
      BY <3>2, ReadsKnown
  <2>4. Keeps("import-json", file[in], {}, r)
    BY <2>3 DEF Keeps
  <2> QED
    BY <2>1, <2>2, <2>4, RunsStep DEF Writes, r
<1> QED
  BY <1>1, <1>2, <1>3, <1>4, <1>5, <1>6, <1>7, <1>8, <1>9, <1>10 DEF Command

\* A process whose command ends, or dies, holds nothing.
LEMMA StopsStep ==
    ASSUME FInv, NEW p \in Procs, Stops(p),
           file' = [q \in Paths |-> file'[q]], \A q \in Paths : Good(file'[q])
    PROVE  FInv'
<1>1. GoodJob("idle", None)
  BY DEF GoodJob
<1> QED
  BY <1>1, JobStep DEF Stops

\* The signature makes what was decoded and edited sound.
LEMMA SignStep ==
    ASSUME FInv, NEW p \in Procs, Sign(p)
    PROVE  FInv'
<1> DEFINE k == keyFile[job[p].signer]
           j == [job[p] EXCEPT !.result = Signed(p, k)]
<1>1. UNCHANGED file /\ at[p] = "sign"
  BY DEF Sign
<1>2. file' = [q \in Paths |-> file'[q]] /\ \A q \in Paths : Good(file'[q])
  BY <1>1 DEF FInv
<1>3. CASE k \in Keys
  <2>1. at' = [at EXCEPT ![p] = "open"] /\ job' = [job EXCEPT ![p].result = Signed(p, k)]
    BY <1>3 DEF Sign
  <2>2. /\ JobShape(job[p]) /\ job[p].out \in Paths
        /\ Keeps(job[p].op, job[p].read, job[p].edits, job[p].result)
        /\ IF job[p].op = "transmit" THEN Receipt(job[p].result) ELSE Signable(job[p].result)
    BY <1>1 DEF FInv, GoodJob
  <2>3. /\ Good(Signed(p, k))
        /\ job[p].op # "transmit" => Signed(p, k).attrs = job[p].result.attrs
    <3>1. CASE job[p].op = "transmit"
      BY <2>2, <3>1, ReceiptGood DEF Signed
    <3>2. CASE job[p].op # "transmit"
      BY <1>3, <2>2, <3>2, SignedGood DEF Signed
    <3> QED
      BY <3>1, <3>2
  <2> DEFINE x == Signed(p, k)
  <2> HIDE DEF x
  <2>4. /\ job' = [job EXCEPT ![p].result = x] /\ Good(x)
        /\ job[p].op # "transmit" => x.attrs = job[p].result.attrs
    BY <2>1, <2>3 DEF x
  <2> DEFINE y == [job[p] EXCEPT !.result = x]
  <2>5. /\ JobShape(y) /\ y.result = x /\ y.out = job[p].out /\ job' = [job EXCEPT ![p] = y]
        /\ y.op = job[p].op /\ y.read = job[p].read /\ y.edits = job[p].edits
    BY <2>2, <2>4 DEF JobShape, Record
  <2> HIDE DEF y
  <2>6. Keeps(y.op, y.read, y.edits, y.result)
    BY <2>2, <2>4, <2>5 DEF Keeps
  <2>7. GoodJob("open", y)
    BY <2>2, <2>4, <2>5, <2>6 DEF GoodJob
  <2> QED
    BY <1>2, <2>1, <2>5, <2>7, JobStep
<1>4. CASE k \notin Keys
  BY <1>2, <1>4, StopsStep DEF Sign
<1> QED
  BY <1>3, <1>4

\* A command that goes on without a change of what it holds.
LEMMA PlaceStep ==
    ASSUME FInv, NEW p \in Procs, NEW place \in {"write", "open key", "write key"},
           at[p] \in {"open", "write", "open key"}, at' = [at EXCEPT ![p] = place], UNCHANGED job,
           file' = [q \in Paths |-> file'[q]], \A q \in Paths : Good(file'[q])
    PROVE  FInv'
<1>1. GoodJob(at[p], job[p]) /\ job' = [job EXCEPT ![p] = job[p]]
  BY DEF FInv
<1>2. GoodJob(place, job[p])
  BY <1>1 DEF GoodJob
<1> QED
  BY <1>1, <1>2, JobStep

\* One file is written with something sound.
LEMMA WriteSound ==
    ASSUME FInv, NEW out, NEW c, Good(c), file' = [file EXCEPT ![out] = c]
    PROVE  file' = [q \in Paths |-> file'[q]] /\ \A q \in Paths : Good(file'[q])
<1>1. file' = [q \in Paths |-> IF q = out THEN c ELSE file[q]]
  BY DEF FInv
<1>2. \A q \in Paths : file'[q] = IF q = out THEN c ELSE file[q]
  BY <1>1
<1>3. file' = [q \in Paths |-> file'[q]]
  BY <1>1
<1> QED
  BY <1>2, <1>3 DEF FInv

\* The output is empty between its truncation and its first byte.
LEMMA OpenStep ==
    ASSUME FInv, NEW p \in Procs, Open(p)
    PROVE  FInv'
<1>1. /\ at[p] = "open" /\ at' = [at EXCEPT ![p] = "write"] /\ UNCHANGED job
      /\ file' = [file EXCEPT ![job[p].out] = Torn]
  BY DEF Open
<1>2. file' = [q \in Paths |-> file'[q]] /\ \A q \in Paths : Good(file'[q])
  BY <1>1, NothingGood, WriteSound
<1> QED
  BY <1>1, <1>2, PlaceStep

\* What is written is what the command holds or, where two wrote at the same
\* time, pieces of two sound envelopes.
LEMMA WriteStep ==
    ASSUME FInv, NEW p \in Procs, Write(p)
    PROVE  FInv'
<1> DEFINE new == job[p].result
           old == file[job[p].out]
<1>1. at[p] = "write" /\ Good(new) /\ job[p].out \in Paths
  BY DEF Write, FInv, GoodJob
<1>2. Good(old)
  BY <1>1, FileFacts
<1>3. PICK c \in {new} \cup (IF p \in clash THEN Mixtures(new, old) ELSE {}) :
          file' = [file EXCEPT ![job[p].out] = c]
  BY DEF Write
<1> HIDE DEF new, old
<1>4. Good(c)
  <2>1. c = new \/ c \in Mixtures(new, old)
    BY <1>3
  <2>2. CASE c \in Mixtures(new, old)
    <3>1. \/ c = Torn
          \/ /\ IsBall(new) /\ IsBall(old)
             /\ c = [new EXCEPT !.kind = "mixed"] \/ c = [old EXCEPT !.kind = "mixed"]
      BY <2>2 DEF Mixtures, IsBall, Decodes
    <3> QED
      BY <3>1, <1>1, <1>2, NothingGood, MixedGood
  <2> QED
    BY <2>1, <2>2, <1>1
<1>5. file' = [q \in Paths |-> file'[q]] /\ \A q \in Paths : Good(file'[q])
  BY <1>3, <1>4, WriteSound
<1>6. CASE job[p].op = "mint"
  <2>1. at' = [at EXCEPT ![p] = "open key"] /\ UNCHANGED job
    BY <1>6 DEF Write
  <2> QED
    BY <1>1, <1>5, <2>1, PlaceStep
<1>7. CASE job[p].op # "mint"
  BY <1>5, <1>7, StopsStep DEF Write
<1> QED
  BY <1>6, <1>7

\* Every step of every process preserves the invariant.
LEMMA FileSteps ==
    ASSUME FInv, [Next]_vars
    PROVE  FInv'
<1>1. ASSUME UNCHANGED file
      PROVE  file' = [q \in Paths |-> file'[q]] /\ \A q \in Paths : Good(file'[q])
  BY <1>1 DEF FInv
<1>2. ASSUME NEW p \in Procs,
             \/ \E in, out \in Paths : Command(p, in, out)
             \/ Sign(p) \/ Open(p) \/ Write(p) \/ OpenKey(p) \/ WriteKey(p) \/ Die(p)
      PROVE  FInv'
  <2>1. CASE \E in, out \in Paths : Command(p, in, out)
    BY <2>1, CommandStep
  <2>2. CASE Sign(p) \/ Open(p) \/ Write(p)
    BY <2>2, SignStep, OpenStep, WriteStep
  <2>3. CASE OpenKey(p)
    <3>1. at[p] = "open key" /\ at' = [at EXCEPT ![p] = "write key"] /\ UNCHANGED <<job, file>>
      BY <2>3 DEF OpenKey
    <3> QED
      BY <1>1, <3>1, PlaceStep
  <2>4. CASE WriteKey(p)
    BY <1>1, <2>4, StopsStep DEF WriteKey
  <2>5. CASE Die(p)
    BY <1>1, <2>5, StopsStep DEF Die
  <2> QED
    BY <1>2, <2>1, <2>2, <2>3, <2>4, <2>5
<1>3. CASE UNCHANGED vars
  <2>1. UNCHANGED <<file, at, job>>
    BY <1>3 DEF vars
  <2> QED
    BY <2>1 DEF FInv
<1> QED
  BY <1>2, <1>3 DEF Next

-----------------------------------------------------------------------------
\* Every envelope on disk, inside a sealed file or about to be written is
\* unsigned, without its ML-DSA-87 key, or signed as it is by the key it carries,
\* and its attributes are such as encodeDreamBall writes.
THEOREM FileInvariant == Spec => []FInv
<1>1. Init => FInv
  <2> SUFFICES ASSUME Init PROVE FInv
    OBVIOUS
  <2>1. PICK typed \in BOOLEAN :
          file = [p \in Paths |->
                    IF p = GivenPath
                    THEN SignEnvelope([Seed(GivenKey, typed, TRUE) EXCEPT !.attrs = Encoded], GivenKey)
                    ELSE None]
    BY DEF Init
  <2> DEFINE seed == [Seed(GivenKey, typed, TRUE) EXCEPT !.attrs = Encoded]
             ball == SignEnvelope(seed, GivenKey)
  <2>2. Signable(seed)
    <3> DEFINE c == Seed(GivenKey, typed, TRUE)
    <3>1. Shape(c) /\ c.kind = "ball"
      BY SeedShape DEF Signable
    <3> HIDE DEF c
    <3>2. Shape([c EXCEPT !.attrs = Encoded]) /\ [c EXCEPT !.attrs = Encoded].kind = "ball"
          /\ [c EXCEPT !.attrs = Encoded].attrs = Encoded
      BY <3>1 DEF Shape, Record
    <3> QED
      BY <3>2, PlainKnown DEF Signable, c
  <2> HIDE DEF seed
  <2>3. Good(ball)
    BY <2>2, SignedGood, FileGivenAssumption
  <2>4. file = [p \in Paths |-> IF p = GivenPath THEN ball ELSE None]
    BY <2>1 DEF seed
  <2> HIDE DEF ball
  <2>5. file = [p \in Paths |-> file[p]] /\ \A p \in Paths : Good(file[p])
    BY <2>3, <2>4, NothingGood
  <2>6. /\ at = [p \in Procs |-> at[p]] /\ job = [p \in Procs |-> job[p]]
        /\ \A p \in Procs : GoodJob(at[p], job[p])
    BY DEF Init, GoodJob
  <2> QED
    BY <2>5, <2>6 DEF FInv
<1>2. FInv /\ [Next]_vars => FInv'
  BY FileSteps
<1> QED
  BY <1>1, <1>2, PTL DEF Spec

\* A sound envelope verifies exactly when the key it carries is its own.
LEMMA FreshVerifies ==
    ASSUME NEW b, Shape(b), Marked(b), Fresh(b)
    PROVE  Verify(b) <=> Signers(b) = {b.identity} /\ b.pq # None
<1>1. Strip(b).pq = b.pq
  BY DEF Strip, Shape, Record
<1>2. CASE b.sigs = {}
  BY <1>2 DEF Verify, Signers
<1>3. CASE b.pq = None
  <2>1. \A s \in b.sigs : s.over # Strip(b)
    BY <1>1, <1>3 DEF Marked
  <2> QED
    BY <1>3, <2>1 DEF Verify
<1>4. CASE b.sigs = Pair(b.pq, Strip(b)) /\ b.pq # None
  <2> DEFINE first == [alg |-> "ed25519", key |-> b.pq, over |-> Strip(b)]
  <2>1. \A s \in b.sigs : s.key = b.pq /\ s.over = Strip(b)
    BY <1>4 DEF Pair
  <2>2. first \in b.sigs /\ first.alg = "ed25519" /\ first.key = b.pq
    BY <1>4 DEF Pair
  <2> HIDE DEF first
  <2>3. Signers(b) = {b.pq}
    BY <2>1, <2>2 DEF Signers
  <2>4. Verify(b) <=> b.pq = b.identity
    BY <2>1, <2>2 DEF Verify
  <2> QED
    BY <1>4, <2>3, <2>4
<1> QED
  BY <1>2, <1>3, <1>4 DEF Fresh

\* An envelope passes `verify` exactly when the key of its own identity signed it
\* and it still carries the ML-DSA-87 half of that key, for any files, keys,
\* processes, commands and deaths.
THEOREM FileVerifiesIffOwned == Spec => []VerifiesIffOwned
<1>1. FInv => VerifiesIffOwned
  BY FreshVerifies DEF FInv, Good, GoodBall, IsBall, VerifiesIffOwned
<1> QED
  BY <1>1, FileInvariant, PTL

\* The slots a command is to leave alone reach its output, through every codec on
\* the way and its signature, for any attributes, options and documents.
THEOREM FileFieldsSurvive == Spec => []FieldsSurvive
<1>1. FInv => FieldsSurvive
  BY DEF FInv, GoodJob, Keeps, FieldsSurvive
<1> QED
  BY <1>1, FileInvariant, PTL

-----------------------------------------------------------------------------
(***************************************************************************)
(* Types.  A command that signs holds an envelope or a receipt, and a      *)
(* command that writes a key file holds the envelope it minted.            *)
(***************************************************************************)
Places == {"idle", "sign", "open", "write", "open key", "write key"}

Receipts == [kind : {"receipt"}, tool : Keys, sender : Keys \cup {None}]

Holds(place, op, result) ==
    /\ op = "mint" => result \in DreamBalls
    /\ place = "sign" => IF op = "transmit" THEN result \in Receipts
                         ELSE result \in DreamBalls /\ result.kind = "ball"
    /\ place \in {"open key", "write key"} => op = "mint"

TInv == TypeOK /\ \A p \in Procs : at[p] # "idle" => /\ job[p] \in Jobs
                                                     /\ Holds(at[p], job[p].op, job[p].result)

Contained == Plain \cup Sealed \cup {None}

\* What can be decoded or imported is an envelope.
LEMMA BallType ==
    ASSUME NEW c \in Contained
    PROVE  /\ Decodes(c) \/ Is(c, "json") => c \in DreamBalls
           /\ Is(c, "sealed") => c \in Sealed
           /\ c # None /\ ~ Is(c, "sealed") => c \in Plain
<1>1. ASSUME c # None, c # Torn
      PROVE  \/ c \in DreamBalls /\ c.kind \in {"ball", "mixed", "json"}
             \/ c \in Plain /\ c.kind = "receipt"
             \/ c \in Plain /\ c.kind = "relic"
             \/ c \in Sealed /\ c.kind = "sealed"
  BY <1>1 DEF Contained, Plain, DreamBalls, Sealed
<1>2. DreamBalls \subseteq Plain /\ Torn \in Plain
  BY DEF Plain
<1> QED
  BY <1>1, <1>2 DEF Decodes, Is

\* The attributes of the options of grow are attributes.
LEMMA AttributeNames ==
    /\ \A s \in Slots : Encoded[s] \subseteq Fields
    /\ LookRead \subseteq Fields /\ CoverageRead \subseteq Fields
    /\ {"created", "updated", "name", "personality", "voice", "model", "system-prompt"} \subseteq Fields
<1>1. \A s \in Slots : Encoded[s] \subseteq Fields
  BY DEF Fields
<1>2. LookRead \subseteq Encoded["look"]
  BY DEF LookRead, LookEncode, AssetRead, AssetEncode, Encoded
<1>3. CoverageRead \subseteq Encoded["coverage"]
  BY DEF CoverageRead, CoverageEncode, CoverageItemRead, CoverageItemEncode, Encoded
<1>4. /\ {"created", "updated", "name"} \subseteq Encoded["plain"]
      /\ {"personality", "voice"} \subseteq Encoded["feel"]
      /\ {"model", "system-prompt"} \subseteq Encoded["act"]
  BY DEF Encoded, FeelEncode, ActEncode
<1> QED
  BY <1>1, <1>2, <1>3, <1>4, SlotNames

\* What the codecs and the options of grow make of attributes.
LEMMA AttributesType ==
    ASSUME NEW attrs \in [Slots -> SUBSET Fields]
    PROVE  /\ \A codec : Through(attrs, codec) \in [Slots -> SUBSET Fields]
           /\ \A edits \in SUBSET Options : Edited(attrs, edits) \in [Slots -> SUBSET Fields]
           /\ [attrs EXCEPT !.plain = @ \cup {"updated"}] \in [Slots -> SUBSET Fields]
           /\ NoAttributes \in [Slots -> SUBSET Fields]
<1>1. \A codec : Through(attrs, codec) \in [Slots -> SUBSET Fields]
  BY DEF Through
<1>2. ASSUME NEW edits \in SUBSET Options
      PROVE  Edited(attrs, edits) \in [Slots -> SUBSET Fields]
  <2> DEFINE Slot(s, given) == IF given = {} THEN attrs[s] ELSE given
             plain == attrs.plain \cup {"updated"} \cup (edits \cap {"name"})
             feel  == Slot("feel", edits \cap {"personality", "voice"})
             act   == Slot("act", edits \cap {"model", "system-prompt"})
             look  == IF "look" \in edits THEN LookFile \cap LookRead ELSE attrs.look
             cover == IF "coverage" \in edits THEN CoverageFile \cap CoverageRead ELSE attrs.coverage
  <2>1. /\ plain \in SUBSET Fields /\ feel \in SUBSET Fields /\ act \in SUBSET Fields
        /\ look \in SUBSET Fields /\ cover \in SUBSET Fields
    BY SlotNames, AttributeNames
  <2>2. Edited(attrs, edits) = [attrs EXCEPT !.plain = plain, !.feel = feel, !.act = act, !.look = look,
                                             !.coverage = cover]
    BY SlotNames DEF Edited
  <2> HIDE DEF plain, feel, act, look, cover
  <2> QED
    BY <2>1, <2>2
<1>3. [attrs EXCEPT !.plain = @ \cup {"updated"}] \in [Slots -> SUBSET Fields]
  BY SlotNames, AttributeNames
<1>4. NoAttributes \in [Slots -> SUBSET Fields]
  BY DEF NoAttributes
<1> QED
  BY <1>1, <1>2, <1>3, <1>4

\* A signed envelope is one.
LEMMA SignedType ==
    ASSUME NEW b \in DreamBalls, b.kind = "ball", NEW k \in Keys
    PROVE  SignEnvelope(b, k) \in DreamBalls
<1> DEFINE u == [b EXCEPT !.sigs = {}, !.pq = k]
           s == {[alg |-> a, key |-> k, over |-> u] : a \in {"ed25519", "ml-dsa-87"}}
<1>1. u \in Unsigned /\ u \in DreamBalls
  BY DEF DreamBalls, Unsigned
<1>2. SignEnvelope(b, k) = [u EXCEPT !.sigs = s]
  BY DEF SignEnvelope
<1> HIDE DEF u
<1>3. s \subseteq Signatures
  BY <1>1 DEF Signatures
<1> HIDE DEF s
<1> QED
  BY <1>1, <1>2, <1>3 DEF DreamBalls

\* What the commands make of an envelope.
LEMMA ResultType ==
    ASSUME NEW c \in DreamBalls
    PROVE  /\ \A edits \in SUBSET Options :
                 /\ Grown(DecodeDreamBall(c), edits) \in DreamBalls
                 /\ Grown(DecodeDreamBall(c), edits).kind = "ball"
           /\ \A guild \in Keys : /\ Joined(DecodeDreamBallSubject(c), guild) \in DreamBalls
                                  /\ Joined(DecodeDreamBallSubject(c), guild).kind = "ball"
           /\ WriteDreamBall(DecodeDreamBall(c)) \in DreamBalls
           /\ DreamBallFromValue(c) \in DreamBalls
           /\ [c EXCEPT !.kind = "mixed"] \in DreamBalls
<1>0. /\ c.attrs \in [Slots -> SUBSET Fields] /\ c.rev \in Nat /\ c.stage \in Stages
      /\ c.guilds \in SUBSET Keys
  BY DEF DreamBalls
<1>1. DecodeDreamBall(c) \in DreamBalls /\ DecodeDreamBall(c).kind = "ball"
  <2>1. PICK a : a = Through(c.attrs, Decoded)
    OBVIOUS
  <2>2. a \in [Slots -> SUBSET Fields] /\ DecodeDreamBall(c) = [c EXCEPT !.kind = "ball", !.attrs = a]
    BY <1>0, <2>1, AttributesType DEF DecodeDreamBall
  <2> QED
    BY <2>2 DEF DreamBalls
<1>2. DecodeDreamBallSubject(c) \in DreamBalls /\ DecodeDreamBallSubject(c).kind = "ball"
  BY <1>0, AttributesType DEF DecodeDreamBallSubject, DreamBalls
<1>3. ASSUME NEW b \in DreamBalls, b.kind = "ball", NEW edits \in SUBSET Options
      PROVE  Grown(b, edits) \in DreamBalls /\ Grown(b, edits).kind = "ball"
  <2>1. b.attrs \in [Slots -> SUBSET Fields] /\ b.rev \in Nat /\ b.stage \in Stages
    BY DEF DreamBalls
  <2>2. PICK a, n, g : /\ a = Edited(b.attrs, edits)
                       /\ n = (IF "revision-bump" \in edits THEN b.rev + 1 ELSE b.rev)
                       /\ g = (IF "dragonball" \in edits THEN "dragonball"
                               ELSE IF "dreamball" \in edits \/ b.stage = "seed"
                               THEN "dreamball" ELSE b.stage)
    OBVIOUS
  <2>3. a \in [Slots -> SUBSET Fields]
    BY <2>1, <2>2, AttributesType
  <2>4. n \in Nat
    BY <2>1, <2>2
  <2>5. g \in Stages
    BY <2>1, <2>2 DEF Stages
  <2>6. Grown(b, edits) = [b EXCEPT !.attrs = a, !.rev = n, !.stage = g]
    BY <2>2 DEF Grown, DreamBalls
  <2> QED
    BY <1>3, <2>3, <2>4, <2>5, <2>6 DEF DreamBalls
<1>4. ASSUME NEW b \in DreamBalls, b.kind = "ball", NEW guild \in Keys
      PROVE  Joined(b, guild) \in DreamBalls /\ Joined(b, guild).kind = "ball"
  <2>1. b.attrs \in [Slots -> SUBSET Fields] /\ b.rev \in Nat /\ b.guilds \in SUBSET Keys
    BY DEF DreamBalls
  <2>2. PICK a, n, g : /\ a = [b.attrs EXCEPT !.plain = @ \cup {"updated"}]
                       /\ n = b.rev + 1 /\ g = b.guilds \cup {guild}
    OBVIOUS
  <2>3. a \in [Slots -> SUBSET Fields] /\ n \in Nat /\ g \in SUBSET Keys
    BY <2>1, <2>2, AttributesType
  <2>4. Joined(b, guild) = [b EXCEPT !.guilds = g, !.rev = n, !.attrs = a]
    BY <2>2 DEF Joined, DreamBalls
  <2> QED
    BY <1>4, <2>3, <2>4 DEF DreamBalls
<1>5. ASSUME NEW b \in DreamBalls
      PROVE  WriteDreamBall(b) \in DreamBalls /\ DreamBallFromValue(b) \in DreamBalls
  <2>1. b.attrs \in [Slots -> SUBSET Fields]
    BY DEF DreamBalls
  <2>2. PICK w, r : w = Through(b.attrs, Written) /\ r = Through(b.attrs, Read)
    OBVIOUS
  <2>3. /\ w \in [Slots -> SUBSET Fields] /\ r \in [Slots -> SUBSET Fields]
        /\ WriteDreamBall(b) = [b EXCEPT !.kind = "json", !.pq = None, !.attrs = w]
        /\ DreamBallFromValue(b) = [b EXCEPT !.kind = "ball", !.attrs = r, !.guilds = {}]
    BY <2>1, <2>2, AttributesType DEF WriteDreamBall, DreamBallFromValue
  <2>4. [b EXCEPT !.kind = "json", !.pq = None, !.attrs = w] \in DreamBalls
    BY <2>3 DEF DreamBalls
  <2>5. [b EXCEPT !.kind = "ball", !.attrs = r, !.guilds = {}] \in DreamBalls
    BY <2>3 DEF DreamBalls
  <2> QED
    BY <2>3, <2>4, <2>5
<1>6. [c EXCEPT !.kind = "mixed"] \in DreamBalls
  BY DEF DreamBalls
<1> QED
  BY <1>1, <1>2, <1>3, <1>4, <1>5, <1>6

\* The types of what the argument uses.
LEMMA TypeFacts ==
    ASSUME TInv
    PROVE  /\ file \in [Paths -> Contained] /\ keyFile \in [Paths -> Keys \cup {None, Torn}]
           /\ minted \in SUBSET Keys /\ clash \in SUBSET Procs
           /\ ran \in 0 .. MaxCommands /\ deaths \in 0 .. MaxDeaths
           /\ \A p \in Procs : at[p] # "idle" => /\ job[p] \in Jobs
                                                 /\ Holds(at[p], job[p].op, job[p].result)
           /\ at \in [Procs -> Places] /\ job \in [Procs -> Jobs \cup {None}]
           /\ "idle" \in Places /\ "sign" \in Places /\ "open" \in Places /\ "write" \in Places
BY DEF TInv, TypeOK, Contained, Places

\* A process moves on.
LEMMA TypeGoes ==
    ASSUME TInv, NEW p \in Procs,
           NEW place \in Places,
           NEW j \in Jobs \cup {None},
           at' = [at EXCEPT ![p] = place], job' = [job EXCEPT ![p] = j],
           place # "idle" => j \in Jobs /\ Holds(place, j.op, j.result),
           file' \in [Paths -> Contained], keyFile' \in [Paths -> Keys \cup {None, Torn}],
           minted' \in SUBSET Keys, clash' \in SUBSET Procs,
           ran' \in 0 .. MaxCommands, deaths' \in 0 .. MaxDeaths
    PROVE  TInv'
<1>1. /\ at \in [Procs -> Places] /\ job \in [Procs -> Jobs \cup {None}]
  BY TypeFacts
<1>2. TypeOK'
  <2>1. at' \in [Procs -> Places] /\ job' \in [Procs -> Jobs \cup {None}]
    BY <1>1
  <2> QED
    BY <2>1 DEF TypeOK, Contained, Places
<1>3. ASSUME NEW q \in Procs, at'[q] # "idle"
      PROVE  job'[q] \in Jobs /\ Holds(at'[q], job'[q].op, job'[q].result)
  <2>1. CASE q = p
    BY <1>1, <1>3, <2>1
  <2>2. CASE q # p
    <3>1. at'[q] = at[q] /\ job'[q] = job[q]
      BY <1>1, <2>2
    <3> QED
      BY <1>3, <3>1 DEF TInv
  <2> QED
    BY <2>1, <2>2
<1> QED
  BY <1>2, <1>3 DEF TInv

\* A command goes on with what it holds, or ends.
LEMMA TypeStays ==
    ASSUME TInv, NEW p \in Procs, NEW place \in Places, at[p] # "idle",
           at' = [at EXCEPT ![p] = place], UNCHANGED <<job, minted, ran, deaths>>,
           Holds(place, job[p].op, job[p].result), clash' \in SUBSET Procs,
           file' \in [Paths -> Contained], keyFile' \in [Paths -> Keys \cup {None, Torn}]
    PROVE  TInv'
<1>1. job[p] \in Jobs /\ job' = [job EXCEPT ![p] = job[p]]
  BY TypeFacts
<1> QED
  BY <1>1, TypeFacts, TypeGoes

LEMMA TypeStops ==
    ASSUME TInv, NEW p \in Procs, Stops(p), UNCHANGED <<minted, ran>>, clash' \in SUBSET Procs,
           file' \in [Paths -> Contained], keyFile' \in [Paths -> Keys \cup {None, Torn}],
           deaths' \in 0 .. MaxDeaths
    PROVE  TInv'
<1>1. at' = [at EXCEPT ![p] = "idle"] /\ job' = [job EXCEPT ![p] = None]
  BY DEF Stops
<1>2. minted' \in SUBSET Keys /\ ran' \in 0 .. MaxCommands
  BY TypeFacts
<1> QED
  BY <1>1, <1>2, TypeFacts, TypeGoes

\* A command starts.
LEMMA TypeRuns ==
    ASSUME TInv, NEW p \in Procs, NEW place \in {"sign", "open"},
           NEW op \in {"mint", "grow", "join-guild", "seal", "seal-relic", "unseal", "unlock",
                       "transmit", "export-json", "import-json"},
           NEW out \in Paths, NEW signer \in Paths \cup {None}, NEW read \in Contained,
           NEW edits \in SUBSET Options, NEW result \in Plain \cup Sealed,
           Holds(place, op, result), Runs(p, op, place, out, signer, read, edits, result),
           minted' \in SUBSET Keys
    PROVE  TInv'
<1> DEFINE j == [op |-> op, out |-> out, signer |-> signer, read |-> read, edits |-> edits,
                 result |-> result]
<1>1. /\ at' = [at EXCEPT ![p] = place] /\ job' = [job EXCEPT ![p] = j]
      /\ ran < MaxCommands /\ ran' = ran + 1 /\ UNCHANGED <<file, keyFile, clash, deaths>>
  BY DEF Runs
<1>2. j \in Jobs /\ j.op = op /\ j.result = result
  BY DEF Jobs, Contained
<1> HIDE DEF j
<1>3. ran' \in 0 .. MaxCommands
  BY <1>1, FileBoundsAssumption, TypeFacts
<1> QED
  BY <1>1, <1>2, <1>3, TypeFacts, TypeGoes

\* Whatever command starts.
LEMMA TypeCommands ==
    ASSUME TInv, NEW p \in Procs, NEW in \in Paths, NEW out \in Paths, Command(p, in, out)
    PROVE  TInv'
<1>0. /\ file[in] \in Contained /\ \A g \in Paths : file[g] \in Contained
      /\ None \in Contained /\ minted \in SUBSET Keys /\ {} \in SUBSET Options
      /\ DreamBalls \subseteq Plain /\ Receipts \subseteq Plain
  BY TypeFacts DEF Contained, Plain, Receipts
<1>1. \A place \in {"sign", "open"} : \A op, result :
         place = "open" /\ op # "mint" => Holds(place, op, result)
  BY DEF Holds
<1>2. ASSUME NEW typed \in BOOLEAN, NEW named \in BOOLEAN, Mint(p, out, typed, named)
      PROVE  TInv'
  <2>1. PICK k \in Keys : /\ Runs(p, "mint", "open", out, None, None, {},
                                  SignEnvelope(Seed(k, typed, named), k))
                          /\ minted' = minted \cup {k}
    BY <1>2 DEF Mint
  <2>2. PICK a : a = [NoAttributes EXCEPT !.plain = {"created"} \cup (IF named THEN {"name"} ELSE {})]
    OBVIOUS
  <2>3. a \in [Slots -> SUBSET Fields]
    <3>1. {"created"} \cup (IF named THEN {"name"} ELSE {}) \in SUBSET Fields
      BY AttributeNames
    <3> QED
      BY <2>2, <3>1, SlotNames DEF NoAttributes
  <2>4. Seed(k, typed, named) \in DreamBalls /\ Seed(k, typed, named).kind = "ball"
    BY <2>2, <2>3 DEF Seed, DreamBalls, Stages
  <2>5. PICK r : r = SignEnvelope(Seed(k, typed, named), k)
    OBVIOUS
  <2>6. r \in DreamBalls /\ r \in Plain
    BY <1>0, <2>4, <2>5, SignedType
  <2>7. Holds("open", "mint", r)
    BY <2>6 DEF Holds
  <2> QED
    BY <1>0, <2>1, <2>5, <2>6, <2>7, TypeRuns
<1>3. ASSUME NEW op \in {"grow", "join-guild"}, NEW signer \in Paths, NEW edits \in SUBSET Options,
             NEW r \in DreamBalls, r.kind = "ball",
             Runs(p, op, "sign", out, signer, file[in], edits, r), UNCHANGED minted
      PROVE  TInv'
  <2>1. Holds("sign", op, r)
    BY <1>3 DEF Holds
  <2> QED
    BY <1>0, <1>3, <2>1, TypeRuns
<1>4. ASSUME NEW op \in {"seal", "seal-relic", "unseal", "unlock", "export-json", "import-json"},
             NEW r \in Plain \cup Sealed, Writes(p, op, out, file[in], r)
      PROVE  TInv'
  <2>1. Runs(p, op, "open", out, None, file[in], {}, r) /\ UNCHANGED minted
    BY <1>4 DEF Writes
  <2>2. Holds("open", op, r)
    BY <1>1
  <2> QED
    BY <1>0, <2>1, <2>2, TypeRuns
<1>5. ASSUME NEW signer \in Paths, NEW edits \in Edits, Grow(p, in, out, signer, edits)
      PROVE  TInv'
  <2>1. file[in] \in DreamBalls /\ edits \in SUBSET Options
    BY <1>0, <1>5, BallType, FileEditsAssumption DEF Grow
  <2> QED
    BY <1>3, <1>5, <2>1, ResultType DEF Grow
<1>6. ASSUME NEW signer \in Paths, NEW guild \in Paths, JoinGuild(p, in, guild, out, signer)
      PROVE  TInv'
  <2>1. file[in] \in DreamBalls /\ file[guild] \in DreamBalls
    BY <1>0, <1>6, BallType DEF JoinGuild
  <2>2. file[guild].identity \in Keys
    BY <2>1 DEF DreamBalls
  <2> QED
    BY <1>0, <1>3, <1>6, <2>1, <2>2, ResultType DEF JoinGuild
<1>7. CASE Seal(p, in, out) \/ \E guild \in Keys : SealRelic(p, in, out, guild)
  <2>1. file[in] \in Plain
    BY <1>0, <1>7, BallType DEF Seal, SealRelic
  <2>2. WriteSealedFile(file[in], {}) \in Sealed
    BY <2>1 DEF WriteSealedFile, Sealed
  <2>3. ASSUME NEW guild \in Keys
        PROVE  WriteSealedFile([kind |-> "relic", unlocks |-> guild], {file[in]}) \in Sealed
    <3>1. [kind |-> "relic", unlocks |-> guild] \in Plain
      BY DEF Plain
    <3> QED
      BY <2>1, <3>1 DEF WriteSealedFile, Sealed
  <2> QED
    BY <1>4, <1>7, <2>2, <2>3 DEF Seal, SealRelic
<1>8. CASE Unseal(p, in, out) \/ Unlock(p, in, out)
  <2>1. file[in] \in Sealed
    BY <1>0, <1>8, BallType DEF Unseal, Unlock
  <2>2. file[in].envelope \in Plain /\ file[in].attachments \subseteq Plain
    BY <2>1 DEF Sealed
  <2> QED
    BY <1>4, <1>8, <2>2 DEF Unseal, Unlock
<1>9. ASSUME NEW signer \in Paths, Transmit(p, in, out, signer)
      PROVE  TInv'
  <2>1. file[in] \in DreamBalls
    BY <1>0, <1>9, BallType DEF Transmit
  <2>2. PICK r : r = [kind |-> "receipt", tool |-> file[in].identity, sender |-> None]
    OBVIOUS
  <2>3. r \in Receipts
    BY <2>1, <2>2 DEF Receipts, DreamBalls
  <2>4. Holds("sign", "transmit", r)
    BY <2>3 DEF Holds
  <2> QED
    BY <1>0, <1>9, <2>2, <2>3, <2>4, TypeRuns DEF Transmit
<1>10. CASE ExportJson(p, in, out)
  <2>1. file[in] \in DreamBalls
    BY <1>0, <1>10, BallType DEF ExportJson
  <2> QED
    BY <1>0, <1>4, <1>10, <2>1, ResultType DEF ExportJson
<1>11. CASE ImportJson(p, in, out)
  <2>1. file[in] \in DreamBalls
    BY <1>0, <1>11, BallType DEF ImportJson, Imports
  <2> QED
    BY <1>0, <1>4, <1>11, <2>1, ResultType DEF ImportJson
<1> QED
  BY <1>2, <1>5, <1>6, <1>7, <1>8, <1>9, <1>10, <1>11 DEF Command

\* The signature, and the failure to find a key.
LEMMA TypeSigns ==
    ASSUME TInv, NEW p \in Procs, Sign(p)
    PROVE  TInv'
<1> DEFINE k == keyFile[job[p].signer]
<1>1. /\ at[p] = "sign" /\ UNCHANGED <<file, keyFile, minted, clash, ran, deaths>>
      /\ job[p] \in Jobs /\ Holds("sign", job[p].op, job[p].result)
  BY TypeFacts DEF Sign
<1>2. CASE k \in Keys
  <2>1. PICK x : x = Signed(p, k)
    OBVIOUS
  <2>2. /\ x \in Plain
        /\ job[p].op = "mint" => x \in DreamBalls
    <3>1. CASE job[p].op = "transmit"
      BY <1>1, <1>2, <2>1, <3>1 DEF Holds, Signed, Receipts, Plain
    <3>2. CASE job[p].op # "transmit"
      <4>1. job[p].result \in DreamBalls /\ job[p].result.kind = "ball"
        BY <1>1, <3>2 DEF Holds
      <4>2. x = SignEnvelope(job[p].result, k)
        BY <2>1, <3>2 DEF Signed
      <4> QED
        BY <1>2, <4>1, <4>2, SignedType DEF Plain
    <3> QED
      BY <3>1, <3>2
  <2>3. PICK j : j = [job[p] EXCEPT !.result = x]
    OBVIOUS
  <2>4. /\ at' = [at EXCEPT ![p] = "open"] /\ job' = [job EXCEPT ![p] = j]
    BY <1>2, <2>1, <2>3 DEF Sign
  <2>5. j \in Jobs /\ j.op = job[p].op /\ j.result = x
    BY <1>1, <2>2, <2>3 DEF Jobs
  <2>6. Holds("open", j.op, j.result)
    BY <2>2, <2>5 DEF Holds
  <2> QED
    BY <1>1, <2>4, <2>5, <2>6, TypeFacts, TypeGoes
<1>3. CASE k \notin Keys
  <2>1. Stops(p)
    BY <1>3 DEF Sign
  <2> QED
    BY <1>1, <2>1, TypeFacts, TypeStops
<1> QED
  BY <1>2, <1>3

\* Opening and writing the output and the key file, and dying.
LEMMA TypeWrites ==
    ASSUME TInv, NEW p \in Procs, Open(p) \/ Write(p) \/ OpenKey(p) \/ WriteKey(p) \/ Die(p)
    PROVE  TInv'
<1>1. /\ at[p] # "idle" /\ UNCHANGED <<minted, ran>>
      /\ job[p] \in Jobs /\ Holds(at[p], job[p].op, job[p].result)
      /\ job[p].out \in Paths /\ job[p].result \in Plain \cup Sealed
      /\ clash' \in SUBSET Procs
  <2>1. at[p] # "idle" /\ UNCHANGED <<minted, ran>>
    BY DEF Open, Write, OpenKey, WriteKey, Die
  <2>2. job[p] \in Jobs /\ Holds(at[p], job[p].op, job[p].result) /\ job \in [Procs -> Jobs \cup {None}]
    BY <2>1, TypeFacts
  <2>3. clash' \in SUBSET Procs
    BY TypeFacts DEF Open, Write, OpenKey, WriteKey, Die, Rivals
  <2> QED
    BY <2>1, <2>2, <2>3 DEF Jobs
<1>2. /\ {Torn, job[p].result} \subseteq Contained
      /\ file \in [Paths -> Contained] /\ keyFile \in [Paths -> Keys \cup {None, Torn}]
      /\ minted' \in SUBSET Keys /\ ran' \in 0 .. MaxCommands /\ deaths \in 0 .. MaxDeaths
  BY <1>1, TypeFacts DEF Contained, Plain
<1>3. CASE Open(p)
  <2>1. /\ at[p] = "open" /\ at' = [at EXCEPT ![p] = "write"] /\ UNCHANGED <<job, keyFile, deaths>>
        /\ file' = [file EXCEPT ![job[p].out] = Torn]
    BY <1>3 DEF Open
  <2>2. file' \in [Paths -> Contained] /\ Holds("write", job[p].op, job[p].result)
    BY <1>1, <1>2, <2>1 DEF Holds
  <2> QED
    BY <1>1, <1>2, <2>1, <2>2, TypeFacts, TypeStays
<1>4. CASE Write(p)
  <2>1. PICK new, old : new = job[p].result /\ old = file[job[p].out]
    OBVIOUS
  <2>2. PICK c \in {new} \cup (IF p \in clash THEN Mixtures(new, old) ELSE {}) :
           file' = [file EXCEPT ![job[p].out] = c]
    BY <1>4, <2>1 DEF Write
  <2>3. c \in Contained
    <3>1. new \in Contained /\ old \in Contained
      BY <1>1, <1>2, <2>1
    <3>2. c = new \/ c = Torn \/ (/\ Is(new, "ball") /\ Decodes(old)
                                  /\ c \in {[new EXCEPT !.kind = "mixed"], [old EXCEPT !.kind = "mixed"]})
      BY <2>2 DEF Mixtures
    <3>3. CASE Is(new, "ball") /\ Decodes(old)
      <4>1. new \in DreamBalls /\ old \in DreamBalls
        BY <3>1, <3>3, BallType DEF Decodes
      <4>2. /\ [new EXCEPT !.kind = "mixed"] \in DreamBalls
            /\ [old EXCEPT !.kind = "mixed"] \in DreamBalls
        BY <4>1, ResultType
      <4> QED
        BY <1>2, <3>1, <3>2, <4>2 DEF Contained, Plain
    <3> QED
      BY <1>2, <3>1, <3>2, <3>3
  <2>4. file' \in [Paths -> Contained] /\ UNCHANGED <<keyFile, deaths>>
    BY <1>1, <1>2, <1>4, <2>2, <2>3 DEF Write
  <2>5. CASE job[p].op = "mint"
    <3>1. at' = [at EXCEPT ![p] = "open key"] /\ UNCHANGED job
      BY <1>4, <2>5 DEF Write
    <3>2. PICK place \in Places : place = "open key"
      BY DEF Places
    <3>3. Holds(place, job[p].op, job[p].result)
      BY <1>1, <2>5, <3>2 DEF Holds
    <3>4. at' = [at EXCEPT ![p] = place]
      BY <3>1, <3>2
    <3> QED
      BY <1>1, <1>2, <2>4, <3>1, <3>3, <3>4, TypeStays
  <2>6. CASE job[p].op # "mint"
    <3>1. Stops(p)
      BY <1>4, <2>6 DEF Write
    <3> QED
      BY <1>1, <1>2, <2>4, <3>1, TypeStops
  <2> QED
    BY <2>5, <2>6
<1>5. CASE OpenKey(p)
  <2>1. /\ at[p] = "open key" /\ at' = [at EXCEPT ![p] = "write key"] /\ UNCHANGED <<job, file, deaths>>
        /\ keyFile' = [keyFile EXCEPT ![job[p].out] = Torn]
    BY <1>5 DEF OpenKey
  <2>2. keyFile' \in [Paths -> Keys \cup {None, Torn}]
    BY <1>1, <1>2, <2>1
  <2>3. PICK place \in Places : place = "write key"
    BY DEF Places
  <2>4. Holds(place, job[p].op, job[p].result)
    BY <1>1, <2>1, <2>3 DEF Holds
  <2>5. at' = [at EXCEPT ![p] = place] /\ UNCHANGED <<job, file, deaths>>
    BY <2>1, <2>3
  <2> QED
    BY <1>1, <1>2, <2>2, <2>4, <2>5, TypeStays
<1>6. CASE WriteKey(p)
  <2>1. /\ at[p] = "write key" /\ Stops(p) /\ UNCHANGED <<file, deaths>>
        /\ \E k \in {job[p].result.identity, Torn} : keyFile' = [keyFile EXCEPT ![job[p].out] = k]
    BY <1>6 DEF WriteKey
  <2>2. job[p].result.identity \in Keys
    BY <1>1, <2>1 DEF Holds, DreamBalls
  <2>3. keyFile' \in [Paths -> Keys \cup {None, Torn}]
    BY <1>1, <1>2, <2>1, <2>2
  <2>4. Stops(p) /\ UNCHANGED <<file, deaths>>
    BY <2>1
  <2> QED
    BY <1>1, <1>2, <2>3, <2>4, TypeStops
<1>7. CASE Die(p)
  <2>1. Stops(p) /\ UNCHANGED <<file, keyFile>> /\ deaths < MaxDeaths /\ deaths' = deaths + 1
    BY <1>7 DEF Die
  <2>2. deaths' \in 0 .. MaxDeaths
    BY <1>2, <2>1, FileBoundsAssumption
  <2> QED
    BY <1>1, <1>2, <2>1, <2>2, TypeStops
<1> QED
  BY <1>3, <1>4, <1>5, <1>6, <1>7

\* Every variable keeps its type: whatever the commands decode, edit, seal, unlock
\* or mix up, files and processes hold envelopes, renderings, receipts and relics.
THEOREM FileTypeCorrect == Spec => []TypeOK
<1>1. Init => TInv
  <2> SUFFICES ASSUME Init PROVE TInv
    OBVIOUS
  <2>1. PICK typed \in BOOLEAN :
          file = [p \in Paths |->
                    IF p = GivenPath
                    THEN SignEnvelope([Seed(GivenKey, typed, TRUE) EXCEPT !.attrs = Encoded], GivenKey)
                    ELSE None]
    BY DEF Init
  <2>2. PICK seed : seed = [Seed(GivenKey, typed, TRUE) EXCEPT !.attrs = Encoded]
    OBVIOUS
  <2>3. Encoded \in [Slots -> SUBSET Fields]
    BY SlotNames, AttributeNames
  <2>4. seed \in DreamBalls /\ seed.kind = "ball"
    BY <2>2, <2>3, FileGivenAssumption DEF Seed, DreamBalls, Stages
  <2>5. SignEnvelope(seed, GivenKey) \in Contained /\ None \in Contained
    BY <2>4, SignedType, FileGivenAssumption DEF Contained, Plain
  <2>6. file \in [Paths -> Contained]
    BY <2>1, <2>2, <2>5
  <2>7. /\ keyFile \in [Paths -> Keys \cup {None, Torn}] /\ minted \in SUBSET Keys
        /\ at = [p \in Procs |-> "idle"] /\ job \in [Procs -> Jobs \cup {None}]
        /\ clash \in SUBSET Procs /\ ran \in 0 .. MaxCommands /\ deaths \in 0 .. MaxDeaths
    BY FileGivenAssumption, FileBoundsAssumption DEF Init
  <2> QED
    BY <2>6, <2>7 DEF TInv, TypeOK, Contained
<1>2. TInv /\ [Next]_vars => TInv'
  <2> SUFFICES ASSUME TInv, [Next]_vars PROVE TInv'
    OBVIOUS
  <2>1. CASE UNCHANGED vars
    BY <2>1 DEF vars, TInv, TypeOK
  <2> QED
    BY <2>1, TypeCommands, TypeSigns, TypeWrites DEF Next
<1>3. TInv => TypeOK
  BY DEF TInv
<1> QED
  BY <1>1, <1>2, <1>3, PTL DEF Spec

=============================================================================
