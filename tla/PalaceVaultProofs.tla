------------------------ MODULE PalaceVaultProofs --------------------------
(***************************************************************************)
(* Proofs about PalaceVault and PalaceVerify, for any number of commands   *)
(* running at once and any number of failing steps and deaths: what the    *)
(* content store and the bundle refer to is in the content store, the      *)
(* graph is never behind it, and the verifier accepts the bundle.  And,    *)
(* for commands that run one after the other: the history is linear and    *)
(* keeps what a command that succeeded has signed, and the graph agrees    *)
(* with it.  The graph's part begins with the types of its scripts; the    *)
(* verifier's is the last.                                                 *)
(***************************************************************************)
EXTENDS PalaceVerify, FiniteSetTheorems, SequenceTheorems, TLAPS

\* The types of what the argument uses.
FilesTyped ==
    /\ bundle \in Seq(Fps) /\ cas \in SUBSET Fps
    /\ pc \in [All -> Steps] /\ promoted \in [All -> Nat]
    /\ verb \in [All -> AllVerbs] /\ own \in [All -> BOOLEAN]
    /\ seen \in [All -> Seq(Fps)] /\ parents \in [All -> SUBSET Fps]

\* What a command has read is stored, and so is what it will sign over.
ReadStored == \A c \in All : LinesOf(seen[c]) \subseteq cas /\ parents[c] \subseteq cas

\* What a command has renamed is stored.
PromotedStored == \A c \in All : \A i \in 1..promoted[c] : Envelopes(c)[i] \in cas

\* A command that has not started has stored nothing.
Fresh == \A c \in All : pc[c] = "idle" => promoted[c] = 0 /\ \A f \in cas : f.of # c

Working == {"staged", "bridge", "promote", "write", "keys"}
Past == {"bridge", "promote", "write"}

\* Which verbs are where.
Control ==
    /\ verb[Mint] = "mint"
    /\ \A c \in All : /\ pc[c] = "write" => promoted[c] = Len(Envelopes(c))
                      /\ pc[c] \in Working /\ verb[c] = "mint" => c = Mint
                      /\ pc[c] \in Past /\ verb[c] = "rename-mythos" => Predecessor(c) \in cas

VaultInv ==
    /\ FilesTyped
    /\ BundleResolves
    /\ CasClosed
    /\ ReadStored
    /\ PromotedStored
    /\ Fresh
    /\ Control

-----------------------------------------------------------------------------
\* The envelopes of a command.

LEMMA FpTyped == ASSUME NEW k \in Kinds, NEW c \in All PROVE Fp(k, c) \in Fps
BY DEF Fp, Fps

LEMMA FpFields ==
    ASSUME NEW k, NEW c PROVE Fp(k, c).kind = k /\ Fp(k, c).of = c
BY DEF Fp

\* Every envelope of a command is its own; the signed action precedes the
\* timeline, and the palace comes last.
LEMMA EnvelopesTyped ==
    ASSUME NEW c \in All, verb[c] \in AllVerbs, own[c] \in BOOLEAN
    PROVE  /\ Envelopes(c) \in Seq(Fps)
           /\ \A i \in 1..Len(Envelopes(c)) :
                LET f == Envelopes(c)[i]
                IN  /\ f.of = c
                    /\ f.kind = "timeline" => \E j \in 1..(i-1) : Envelopes(c)[j] = Action(c)
                    /\ f.kind = "palace" => verb[c] = "mint"
<1> DEFINE Of(k) == Fp(k, c)
<1>0. /\ \A k \in Kinds : Of(k) \in Fps
      /\ Action(c) = Of("action")
      /\ \A k : Of(k).kind = k /\ Of(k).of = c
      BY FpTyped, FpFields DEF Action
<1> USE DEF Kinds
<1> HIDE DEF Of
<1>1. CASE verb[c] = "mint"
  <2>1. Envelopes(c) = <<Of("oracle"), Of("mythos"), Of("registry"), Of("action"),
                         Of("timeline"), Of("palace")>>
        BY <1>1 DEF Envelopes, Of
  <2> QED BY <1>0, <1>1, <2>1
<1>2. CASE verb[c] = "move"
  <2>1. Envelopes(c) = <<Of("action"), Of("timeline")>>
        BY <1>2 DEF Envelopes, Of
  <2> QED BY <1>0, <2>1
<1>3. CASE verb[c] = "rename-mythos"
  <2>1. Envelopes(c) = <<Of("mythos"), Of("action"), Of("timeline")>>
        BY <1>3 DEF Envelopes, Of
  <2> QED BY <1>0, <2>1
<1>4. ASSUME NEW k \in {"room", "inscription"},
             Envelopes(c) = <<Of(k), Of("action"), Of("timeline")>>
                            \o (IF own[c] THEN <<Of("mythos")>> ELSE <<>>)
      PROVE  /\ Envelopes(c) \in Seq(Fps)
             /\ \A i \in 1..Len(Envelopes(c)) :
                  LET f == Envelopes(c)[i]
                  IN  /\ f.of = c
                      /\ f.kind = "timeline" => \E j \in 1..(i-1) : Envelopes(c)[j] = Action(c)
                      /\ f.kind = "palace" => verb[c] = "mint"
  <2> DEFINE s == <<Of(k), Of("action"), Of("timeline")>>
             t == IF own[c] THEN <<Of("mythos")>> ELSE <<>>
  <2>1. s \in Seq(Fps) /\ Len(s) = 3 /\ s[1] = Of(k) /\ s[2] = Of("action")
        /\ s[3] = Of("timeline")
        BY <1>0
  <2>2. t \in Seq(Fps) /\ Len(t) \in {0, 1} /\ (Len(t) = 1 => t[1] = Of("mythos"))
        BY <1>0
  <2> HIDE DEF s, t
  <2>3. /\ s \o t \in Seq(Fps)
        /\ Len(s \o t) = 3 + Len(t)
        /\ \A i \in 1 .. 3 + Len(t) : (s \o t)[i] = IF i <= 3 THEN s[i] ELSE t[i - 3]
    <3>1. s \in Seq(Fps) /\ t \in Seq(Fps)
          BY <2>1, <2>2
    <3>2. /\ s \o t \in Seq(Fps)
          /\ Len(s \o t) = Len(s) + Len(t)
          /\ \A i \in 1 .. Len(s) + Len(t) :
                (s \o t)[i] = IF i <= Len(s) THEN s[i] ELSE t[i - Len(s)]
          BY <3>1, ConcatProperties
    <3> QED BY <2>1, <3>2
  <2>4. Envelopes(c) = s \o t
        BY <1>4 DEF s, t
  <2>5. \A i \in 1 .. 3 + Len(t) :
            (s \o t)[i] \in {Of(k), Of("action"), Of("timeline"), Of("mythos")}
        BY <2>1, <2>2, <2>3
  <2>6. \A i \in 1 .. 3 + Len(t) : (s \o t)[i] = Of("timeline") => i = 3
        BY <1>0, <2>1, <2>2, <2>3
  <2>7. (s \o t)[2] = Action(c) /\ 2 \in 1..(3 - 1)
        BY <1>0, <2>1, <2>2, <2>3
  <2>8. \A i \in 1 .. 3 + Len(t) : (s \o t)[i].of = c /\ (s \o t)[i].kind # "palace"
        BY <1>0, <2>5
  <2>9. \A i \in 1 .. 3 + Len(t) :
            (s \o t)[i].kind = "timeline" => \E j \in 1..(i-1) : (s \o t)[j] = Action(c)
        BY <1>0, <2>5, <2>6, <2>7
  <2> QED BY <2>3, <2>4, <2>8, <2>9
<1>5. CASE verb[c] = "add-room"
  <2>1. Envelopes(c) = <<Of("room"), Of("action"), Of("timeline")>>
                       \o (IF own[c] THEN <<Of("mythos")>> ELSE <<>>)
        BY <1>5 DEF Envelopes, Of
  <2> QED BY <2>1, <1>4
<1>6. CASE verb[c] \in {"inscribe", "inscribe-via"}
  <2>1. Envelopes(c) = <<Of("inscription"), Of("action"), Of("timeline")>>
                       \o (IF own[c] THEN <<Of("mythos")>> ELSE <<>>)
        BY <1>6 DEF Envelopes, Of
  <2> QED BY <2>1, <1>4
<1> QED BY <1>1, <1>2, <1>3, <1>5, <1>6 DEF AllVerbs

\* The mint-time manifest lists exactly what mint renames.
LEMMA MintLinesStaged ==
    ASSUME verb[Mint] = "mint", NEW S,
           \A i \in 1..Len(Envelopes(Mint)) : Envelopes(Mint)[i] \in S
    PROVE  LinesOf(MintLines) \subseteq S
<1>1. /\ Envelopes(Mint) = <<Fp("oracle", Mint), Fp("mythos", Mint), Fp("registry", Mint),
                             Fp("action", Mint), Fp("timeline", Mint), Fp("palace", Mint)>>
      BY DEF Envelopes
<1>2. /\ Fp("oracle", Mint) \in S /\ Fp("mythos", Mint) \in S /\ Fp("registry", Mint) \in S
      /\ Fp("action", Mint) \in S /\ Fp("timeline", Mint) \in S /\ Fp("palace", Mint) \in S
      BY <1>1
<1> QED BY <1>2 DEF LinesOf, MintLines, Palace, Oracle, Genesis, Action

\* Heads names the head of a stored timeline, or a line of the bundle.
LEMMA HeadsStored ==
    ASSUME FilesTyped, BundleResolves, CasClosed
    PROVE  Heads(bundle) \subseteq cas /\ Heads(bundle) \in SUBSET Fps
<1> DEFINE Stamps == {i \in DOMAIN bundle : bundle[i].kind = "timeline" /\ bundle[i] \in cas}
<1>1. CASE Stamps # {}
  <2>1. Heads(bundle) = {Action(bundle[i].of) : i \in {i \in Stamps : \A j \in Stamps : j <= i}}
        BY <1>1 DEF Heads
  <2>2. ASSUME NEW i \in Stamps PROVE Action(bundle[i].of) \in cas
    <3>1. bundle[i] \in cas /\ bundle[i].kind = "timeline"
          BY <2>2
    <3>2. References(bundle[i]) = {Action(bundle[i].of)}
          BY <3>1 DEF References
    <3> QED BY <3>1, <3>2 DEF CasClosed
  <2> QED BY <2>1, <2>2 DEF FilesTyped
<1>2. CASE Stamps = {}
  <2>1. Heads(bundle) = IF Len(bundle) > 4 THEN {bundle[5]} ELSE {}
        BY <1>2 DEF Heads
  <2> QED BY <2>1 DEF FilesTyped, BundleResolves, LinesOf
<1> QED BY <1>1, <1>2

\* A rewrite puts the new lines over the first of the old ones.
LEMMA OverlayAt ==
    ASSUME NEW S, NEW s \in Seq(S), NEW t \in Seq(S)
    PROVE  LET u == Overlay(s, t)
           IN  /\ u \in Seq(S)
               /\ Len(u) = IF Len(t) > Len(s) THEN Len(t) ELSE Len(s)
               /\ \A i \in 1 .. Len(u) : u[i] = IF i <= Len(s) THEN s[i] ELSE t[i]
<1> DEFINE u == SubSeq(t, Len(s) + 1, Len(t))
<1>1. /\ u \in Seq(S)
      /\ Len(u) = IF Len(s) + 1 <= Len(t) THEN Len(t) - Len(s) ELSE 0
      /\ \A i \in 1..Len(u) : u[i] = t[Len(s) + i]
      OBVIOUS
<1> HIDE DEF u
<1>2. /\ s \o u \in Seq(S)
      /\ Len(s \o u) = Len(s) + Len(u)
      /\ \A i \in 1 .. Len(s) + Len(u) :
            (s \o u)[i] = IF i <= Len(s) THEN s[i] ELSE u[i - Len(s)]
      BY <1>1, ConcatProperties
<1>3. Overlay(s, t) = s \o u
      BY DEF Overlay, u
<1>4. ASSUME NEW i \in 1 .. Len(s) + Len(u), i > Len(s)
      PROVE  u[i - Len(s)] = t[i]
  <2>1. i - Len(s) \in 1 .. Len(u) /\ Len(s) + (i - Len(s)) = i
        BY <1>1, <1>4
  <2> QED BY <1>1, <2>1
<1> QED BY <1>1, <1>2, <1>3, <1>4

\* What a rewrite leaves in the bundle is what it writes or was there.
LEMMA OverlayLines ==
    ASSUME NEW S, NEW s \in Seq(S), NEW t \in Seq(S)
    PROVE  /\ Overlay(s, t) \in Seq(S)
           /\ LinesOf(Overlay(s, t)) \subseteq LinesOf(s) \cup LinesOf(t)
<1> DEFINE u == Overlay(s, t)
<1>1. /\ u \in Seq(S)
      /\ Len(u) = IF Len(t) > Len(s) THEN Len(t) ELSE Len(s)
      /\ \A i \in 1 .. Len(u) : u[i] = IF i <= Len(s) THEN s[i] ELSE t[i]
      BY OverlayAt
<1> HIDE DEF u
<1>2. ASSUME NEW i \in 1 .. Len(u) PROVE u[i] \in LinesOf(s) \cup LinesOf(t)
  <2>1. CASE i <= Len(s)
        BY <1>1, <1>2, <2>1 DEF LinesOf
  <2>2. CASE ~(i <= Len(s))
    <3>1. u[i] = t[i] /\ i \in DOMAIN t
          BY <1>1, <1>2, <2>2
    <3> QED BY <3>1 DEF LinesOf
  <2> QED BY <2>1, <2>2
<1>3. LinesOf(u) \subseteq LinesOf(s) \cup LinesOf(t)
  <2>1. DOMAIN u = 1 .. Len(u)
        BY <1>1
  <2> QED BY <1>2, <2>1 DEF LinesOf
<1> QED BY <1>1, <1>3 DEF u

\* What appends two lists lists both.
LEMMA ConcatLines ==
    ASSUME NEW S, NEW s \in Seq(S), NEW t \in Seq(S)
    PROVE  s \o t \in Seq(S) /\ LinesOf(s \o t) \subseteq LinesOf(s) \cup LinesOf(t)
<1>1. /\ s \o t \in Seq(S)
      /\ Len(s \o t) = Len(s) + Len(t)
      /\ \A i \in 1 .. Len(s) + Len(t) :
            (s \o t)[i] = IF i <= Len(s) THEN s[i] ELSE t[i - Len(s)]
      BY ConcatProperties
<1>2. ASSUME NEW i \in 1 .. Len(s) + Len(t)
      PROVE  (s \o t)[i] \in LinesOf(s) \cup LinesOf(t)
  <2>1. CASE i <= Len(s)
        BY <1>1, <1>2, <2>1 DEF LinesOf
  <2>2. CASE ~(i <= Len(s))
        BY <1>1, <1>2, <2>2 DEF LinesOf
  <2> QED BY <2>1, <2>2
<1> QED BY <1>1, <1>2 DEF LinesOf

-----------------------------------------------------------------------------
\* Steps that store nothing and leave the arguments of every command alone.

LEMMA RewriteStep ==
    ASSUME VaultInv, NEW c \in All, NEW p \in Steps \ {"idle"},
           bundle' \in Seq(Fps), LinesOf(bundle') \subseteq cas,
           UNCHANGED <<cas, args, promoted>>,
           pc' = [pc EXCEPT ![c] = p],
           p = "write" => promoted[c] = Len(Envelopes(c)),
           p \in Working => pc[c] \in Working \/ c = Mint,
           p \in Past => pc[c] \in Past \/ (verb[c] = "rename-mythos" => Predecessor(c) \in cas)
    PROVE  VaultInv'
<1> USE DEF VaultInv, args
<1>1. FilesTyped'
      BY DEF FilesTyped
<1>2. BundleResolves' /\ CasClosed'
      BY DEF BundleResolves, CasClosed, References, LinesOf, Predecessor
<1>3. ReadStored' /\ PromotedStored'
  <2>1. ReadStored'
        BY DEF ReadStored, LinesOf
  <2>2. PromotedStored'
        BY DEF PromotedStored, Envelopes
  <2> QED BY <2>1, <2>2
<1>4. Fresh'
      BY DEF Fresh, FilesTyped
<1>5. Control'
  <2>1. verb'[Mint] = "mint"
        BY DEF Control
  <2>2. ASSUME NEW d \in All
        PROVE  /\ pc'[d] = "write" => promoted[d] = Len(Envelopes(d))
               /\ pc'[d] \in Working /\ verb[d] = "mint" => d = Mint
               /\ pc'[d] \in Past /\ verb[d] = "rename-mythos" => Predecessor(d) \in cas
        BY DEF Control, FilesTyped
  <2>3. \A d \in All : Envelopes(d)' = Envelopes(d) /\ Predecessor(d)' = Predecessor(d)
        BY DEF Envelopes, Predecessor
  <2> QED BY <2>1, <2>2, <2>3 DEF Control
<1> QED BY <1>1, <1>2, <1>3, <1>4, <1>5

LEMMA QuietStep ==
    ASSUME VaultInv, NEW c \in All, NEW p \in Steps \ {"idle"},
           UNCHANGED <<bundle, cas, args, promoted>>,
           pc' = [pc EXCEPT ![c] = p],
           p # "write",
           p \in Working => pc[c] \in Working \/ c = Mint,
           p \in Past => pc[c] \in Past \/ (verb[c] = "rename-mythos" => Predecessor(c) \in cas)
    PROVE  VaultInv'
<1>1. bundle' \in Seq(Fps) /\ LinesOf(bundle') \subseteq cas
      BY DEF VaultInv, FilesTyped, BundleResolves
<1> QED BY <1>1, RewriteStep

LEMMA MintStarts ==
    ASSUME VaultInv, UNCHANGED <<bundle, cas, args, promoted>>,
           pc' = [pc EXCEPT ![Mint] = "staged"]
    PROVE  VaultInv'
<1> Mint \in All /\ "staged" \in Steps \ {"idle"}
    BY DEF All, Steps
<1>1. bundle' \in Seq(Fps) /\ LinesOf(bundle') \subseteq cas
      BY DEF VaultInv, FilesTyped, BundleResolves
<1> QED BY <1>1, RewriteStep DEF Past

LEMMA SilentStep ==
    ASSUME VaultInv, UNCHANGED <<bundle, cas, args, promoted, pc>>
    PROVE  VaultInv'
<1> USE DEF VaultInv, args
<1>1. FilesTyped' /\ Fresh'
  <2>1. FilesTyped'
        BY DEF FilesTyped
  <2>2. Fresh'
        BY DEF Fresh
  <2> QED BY <2>1, <2>2
<1>2. BundleResolves' /\ CasClosed'
      BY DEF BundleResolves, CasClosed, References, LinesOf, Predecessor
<1>3. ReadStored' /\ PromotedStored'
      BY DEF ReadStored, PromotedStored, Envelopes, LinesOf
<1>4. Control'
      BY DEF Control, Envelopes, Predecessor
<1> QED BY <1>1, <1>2, <1>3, <1>4

-----------------------------------------------------------------------------
\* Steps that change the files or the arguments.

LEMMA StartStep ==
    ASSUME VaultInv, NEW c \in Commands, NEW v \in AllVerbs \ {"mint"}, NEW m \in BOOLEAN,
           NEW r, NEW a, Start(c, v, m, r, a)
    PROVE  VaultInv'
<1> USE DEF VaultInv
<1>0. /\ c \in All /\ c # Mint /\ pc[c] = "idle"
      /\ cas' = cas /\ bundle' = bundle /\ promoted' = promoted
      /\ verb' = [verb EXCEPT ![c] = v] /\ own' = [own EXCEPT ![c] = m]
      /\ seen' = [seen EXCEPT ![c] = bundle]
      /\ parents' = [parents EXCEPT ![c] = Heads(bundle)]
      /\ pc' = [pc EXCEPT ![c] = "staged"]
      BY VaultCommandsAssumption DEF Start, CanStart, Goto, All
<1>1. Heads(bundle) \subseteq cas /\ Heads(bundle) \in SUBSET Fps
      BY HeadsStored
<1>2. FilesTyped'
      BY <1>0, <1>1 DEF FilesTyped, Steps
<1>3. BundleResolves'
      BY <1>0 DEF BundleResolves, LinesOf
<1>4. CasClosed'
  <2>1. ASSUME NEW f \in cas PROVE References(f)' \subseteq cas
    <3>1. f \in Fps /\ f.of \in All /\ f.of # c
          BY <1>0 DEF Fresh, FilesTyped, Fps
    <3>2. /\ parents'[f.of] = parents[f.of] /\ verb'[f.of] = verb[f.of]
          /\ seen'[f.of] = seen[f.of]
          BY <1>0, <3>1 DEF FilesTyped
    <3>3. References(f)' = References(f)
          BY <3>2 DEF References, Predecessor
    <3> QED BY <3>3 DEF CasClosed
  <2> QED BY <2>1, <1>0 DEF CasClosed
<1>5. ReadStored'
      BY <1>0, <1>1 DEF ReadStored, FilesTyped, BundleResolves, LinesOf
<1>6. PromotedStored'
  <2>1. ASSUME NEW d \in All, d # c PROVE Envelopes(d)' = Envelopes(d)
        BY <1>0, <2>1 DEF FilesTyped, Envelopes
  <2>2. promoted[c] = 0
        BY <1>0 DEF Fresh
  <2> QED BY <1>0, <2>1, <2>2 DEF PromotedStored
<1>7. Fresh'
      BY <1>0 DEF Fresh, FilesTyped
<1>8. Control'
  <2>1. ASSUME NEW d \in All, d # c
        PROVE  /\ Envelopes(d)' = Envelopes(d) /\ Predecessor(d)' = Predecessor(d)
               /\ pc'[d] = pc[d] /\ verb'[d] = verb[d]
        BY <1>0, <2>1 DEF FilesTyped, Envelopes, Predecessor
  <2>2. pc'[c] = "staged" /\ verb'[c] = v /\ verb'[Mint] = verb[Mint] /\ Mint \in All
        BY <1>0 DEF FilesTyped, All
  <2> QED BY <1>0, <2>1, <2>2 DEF Control, Working, Past
<1> QED BY <1>2, <1>3, <1>4, <1>5, <1>6, <1>7, <1>8

LEMMA PromoteStep ==
    ASSUME VaultInv, NEW c \in All, Promote(c)
    PROVE  VaultInv'
<1> USE DEF VaultInv
<1> DEFINE n == promoted[c] + 1
           f == Envelopes(c)[n]
<1>0. /\ pc[c] = "promote" /\ promoted[c] < Len(Envelopes(c))
      /\ cas' = cas \cup {f} /\ promoted' = [promoted EXCEPT ![c] = n]
      /\ UNCHANGED <<bundle, pc, verb, own, seen, parents>>
      BY DEF Promote, args
<1>1. verb[c] \in AllVerbs /\ own[c] \in BOOLEAN /\ promoted[c] \in Nat
      BY DEF FilesTyped
<1>2. /\ Envelopes(c) \in Seq(Fps)
      /\ n \in 1..Len(Envelopes(c))
      /\ f \in Fps
      /\ f.of = c
      /\ f.kind = "timeline" => \E j \in 1..(n-1) : Envelopes(c)[j] = Action(c)
      /\ f.kind = "palace" => verb[c] = "mint"
  <2>1. Envelopes(c) \in Seq(Fps)
        BY <1>1, EnvelopesTyped
  <2>2. n \in 1..Len(Envelopes(c))
        BY <1>0, <1>1, <2>1
  <2> HIDE DEF n
  <2>3. LET g == Envelopes(c)[n]
        IN  /\ g.of = c
            /\ g.kind = "timeline" => \E j \in 1..(n-1) : Envelopes(c)[j] = Action(c)
            /\ g.kind = "palace" => verb[c] = "mint"
        BY <1>1, <2>2, EnvelopesTyped
  <2> QED BY <2>1, <2>2, <2>3
<1>3. \A i \in 1..promoted[c] : Envelopes(c)[i] \in cas
      BY DEF PromotedStored
<1>4. \A d \in All : Envelopes(d)' = Envelopes(d) /\ Predecessor(d)' = Predecessor(d)
      BY <1>0 DEF Envelopes, Predecessor
<1> HIDE DEF f
<1>5. References(f) \subseteq cas
  <2>1. CASE f.kind = "action"
        BY <1>2, <2>1 DEF References, ReadStored
  <2>2. CASE f.kind = "timeline"
    <3>1. Action(c) \in cas
          BY <1>1, <1>2, <1>3, <2>2
    <3> QED BY <1>2, <2>2, <3>1 DEF References
  <2>3. CASE f.kind = "mythos" /\ verb[f.of] = "rename-mythos"
    <3>1. Predecessor(c) \in cas
          BY <1>0, <1>2, <2>3 DEF Control, Past
    <3> QED BY <1>2, <2>3, <3>1 DEF References
  <2>4. CASE f.kind = "palace"
    <3>1. c = Mint
          BY <1>0, <1>2, <2>4 DEF Control, Working
    <3>2. Envelopes(c) = <<Fp("oracle", Mint), Fp("mythos", Mint), Fp("registry", Mint),
                           Fp("action", Mint), Fp("timeline", Mint), Fp("palace", Mint)>>
          BY <1>2, <2>4, <3>1 DEF Envelopes
    <3>3. n = 6
          BY <1>2, <2>4, <3>2, FpFields DEF f
    <3>4. \A i \in 1..5 : Envelopes(c)[i] \in cas
          BY <1>1, <1>3, <3>3
    <3>5. /\ Fp("oracle", Mint) \in cas /\ Fp("mythos", Mint) \in cas
          /\ Fp("registry", Mint) \in cas /\ Fp("timeline", Mint) \in cas
          BY <3>2, <3>4
    <3>6. References(f) \subseteq {Fp("oracle", Mint), Fp("mythos", Mint),
                                   Fp("registry", Mint), Fp("timeline", Mint)}
          BY <2>4 DEF References, LinesOf, MintLines, Palace, Oracle, Genesis, Action
    <3> QED BY <3>5, <3>6
  <2>5. CASE /\ ~(f.kind = "action") /\ ~(f.kind = "timeline") /\ ~(f.kind = "palace")
            /\ ~(f.kind = "mythos" /\ verb[f.of] = "rename-mythos")
    <3>1. References(f) = {}
          BY <2>5 DEF References
    <3> QED BY <3>1
  <2> QED BY <2>1, <2>2, <2>3, <2>4, <2>5
<1>6. CasClosed'
  <2>1. \A g : References(g)' = References(g)
        BY <1>0 DEF References, Predecessor
  <2> QED BY <1>0, <1>5, <2>1 DEF CasClosed
<1>7. FilesTyped'
      BY <1>0, <1>1, <1>2 DEF FilesTyped
<1>8. BundleResolves' /\ ReadStored'
      BY <1>0 DEF BundleResolves, ReadStored, LinesOf
<1>9. PromotedStored'
  <2>1. ASSUME NEW d \in All, d # c
        PROVE  promoted'[d] = promoted[d] /\ Envelopes(d)' = Envelopes(d)
        BY <1>0, <1>4, <2>1 DEF FilesTyped
  <2>2. promoted'[c] = n
        BY <1>0 DEF FilesTyped
  <2>3. \A i \in 1..n : Envelopes(c)[i] \in cas'
        BY <1>0, <1>1, <1>3 DEF f
  <2> QED BY <1>0, <1>4, <2>1, <2>2, <2>3 DEF PromotedStored
<1>10. Fresh'
      BY <1>0, <1>2 DEF Fresh, FilesTyped
<1>11. Control'
  <2>1. ASSUME NEW d \in All, pc[d] = "write" PROVE promoted'[d] = promoted[d]
        BY <1>0, <2>1 DEF FilesTyped
  <2> QED BY <1>0, <1>4, <2>1 DEF Control
<1> QED BY <1>6, <1>7, <1>8, <1>9, <1>10, <1>11

LEMMA TruncateStep ==
    ASSUME VaultInv, NEW c \in All, TruncateBundle(c)
    PROVE  VaultInv'
<1> USE DEF VaultInv
<1>0. /\ pc[c] = "promote" /\ promoted[c] = Len(Envelopes(c))
      /\ bundle' = <<>> /\ pc' = [pc EXCEPT ![c] = "write"]
      /\ UNCHANGED <<cas, args, promoted>>
      BY DEF TruncateBundle, Promoted, Unpromoted, Goto
<1>1. bundle' \in Seq(Fps) /\ LinesOf(bundle') = {}
      BY <1>0 DEF LinesOf
<1> QED BY <1>0, <1>1, RewriteStep DEF Steps, Working, Past

LEMMA WriteStep ==
    ASSUME VaultInv, NEW c \in All, WriteBundle(c)
    PROVE  VaultInv'
<1> USE DEF VaultInv
<1> DEFINE new == seen[c] \o Envelopes(c)
<1>0. /\ pc[c] = "write" /\ bundle' = Overlay(new, bundle)
      /\ pc' = [pc EXCEPT ![c] = "done"]
      /\ UNCHANGED <<cas, args, promoted>>
      BY DEF WriteBundle, Unpromoted, Exit, Goto
<1>1. Envelopes(c) \in Seq(Fps) /\ seen[c] \in Seq(Fps) /\ bundle \in Seq(Fps)
      BY EnvelopesTyped DEF FilesTyped
<1>2. LinesOf(Envelopes(c)) \subseteq cas
  <2>1. promoted[c] = Len(Envelopes(c))
        BY <1>0 DEF Control
  <2> QED BY <1>1, <2>1 DEF PromotedStored, LinesOf
<1>3. new \in Seq(Fps) /\ LinesOf(new) \subseteq cas
      BY <1>1, <1>2, ConcatLines DEF ReadStored
<1> HIDE DEF new
<1>4. bundle' \in Seq(Fps) /\ LinesOf(bundle') \subseteq cas
      BY <1>0, <1>1, <1>3, OverlayLines DEF BundleResolves
<1> QED BY <1>0, <1>4, RewriteStep DEF Steps, Working, Past

LEMMA InstallStep ==
    ASSUME VaultInv, InstallBundle
    PROVE  VaultInv'
<1> USE DEF VaultInv
<1>0. /\ pc[Mint] = "promote" /\ promoted[Mint] = Len(Envelopes(Mint))
      /\ bundle' = MintLines /\ pc' = [pc EXCEPT ![Mint] = "keys"]
      /\ UNCHANGED <<cas, args, promoted>>
      /\ Mint \in All
      BY DEF InstallBundle, Promoted, Unpromoted, Goto, All
<1>1. LinesOf(MintLines) \subseteq cas
  <2>1. \A i \in 1..Len(Envelopes(Mint)) : Envelopes(Mint)[i] \in cas
        BY <1>0 DEF PromotedStored
  <2> QED BY <2>1, MintLinesStaged DEF Control
<1>2. MintLines \in Seq(Fps)
      BY <1>0, FpTyped DEF MintLines, Palace, Oracle, Genesis, Action, Kinds
<1> QED BY <1>0, <1>1, <1>2, RewriteStep DEF Steps, Working, Past

LEMMA OpenStep ==
    ASSUME VaultInv, NEW c \in All, OpenStore(c)
    PROVE  VaultInv'
<1> USE DEF VaultInv
<1>0. /\ pc[c] = "staged" /\ pc' = [pc EXCEPT ![c] = "bridge"]
      /\ UNCHANGED <<bundle, cas, args, promoted>>
      /\ \E src \in Sources(c) : Passes(c, src)
      BY DEF OpenStore, Goto, files
<1>1. verb[c] = "rename-mythos" => Predecessor(c) \in cas
  <2>1. SUFFICES ASSUME verb[c] = "rename-mythos" PROVE Predecessor(c) \in cas
        OBVIOUS
  <2>2. Predecessor(c) # None
        BY <1>0, <2>1 DEF Passes
  <2>3. Len(seen[c]) > 2 /\ Predecessor(c) = seen[c][3]
        BY <2>2 DEF Predecessor
  <2>4. seen[c] \in Seq(Fps)
        BY DEF FilesTyped
  <2>5. seen[c][3] \in LinesOf(seen[c])
        BY <2>3, <2>4 DEF LinesOf
  <2> QED BY <2>3, <2>5 DEF ReadStored
<1> QED BY <1>0, <1>1, QuietStep DEF Steps, Working

-----------------------------------------------------------------------------
\* The invariant.

LEMMA VaultInit == Init => VaultInv
<1> SUFFICES ASSUME Init PROVE VaultInv
    OBVIOUS
<1> USE DEF Init
<1>1. FilesTyped
      BY DEF FilesTyped, Steps, AllVerbs
<1>2. BundleResolves /\ CasClosed /\ ReadStored
      BY DEF BundleResolves, CasClosed, ReadStored, LinesOf
<1>3. PromotedStored /\ Fresh
      BY DEF PromotedStored, Fresh
<1>4. Control
      BY DEF Control, Working, Past, All
<1> QED BY <1>1, <1>2, <1>3, <1>4 DEF VaultInv

LEMMA VaultStep == VaultInv /\ [Next]_vars => VaultInv'
<1> SUFFICES ASSUME VaultInv, [Next]_vars PROVE VaultInv'
    OBVIOUS
<1>1. CASE UNCHANGED vars
      BY <1>1, SilentStep DEF vars, files
<1>2. CASE StartMint
  <2>1. Mint \in All /\ pc[Mint] = "idle" /\ pc' = [pc EXCEPT ![Mint] = "staged"]
        /\ UNCHANGED <<bundle, cas, args, promoted>>
        BY <1>2 DEF StartMint, CanStart, Goto, All
  <2> QED BY <2>1, MintStarts
<1>3. CASE InstallBundle
      BY <1>3, InstallStep
<1>4. CASE InstallKeys
  <2>1. /\ Mint \in All /\ pc' = [pc EXCEPT ![Mint] = "done"]
        /\ UNCHANGED <<bundle, cas, args, promoted>>
        BY <1>4 DEF InstallKeys, RollBack, Exit, Goto, All
  <2> QED BY <2>1, QuietStep DEF Steps, Working, Past
<1>5. ASSUME NEW c \in All, CommandStep(c) PROVE VaultInv'
  <2> USE DEF files
  <2>1. CASE Refuse(c) \/ BridgeRefuses(c) \/ BridgeFails(c) \/ FileFails(c)
    <3>1. /\ pc' = [pc EXCEPT ![c] = "done"]
          /\ UNCHANGED <<bundle, cas, args, promoted>>
          BY <2>1 DEF Refuse, BridgeRefuses, BridgeFails, FileFails, RollBack, Exit, Goto
    <3> QED BY <3>1, QuietStep DEF Steps, Working, Past
  <2>2. CASE StartAny(c)
    <3>1. PICK v \in Verbs, m \in BOOLEAN, r \in Fps \cup {None}, a \in Fps \cup {None} :
             Start(c, v, m, r, a)
          BY <2>2 DEF StartAny, StartAddRoom, StartInscribe, StartMove, StartRename,
                       Known, Fps, Fp, Kinds, All
    <3>2. v \in AllVerbs \ {"mint"} /\ c \in Commands
          BY <3>1, VaultVerbsAssumption DEF Start, All
    <3> QED BY <3>1, <3>2, StartStep
  <2>3. CASE OpenStore(c)
        BY <2>3, OpenStep
  <2>4. CASE BridgeQuery(c) \/ SkipAqueduct(c)
    <3>1. UNCHANGED <<bundle, cas, args, promoted, pc>>
          BY <2>4 DEF BridgeQuery, SkipAqueduct, Runs, CreateNode, CreateContains,
             CreateLivesIn, DeleteLivesIn, DropInscription, CreatePredecessor, DeleteHead,
             CreateHead, SetHeadColumn, ForgetHeads, CreateTriple, CreateKnowledge,
             AppendLog, MirrorAqueduct, CreateAqueduct, CreateEnd, Strengthen
    <3> QED BY <3>1, SilentStep
  <2>5. CASE BridgeExits(c)
    <3>1. PICK p \in {"done", "promote"} :
             /\ pc[c] = "bridge" /\ pc' = [pc EXCEPT ![c] = p]
             /\ UNCHANGED <<bundle, cas, args, promoted>>
          BY <2>5 DEF BridgeExits, RollBack, Exit, Goto
    <3> QED BY <3>1, QuietStep DEF Steps, Working, Past
  <2>6. CASE Promote(c)
        BY <2>6, PromoteStep
  <2>7. CASE TruncateBundle(c)
        BY <2>7, TruncateStep
  <2>8. CASE WriteBundle(c)
        BY <2>8, WriteStep
  <2>9. CASE Die(c)
    <3>1. /\ pc' = [pc EXCEPT ![c] = "dead"]
          /\ UNCHANGED <<bundle, cas, args, promoted>>
          BY <2>9 DEF Die, Goto
    <3> QED BY <3>1, QuietStep DEF Steps, Working, Past
  <2> QED BY <1>5, <2>1, <2>2, <2>3, <2>4, <2>5, <2>6, <2>7, <2>8, <2>9 DEF CommandStep
<1> QED BY <1>1, <1>2, <1>3, <1>4, <1>5 DEF Next

\* The inductive invariant holds in every reachable state, with any number of
\* commands running and any step of any of them failing.
THEOREM VaultInvariant == Spec => []VaultInv
<1>1. Init => VaultInv
      BY VaultInit
<1>2. VaultInv /\ [Next]_vars => VaultInv'
      BY VaultStep
<1> QED BY <1>1, <1>2, PTL DEF Spec

\* Every line of the bundle names an envelope of the content store, at every
\* instant (casRead in verify.zig and show.zig finds every line).
THEOREM VaultBundleResolves == Spec => []BundleResolves
<1>1. VaultInv => BundleResolves
      BY DEF VaultInv
<1> QED BY <1>1, VaultInvariant, PTL

\* Every parent, head, predecessor and member a stored envelope refers to is
\* stored too (promoteStagingFiles renames them in the right order).
THEOREM VaultCasClosed == Spec => []CasClosed
<1>1. VaultInv => CasClosed
      BY DEF VaultInv
<1> QED BY <1>1, VaultInvariant, PTL


-----------------------------------------------------------------------------
(* One command at a time.  Without a second command a bundle is truncated   *)
(* only by the command that writes it back, so its actions stay one chain    *)
(* and what was recorded stays recorded.                                     *)

ActsOf(s) == {c \in All : Action(c) \in LinesOf(s)}

\* The last timeline of the lines is that of command c.
EndsWith(s, c) ==
    \E i \in DOMAIN s : /\ s[i] = Fp("timeline", c)
                        /\ \A j \in DOMAIN s : s[j].kind = "timeline" => j <= i

\* With the parents p the actions of the lines are one chain from the mint
\* action to that of command tip, whose timeline is the last.
ChainedTo(s, tip, p) ==
    /\ tip \in ActsOf(s) /\ EndsWith(s, tip)
    /\ \A c \in ActsOf(s) \ {Mint} : \E d \in ActsOf(s) : p[c] = {Action(d)}
    /\ \A c, d \in ActsOf(s) : p[c] = p[d] => c = d
    /\ \A c \in ActsOf(s) : Action(tip) \notin p[c]

\* What succeeded is among the lines.
Kept(s) == \A c \in All : Succeeded(c) => LinesOf(Envelopes(c)) \subseteq LinesOf(s)

Alone == \A c, d \in All : Running(c) /\ Running(d) => c = d

\* Until mint has installed its bundle there is none, and nothing has succeeded.
Minting ==
    /\ parents[Mint] = {} /\ pc[Mint] # "write"
    /\ pc[Mint] \in {"idle", "staged", "bridge", "promote"} =>
          bundle = <<>> /\ \A c \in All : ~Succeeded(c) /\ (Running(c) => c = Mint)
    /\ pc[Mint] = "keys" => bundle = MintLines

Linear == bundle # <<>> => Kept(bundle) /\ \E tip \in All : ChainedTo(bundle, tip, parents)

\* A command has read the bundle as it is, or as it was when it truncated it.
Reads(c) ==
    /\ seen[c] # <<>> /\ bundle = (IF pc[c] = "write" THEN <<>> ELSE seen[c])
    /\ Kept(seen[c]) /\ \A f \in LinesOf(seen[c]) : f.of # c
    /\ \E tip \in All : ChainedTo(seen[c], tip, parents) /\ parents[c] = {Action(tip)}
    /\ verb[c] # "mint"

SerialInv ==
    /\ code \in [All -> 0 .. 2]
    /\ Alone
    /\ Minting
    /\ Linear
    /\ \A c \in Commands : Running(c) => Reads(c)

\* Different commands sign different actions.
LEMMA ActionsDiffer == ASSUME NEW c, NEW d, Action(c) = Action(d) PROVE c = d
BY FpFields DEF Action

\* The last timeline names the one head.
LEMMA TipIsHead ==
    ASSUME NEW s \in Seq(Fps), LinesOf(s) \subseteq cas, NEW tip, EndsWith(s, tip)
    PROVE  Heads(s) = {Action(tip)}
<1> DEFINE Stamps == {i \in DOMAIN s : s[i].kind = "timeline" /\ s[i] \in cas}
           Top == {i \in Stamps : \A j \in Stamps : j <= i}
<1>1. PICK i \in DOMAIN s : /\ s[i] = Fp("timeline", tip)
                            /\ \A j \in DOMAIN s : s[j].kind = "timeline" => j <= i
      BY DEF EndsWith
<1>2. i \in Stamps /\ s[i].of = tip /\ DOMAIN s \subseteq Nat
      BY <1>1, FpFields DEF LinesOf
<1>3. \A j \in Stamps : j <= i
      BY <1>1
<1>4. Top = {i}
      BY <1>2, <1>3
<1>5. Heads(s) = {Action(s[j].of) : j \in Top}
      BY <1>2 DEF Heads
<1> HIDE DEF Top
<1> QED BY <1>2, <1>4, <1>5

\* Two lists one after the other list what they list.
LEMMA LinesConcat ==
    ASSUME NEW S, NEW s \in Seq(S), NEW t \in Seq(S)
    PROVE  s \o t \in Seq(S) /\ LinesOf(s \o t) = LinesOf(s) \cup LinesOf(t)
<1>1. /\ s \o t \in Seq(S)
      /\ Len(s \o t) = Len(s) + Len(t)
      /\ \A i \in 1 .. Len(s) + Len(t) :
            (s \o t)[i] = IF i <= Len(s) THEN s[i] ELSE t[i - Len(s)]
      BY ConcatProperties
<1>2. ASSUME NEW i \in DOMAIN s PROVE s[i] \in LinesOf(s \o t)
  <2>1. i \in DOMAIN (s \o t) /\ (s \o t)[i] = s[i]
        BY <1>1, <1>2
  <2> QED BY <2>1 DEF LinesOf
<1>3. ASSUME NEW i \in DOMAIN t PROVE t[i] \in LinesOf(s \o t)
  <2>1. Len(s) + i \in DOMAIN (s \o t) /\ (s \o t)[Len(s) + i] = t[i]
        BY <1>1, <1>3
  <2> QED BY <2>1 DEF LinesOf
<1>4. LinesOf(s) \subseteq LinesOf(s \o t)
      BY <1>2, Zenon DEF LinesOf
<1>5. LinesOf(t) \subseteq LinesOf(s \o t)
      BY <1>3, Zenon DEF LinesOf
<1>6. LinesOf(s \o t) \subseteq LinesOf(s) \cup LinesOf(t)
      BY ConcatLines
<1> QED BY <1>1, <1>4, <1>5, <1>6

\* Lines without a timeline do not change the last one.
LEMMA EndsBefore ==
    ASSUME NEW S, NEW s \in Seq(S), NEW t \in Seq(S), NEW c, EndsWith(s, c),
           \A j \in DOMAIN t : t[j].kind # "timeline"
    PROVE  EndsWith(s \o t, c)
<1>1. /\ s \o t \in Seq(S)
      /\ Len(s \o t) = Len(s) + Len(t)
      /\ \A i \in 1 .. Len(s) + Len(t) :
            (s \o t)[i] = IF i <= Len(s) THEN s[i] ELSE t[i - Len(s)]
      BY ConcatProperties
<1>2. PICK i \in DOMAIN s : /\ s[i] = Fp("timeline", c)
                            /\ \A j \in DOMAIN s : s[j].kind = "timeline" => j <= i
      BY DEF EndsWith
<1>3. i \in DOMAIN (s \o t) /\ (s \o t)[i] = Fp("timeline", c)
      BY <1>1, <1>2
<1>4. ASSUME NEW j \in DOMAIN (s \o t), (s \o t)[j].kind = "timeline" PROVE j <= i
  <2>1. CASE j <= Len(s)
        BY <1>1, <1>2, <1>4, <2>1
  <2>2. CASE ~(j <= Len(s))
    <3>1. j - Len(s) \in DOMAIN t /\ (s \o t)[j] = t[j - Len(s)]
          BY <1>1, <1>4, <2>2
    <3> QED BY <1>4, <3>1
  <2> QED BY <2>1, <2>2
<1> QED BY <1>3, <1>4 DEF EndsWith

\* The last timeline of the second list is the last of both.
LEMMA EndsAfter ==
    ASSUME NEW S, NEW s \in Seq(S), NEW t \in Seq(S), NEW c, EndsWith(t, c)
    PROVE  EndsWith(s \o t, c)
<1>1. /\ s \o t \in Seq(S)
      /\ Len(s \o t) = Len(s) + Len(t)
      /\ \A i \in 1 .. Len(s) + Len(t) :
            (s \o t)[i] = IF i <= Len(s) THEN s[i] ELSE t[i - Len(s)]
      BY ConcatProperties
<1>2. PICK i \in DOMAIN t : /\ t[i] = Fp("timeline", c)
                            /\ \A j \in DOMAIN t : t[j].kind = "timeline" => j <= i
      BY DEF EndsWith
<1>3. Len(s) + i \in DOMAIN (s \o t) /\ (s \o t)[Len(s) + i] = Fp("timeline", c)
      BY <1>1, <1>2
<1>4. ASSUME NEW j \in DOMAIN (s \o t), (s \o t)[j].kind = "timeline" PROVE j <= Len(s) + i
  <2>1. CASE j <= Len(s)
        BY <1>2, <2>1
  <2>2. CASE ~(j <= Len(s))
    <3>1. j - Len(s) \in DOMAIN t /\ (s \o t)[j] = t[j - Len(s)]
          BY <1>1, <1>4, <2>2
    <3>2. j - Len(s) <= i
          BY <1>2, <1>4, <3>1
    <3> QED BY <1>1, <1>4, <3>2
  <2> QED BY <2>1, <2>2
<1> QED BY <1>3, <1>4 DEF EndsWith

\* What the envelopes of a command other than mint list, and how they end.
LEMMA EnvelopesEnd ==
    ASSUME NEW c \in All, verb[c] \in AllVerbs \ {"mint"}, own[c] \in BOOLEAN
    PROVE  Action(c) \in LinesOf(Envelopes(c)) /\ EndsWith(Envelopes(c), c)
<1> DEFINE Of(k) == Fp(k, c)
<1>0. /\ Action(c) = Of("action") /\ \A k : Of(k).kind = k
      /\ \A k \in Kinds : Of(k) \in Fps
      BY FpFields, FpTyped DEF Action
<1>1. ASSUME NEW k \in {"room", "inscription"},
             Envelopes(c) = <<Of(k), Of("action"), Of("timeline")>>
                            \o (IF own[c] THEN <<Of("mythos")>> ELSE <<>>)
      PROVE  Action(c) \in LinesOf(Envelopes(c)) /\ EndsWith(Envelopes(c), c)
  <2> DEFINE e == <<Of(k), Of("action"), Of("timeline")>>
             t == IF own[c] THEN <<Of("mythos")>> ELSE <<>>
  <2> HIDE DEF Of
  <2>1. e \in Seq(Fps) /\ t \in Seq(Fps)
        BY <1>0 DEF Kinds
  <2>2. Action(c) \in LinesOf(e)
    <3>1. e[2] = Action(c) /\ 2 \in DOMAIN e
          BY <1>0
    <3> QED BY <3>1 DEF LinesOf
  <2>3. EndsWith(e, c)
    <3>1. DOMAIN e = 1..3 /\ e[3] = Fp("timeline", c)
          BY DEF Of
    <3> QED BY <3>1 DEF EndsWith
  <2>4. \A j \in DOMAIN t : t[j].kind # "timeline"
        BY <1>0
  <2>5. Envelopes(c) = e \o t
        BY <1>1
  <2> HIDE DEF e, t
  <2> QED BY <2>1, <2>2, <2>3, <2>4, <2>5, LinesConcat, EndsBefore
<1>2. CASE verb[c] = "add-room"
  <2>1. Envelopes(c) = <<Of("room"), Of("action"), Of("timeline")>>
                       \o (IF own[c] THEN <<Of("mythos")>> ELSE <<>>)
        BY <1>2 DEF Envelopes
  <2> QED BY <1>1, <2>1
<1>3. CASE verb[c] \in {"inscribe", "inscribe-via"}
  <2>1. Envelopes(c) = <<Of("inscription"), Of("action"), Of("timeline")>>
                       \o (IF own[c] THEN <<Of("mythos")>> ELSE <<>>)
        BY <1>3 DEF Envelopes
  <2> QED BY <1>1, <2>1
<1>4. CASE verb[c] = "rename-mythos"
  <2>1. Envelopes(c) = <<Of("mythos"), Of("action"), Of("timeline")>>
        BY <1>4 DEF Envelopes
  <2>2. DOMAIN Envelopes(c) = 1..3 /\ Envelopes(c)[2] = Action(c)
        /\ Envelopes(c)[3] = Fp("timeline", c)
        BY <1>0, <2>1
  <2> QED BY <2>2 DEF EndsWith, LinesOf
<1>5. CASE verb[c] = "move"
  <2>1. Envelopes(c) = <<Of("action"), Of("timeline")>>
        BY <1>5 DEF Envelopes
  <2>2. DOMAIN Envelopes(c) = 1..2 /\ Envelopes(c)[1] = Action(c)
        /\ Envelopes(c)[2] = Fp("timeline", c)
        BY <1>0, <2>1
  <2> QED BY <2>2 DEF EndsWith, LinesOf
<1> QED BY <1>2, <1>3, <1>4, <1>5 DEF AllVerbs

\* A chain stays one when nobody on it changes its parents.
LEMMA ChainSame ==
    ASSUME NEW s, NEW tip, NEW p, NEW q, ChainedTo(s, tip, p),
           \A c \in ActsOf(s) : q[c] = p[c]
    PROVE  ChainedTo(s, tip, q)
BY DEF ChainedTo

\* Appended to a chain, the envelopes of a command whose parent is its tip
\* extend it.
LEMMA ChainExtended ==
    ASSUME NEW s \in Seq(Fps), NEW e \in Seq(Fps), NEW tip \in All, NEW c \in All, NEW p,
           ChainedTo(s, tip, p), p[c] = {Action(tip)}, p[Mint] = {},
           \A f \in LinesOf(s) : f.of # c, \A f \in LinesOf(e) : f.of = c,
           Action(c) \in LinesOf(e), EndsWith(e, c)
    PROVE  ChainedTo(s \o e, c, p)
<1>1. LinesOf(s \o e) = LinesOf(s) \cup LinesOf(e)
      BY LinesConcat
<1>2. ActsOf(s \o e) = ActsOf(s) \cup {c}
      BY <1>1, FpFields DEF ActsOf, Action
<1>3. c \notin ActsOf(s)
      BY FpFields DEF ActsOf, Action
<1>4. \A d \in ActsOf(s) : d # c /\ Action(d) # Action(c)
      BY <1>3, ActionsDiffer
<1>5. EndsWith(s \o e, c)
      BY EndsAfter
<1>6. \A d \in ActsOf(s) \ {Mint} : \E x \in ActsOf(s) : p[d] = {Action(x)}
      BY DEF ChainedTo
<1>7. tip \in ActsOf(s) /\ \A d \in ActsOf(s) : Action(tip) \notin p[d]
      BY DEF ChainedTo
<1>8. \A d \in ActsOf(s) : Action(c) \notin p[d]
  <2> SUFFICES ASSUME NEW d \in ActsOf(s), Action(c) \in p[d] PROVE FALSE
      OBVIOUS
  <2> QED BY <1>4, <1>6
<1>9. Action(c) \notin p[c]
      BY <1>4, <1>7
<1>10. \A x, y \in ActsOf(s) \cup {c} : p[x] = p[y] => x = y
  <2>1. \A x \in ActsOf(s) : p[x] # p[c]
        BY <1>7
  <2> QED BY <2>1 DEF ChainedTo
<1>11. \A x \in (ActsOf(s) \cup {c}) \ {Mint} : \E y \in ActsOf(s) \cup {c} : p[x] = {Action(y)}
      BY <1>6, <1>7
<1> QED BY <1>2, <1>5, <1>8, <1>9, <1>10, <1>11 DEF ChainedTo

\* A bound of one command running means none when another starts.
LEMMA NobodyRuns ==
    ASSUME MaxAlive = 1, Alone, NEW c \in All, CanStart(c)
    PROVE  \A d \in All : ~Running(d)
<1> SUFFICES ASSUME NEW d \in All, Running(d) PROVE FALSE
    OBVIOUS
<1>1. {e \in All : Running(e)} = {d}
      BY DEF Alone
<1>2. Cardinality({e \in All : Running(e)}) < 1
      BY DEF CanStart
<1>3. Cardinality({d}) = 1
      BY FS_Singleton
<1> QED BY <1>1, <1>2, <1>3

\* A step of c that changes neither bundle nor arguments and does not succeed.
LEMMA SerialQuiet ==
    ASSUME VaultInv, SerialInv, NEW c \in All,
           NEW p \in {"staged", "bridge", "promote", "done", "dead"},
           UNCHANGED <<bundle, args>>, pc' = [pc EXCEPT ![c] = p],
           code' \in [All -> 0 .. 2], \A d \in All \ {c} : code'[d] = code[d],
           p = "done" => code'[c] # 0,
           \/ p \in {"done", "dead"}
           \/ pc[c] \in {"staged", "bridge"}
           \/ c = Mint /\ pc[c] = "idle" /\ \A d \in All : ~Running(d)
    PROVE  SerialInv'
<1> USE DEF args
<1>0. /\ pc'[c] = p /\ \A d \in All : d # c => pc'[d] = pc[d]
      /\ \A d \in All : Envelopes(d)' = Envelopes(d)
      BY DEF VaultInv, FilesTyped, Envelopes
<1>1. \A d \in All : Succeeded(d)' => Succeeded(d)
      BY <1>0 DEF Succeeded
<1>2. Alone'
      BY <1>0 DEF SerialInv, Alone, Running
<1>3. Minting'
  <2>1. Minting
        BY DEF SerialInv
  <2>2. pc'[Mint] = pc[Mint] \/ (pc'[Mint] = p /\ (p \in {"done", "dead"} \/ pc[Mint] \in {"idle", "staged", "bridge"}))
        BY <1>0 DEF All
  <2>3. \A d \in All : Running(d)' => Running(d) \/ d = Mint
        BY <1>0 DEF Running
  <2> QED BY <1>1, <2>1, <2>2, <2>3 DEF Minting
<1>4. Linear'
      BY <1>0, <1>1 DEF SerialInv, Linear, Kept
<1>5. ASSUME NEW d \in Commands, Running(d)' PROVE Reads(d)'
  <2>1. Running(d) /\ (pc'[d] = "write" <=> pc[d] = "write")
        BY <1>0, <1>5, VaultCommandsAssumption DEF Running, All
  <2>2. Reads(d)
        BY <2>1 DEF SerialInv
  <2> QED BY <1>0, <1>1, <2>1, <2>2 DEF Reads, Kept
<1> QED BY <1>2, <1>3, <1>4, <1>5 DEF SerialInv

LEMMA SerialSame ==
    ASSUME SerialInv, UNCHANGED <<bundle, args, pc, code>>
    PROVE  SerialInv'
<1> USE DEF args
<1>1. \A d \in All : Envelopes(d)' = Envelopes(d) /\ Succeeded(d)' = Succeeded(d)
                     /\ Running(d)' = Running(d)
      BY DEF Envelopes, Succeeded, Running
<1>2. Alone' /\ Minting'
      BY <1>1 DEF SerialInv, Alone, Minting
<1>3. Linear'
      BY <1>1 DEF SerialInv, Linear, Kept
<1>4. ASSUME NEW d \in Commands, Running(d)' PROVE Reads(d)'
  <2>1. Reads(d)
        BY <1>1, <1>4 DEF SerialInv, All
  <2> QED BY <1>1, <2>1 DEF Reads, Kept
<1> QED BY <1>2, <1>3, <1>4 DEF SerialInv

LEMMA SerialStart ==
    ASSUME MaxAlive = 1, VaultInv, SerialInv, NEW c \in Commands, NEW v \in AllVerbs \ {"mint"},
           NEW m \in BOOLEAN, NEW r, NEW a, Start(c, v, m, r, a)
    PROVE  SerialInv'
<1>0. /\ c \in All /\ c # Mint /\ pc[c] = "idle" /\ CanStart(c) /\ bundle # <<>>
      /\ bundle' = bundle /\ code' = code
      /\ verb' = [verb EXCEPT ![c] = v] /\ own' = [own EXCEPT ![c] = m]
      /\ seen' = [seen EXCEPT ![c] = bundle]
      /\ parents' = [parents EXCEPT ![c] = Heads(bundle)]
      /\ pc' = [pc EXCEPT ![c] = "staged"]
      BY VaultCommandsAssumption DEF Start, CanStart, Goto, All
<1>1. \A d \in All : ~Running(d)
      BY <1>0, NobodyRuns DEF SerialInv
<1>2. /\ pc'[c] = "staged" /\ verb'[c] = v /\ seen'[c] = bundle /\ parents'[c] = Heads(bundle)
      /\ \A d \in All : d # c => /\ pc'[d] = pc[d] /\ verb'[d] = verb[d] /\ own'[d] = own[d]
                                 /\ parents'[d] = parents[d]
      BY <1>0 DEF VaultInv, FilesTyped
<1>3. \A d \in All : Succeeded(d)' => Succeeded(d) /\ Envelopes(d)' = Envelopes(d)
      BY <1>0, <1>2 DEF Succeeded, Envelopes
<1>4. Alone'
      BY <1>1, <1>2 DEF Alone, Running
<1>5. Minting'
  <2>1. Mint \in All /\ parents'[Mint] = parents[Mint] /\ pc'[Mint] = pc[Mint]
        BY <1>0, <1>2 DEF All
  <2> QED BY <1>0, <1>3, <2>1 DEF SerialInv, Minting
<1>6. Kept(bundle) /\ bundle \in Seq(Fps) /\ LinesOf(bundle) \subseteq cas
      BY <1>0 DEF SerialInv, Linear, VaultInv, BundleResolves, FilesTyped
<1>7. \A f \in LinesOf(bundle) : f.of # c
      BY <1>0, <1>6 DEF VaultInv, Fresh
<1>8. PICK tip \in All : ChainedTo(bundle, tip, parents)
      BY <1>0 DEF SerialInv, Linear
<1>9. ChainedTo(bundle, tip, parents')
  <2>1. \A d \in ActsOf(bundle) : parents'[d] = parents[d]
        BY <1>2, <1>7, FpFields DEF ActsOf, Action
  <2> QED BY <1>8, <2>1, ChainSame
<1>10. parents'[c] = {Action(tip)}
       BY <1>2, <1>6, <1>8, TipIsHead DEF ChainedTo
<1>11. Kept(bundle)'
       BY <1>0, <1>3, <1>6 DEF Kept
<1>12. Linear'
       BY <1>0, <1>9, <1>11 DEF Linear
<1>13. ASSUME NEW d \in Commands, Running(d)' PROVE Reads(d)'
  <2>1. d = c
        BY <1>1, <1>2, <1>13 DEF Running, All
  <2>2. seen'[c] = bundle'
        BY <1>0, <1>2
  <2> QED BY <1>0, <1>2, <1>7, <1>9, <1>10, <1>11, <2>1, <2>2 DEF Reads, Kept
<1> QED BY <1>0, <1>4, <1>5, <1>12, <1>13 DEF SerialInv

LEMMA SerialTruncate ==
    ASSUME VaultInv, SerialInv, NEW c \in All, TruncateBundle(c)
    PROVE  SerialInv'
<1> USE DEF args
<1>0. /\ c # Mint /\ c \in Commands /\ pc[c] = "promote" /\ bundle' = <<>>
      /\ pc' = [pc EXCEPT ![c] = "write"] /\ UNCHANGED <<args, code>>
      BY DEF TruncateBundle, Unpromoted, Goto, All
<1>1. /\ pc'[c] = "write" /\ \A d \in All : d # c => pc'[d] = pc[d]
      /\ \A d \in All : Envelopes(d)' = Envelopes(d)
      BY <1>0 DEF VaultInv, FilesTyped, Envelopes
<1>2. \A d \in All : Succeeded(d)' => Succeeded(d)
      BY <1>0, <1>1 DEF Succeeded
<1>3. Running(c) /\ \A d \in All : Running(d)' => d = c
      BY <1>0, <1>1 DEF SerialInv, Alone, Running
<1>4. Alone'
      BY <1>3 DEF Alone
<1>5. Minting'
  <2>1. Mint \in All /\ pc'[Mint] = pc[Mint] /\ ~Running(Mint)
        BY <1>0, <1>1, <1>3 DEF All, SerialInv, Alone
  <2>2. pc[Mint] # "keys" /\ parents'[Mint] = parents[Mint]
        BY <1>0, <2>1 DEF Running
  <2>3. pc[Mint] \notin {"idle", "staged", "bridge", "promote"}
        BY <1>0, <1>3 DEF SerialInv, Minting
  <2> QED BY <2>1, <2>2, <2>3 DEF SerialInv, Minting
<1>6. Linear'
      BY <1>0 DEF Linear
<1>7. Reads(c)
      BY <1>0, <1>3 DEF SerialInv
<1>8. Reads(c)'
      BY <1>0, <1>1, <1>2, <1>7 DEF Reads, Kept
<1> QED BY <1>0, <1>3, <1>4, <1>5, <1>6, <1>8, VaultCommandsAssumption DEF SerialInv, All

\* Nothing is left of an empty file under what is written.
LEMMA OverlayEmpty ==
    ASSUME NEW S, NEW s \in Seq(S) PROVE Overlay(s, <<>>) = s
<1>1. SubSeq(<<>>, Len(s) + 1, 0) = <<>>
      OBVIOUS
<1>2. s \o <<>> = s
      BY ConcatEmptySeq
<1> QED BY <1>1, <1>2 DEF Overlay

\* A command other than mint writes what it read and its own envelopes after it.
LEMMA WriteAppends ==
    ASSUME VaultInv, SerialInv, NEW c \in All, WriteBundle(c)
    PROVE  /\ c # Mint /\ c \in Commands /\ Running(c) /\ Reads(c)
           /\ seen[c] \in Seq(Fps) /\ Envelopes(c) \in Seq(Fps)
           /\ \A f \in LinesOf(Envelopes(c)) : f.of = c
           /\ Action(c) \in LinesOf(Envelopes(c)) /\ EndsWith(Envelopes(c), c)
           /\ verb[c] \in AllVerbs \ {"mint"}
           /\ bundle' = seen[c] \o Envelopes(c)
<1> DEFINE e == Envelopes(c)
           s == seen[c]
<1>0. pc[c] = "write" /\ bundle' = Overlay(s \o e, bundle)
      BY DEF WriteBundle
<1>1. c # Mint /\ c \in Commands /\ Running(c)
      BY <1>0 DEF SerialInv, Minting, All, Running
<1>2. Reads(c)
      BY <1>1 DEF SerialInv
<1>3. /\ s \in Seq(Fps) /\ e \in Seq(Fps)
      /\ \A f \in LinesOf(e) : f.of = c
      /\ Action(c) \in LinesOf(e) /\ EndsWith(e, c)
      /\ own[c] \in BOOLEAN /\ verb[c] \in AllVerbs \ {"mint"}
  <2>1. own[c] \in BOOLEAN /\ verb[c] \in AllVerbs \ {"mint"} /\ s \in Seq(Fps)
        BY <1>2 DEF VaultInv, FilesTyped, Reads
  <2>2. e \in Seq(Fps) /\ \A i \in 1..Len(e) : e[i].of = c
        BY <2>1, EnvelopesTyped
  <2>3. DOMAIN e = 1..Len(e)
        BY <2>2
  <2> QED BY <2>1, <2>2, <2>3, EnvelopesEnd DEF LinesOf
<1> HIDE DEF e, s
<1>4. s \o e \in Seq(Fps)
      BY <1>3, LinesConcat
<1>5. bundle' = s \o e
      BY <1>0, <1>2, <1>4, OverlayEmpty DEF Reads, s
<1> QED BY <1>1, <1>2, <1>3, <1>5 DEF e, s

LEMMA SerialWrite ==
    ASSUME VaultInv, SerialInv, NEW c \in All, WriteBundle(c)
    PROVE  SerialInv'
<1> USE DEF args
<1> DEFINE e == Envelopes(c)
           s == seen[c]
<1>0. /\ pc' = [pc EXCEPT ![c] = "done"] /\ code' = [code EXCEPT ![c] = 0]
      /\ UNCHANGED args
      BY DEF WriteBundle, Unpromoted, Exit, Goto
<1>1. c # Mint /\ c \in Commands /\ Running(c)
      BY WriteAppends
<1>2. Reads(c) /\ bundle' = s \o e
      BY WriteAppends
<1>3. /\ s \in Seq(Fps) /\ e \in Seq(Fps)
      /\ \A f \in LinesOf(e) : f.of = c
      /\ Action(c) \in LinesOf(e) /\ EndsWith(e, c)
      BY WriteAppends
<1> HIDE DEF e, s
<1>4. s \o e \in Seq(Fps) /\ LinesOf(s \o e) = LinesOf(s) \cup LinesOf(e)
      BY <1>3, LinesConcat
<1>6. /\ pc'[c] = "done" /\ \A d \in All : d # c => pc'[d] = pc[d]
      /\ \A d \in All : Envelopes(d)' = Envelopes(d)
      BY <1>0 DEF VaultInv, FilesTyped, Envelopes
<1>7. \A d \in All : d # c /\ Succeeded(d)' => Succeeded(d)
      BY <1>0, <1>6 DEF Succeeded
<1>8. \A d \in All : ~Running(d)'
      BY <1>1, <1>6 DEF SerialInv, Alone, Running
<1>9. Kept(s) /\ (\A f \in LinesOf(s) : f.of # c)
      /\ \E tip \in All : ChainedTo(s, tip, parents) /\ parents[c] = {Action(tip)}
      BY <1>2 DEF Reads, s
<1>10. Kept(bundle)'
  <2> SUFFICES ASSUME NEW d \in All, Succeeded(d)' PROVE LinesOf(Envelopes(d)) \subseteq LinesOf(s \o e)
      BY <1>2, <1>6 DEF Kept
  <2>1. CASE d = c
        BY <1>4, <2>1 DEF e
  <2>2. CASE d # c
        BY <1>4, <1>7, <1>9, <2>2 DEF Kept
  <2> QED BY <2>1, <2>2
<1>11. ChainedTo(s \o e, c, parents)
  <2>1. parents[Mint] = {}
        BY DEF SerialInv, Minting
  <2> QED BY <1>3, <1>9, <2>1, ChainExtended
<1>12. Linear'
       BY <1>0, <1>2, <1>10, <1>11 DEF Linear
<1>13. Minting'
  <2>1. Mint \in All /\ pc'[Mint] = pc[Mint] /\ ~Running(Mint)
        BY <1>1, <1>6 DEF All, SerialInv, Alone
  <2>2. pc[Mint] # "keys" /\ parents'[Mint] = parents[Mint]
        BY <1>0, <2>1 DEF Running
  <2>3. pc[Mint] \notin {"idle", "staged", "bridge", "promote"}
        BY <1>1 DEF SerialInv, Minting
  <2> QED BY <2>1, <2>2, <2>3 DEF SerialInv, Minting
<1>14. code' \in [All -> 0 .. 2]
       BY <1>0 DEF SerialInv
<1> QED BY <1>8, <1>12, <1>13, <1>14 DEF SerialInv, Alone, All

\* The manifest of mint records the mint action alone, and ends with its timeline.
LEMMA MintLinesActs == ActsOf(MintLines) = {Mint} /\ EndsWith(MintLines, Mint)
<1>1. /\ DOMAIN MintLines = 1..6 /\ MintLines[1] = Palace /\ MintLines[2] = Oracle
      /\ MintLines[3] = Genesis /\ MintLines[4] = Fp("registry", Mint)
      /\ MintLines[5] = Action(Mint) /\ MintLines[6] = Fp("timeline", Mint)
      BY DEF MintLines
<1>2. EndsWith(MintLines, Mint)
      BY <1>1 DEF EndsWith
<1>3. \A f \in LinesOf(MintLines) : f.of = Mint
  <2>1. \A f \in {Palace, Oracle, Genesis, Fp("registry", Mint), Action(Mint),
                  Fp("timeline", Mint)} : f.of = Mint
        BY FpFields DEF Palace, Oracle, Genesis, Action
  <2>2. \A i \in 1..6 : MintLines[i] \in {Palace, Oracle, Genesis, Fp("registry", Mint),
                                          Action(Mint), Fp("timeline", Mint)}
        BY <1>1
  <2> QED BY <1>1, <2>1, <2>2 DEF LinesOf
<1>4. Action(Mint) \in LinesOf(MintLines)
      BY <1>1 DEF LinesOf
<1>5. ActsOf(MintLines) = {Mint}
      BY <1>3, <1>4, FpFields DEF ActsOf, Action, All
<1> QED BY <1>2, <1>5

LEMMA SerialInstall ==
    ASSUME VaultInv, SerialInv, InstallBundle
    PROVE  SerialInv'
<1> USE DEF args
<1>0. /\ Mint \in All /\ pc[Mint] = "promote" /\ bundle' = MintLines
      /\ pc' = [pc EXCEPT ![Mint] = "keys"] /\ UNCHANGED <<args, code>>
      BY DEF InstallBundle, Unpromoted, Goto, All
<1>1. /\ pc'[Mint] = "keys" /\ \A d \in All : d # Mint => pc'[d] = pc[d]
      BY <1>0 DEF VaultInv, FilesTyped
<1>2. parents'[Mint] = {} /\ \A d \in All : ~Succeeded(d)
      BY <1>0 DEF SerialInv, Minting
<1>3. \A d \in All : ~Succeeded(d)'
      BY <1>0, <1>1, <1>2 DEF Succeeded
<1>4. \A d \in All : Running(d)' => d = Mint
      BY <1>0, <1>1 DEF SerialInv, Alone, Running
<1>5. Minting'
      BY <1>0, <1>1, <1>2 DEF Minting
<1>6. ChainedTo(MintLines, Mint, parents')
  <2> QED BY <1>2, MintLinesActs DEF ChainedTo
<1>7. Linear'
      BY <1>0, <1>3, <1>6 DEF Linear, Kept
<1>8. Alone' /\ \A d \in Commands : ~Running(d)'
      BY <1>4, VaultCommandsAssumption DEF Alone, All
<1> QED BY <1>0, <1>5, <1>7, <1>8 DEF SerialInv

LEMMA SerialKeys ==
    ASSUME VaultInv, SerialInv, InstallKeys
    PROVE  SerialInv'
<1> USE DEF args
<1>0. /\ Mint \in All /\ pc[Mint] = "keys" /\ bundle' = bundle
      /\ pc' = [pc EXCEPT ![Mint] = "done"] /\ code' = [code EXCEPT ![Mint] = 0]
      /\ UNCHANGED args
      BY DEF InstallKeys, RollBack, Exit, Goto, All
<1>1. /\ pc'[Mint] = "done" /\ \A d \in All : d # Mint => pc'[d] = pc[d]
      /\ \A d \in All : Envelopes(d)' = Envelopes(d)
      BY <1>0 DEF VaultInv, FilesTyped, Envelopes
<1>2. \A d \in All : d # Mint /\ Succeeded(d)' => Succeeded(d)
      BY <1>0, <1>1 DEF Succeeded
<1>3. \A d \in All : ~Running(d)'
      BY <1>0, <1>1 DEF SerialInv, Alone, Running
<1>4. bundle = MintLines
      BY <1>0 DEF SerialInv, Minting
<1>5. MintLines # <<>>
      BY DEF MintLines
<1>6. LinesOf(Envelopes(Mint)) \subseteq LinesOf(MintLines)
  <2>1. Envelopes(Mint) = <<Oracle, Genesis, Fp("registry", Mint), Action(Mint),
                            Fp("timeline", Mint), Palace>>
        BY DEF VaultInv, Control, Envelopes, Oracle, Genesis, Action, Palace
  <2>2. /\ DOMAIN MintLines = 1..6 /\ MintLines[1] = Palace /\ MintLines[2] = Oracle
        /\ MintLines[3] = Genesis /\ MintLines[4] = Fp("registry", Mint)
        /\ MintLines[5] = Action(Mint) /\ MintLines[6] = Fp("timeline", Mint)
        BY DEF MintLines
  <2>3. {Palace, Oracle, Genesis, Fp("registry", Mint), Action(Mint), Fp("timeline", Mint)}
           \subseteq LinesOf(MintLines)
        BY <2>2 DEF LinesOf
  <2>4. \A i \in DOMAIN Envelopes(Mint) : Envelopes(Mint)[i] \in
           {Palace, Oracle, Genesis, Fp("registry", Mint), Action(Mint), Fp("timeline", Mint)}
        BY <2>1
  <2> QED BY <2>3, <2>4 DEF LinesOf
<1>7. Kept(bundle)'
  <2> SUFFICES ASSUME NEW d \in All, Succeeded(d)'
               PROVE  LinesOf(Envelopes(d)) \subseteq LinesOf(bundle)
      BY <1>0, <1>1 DEF Kept
  <2>1. CASE d = Mint
        BY <1>4, <1>6, <2>1
  <2>2. CASE d # Mint
        BY <1>2, <1>4, <1>5, <2>2 DEF SerialInv, Linear, Kept
  <2> QED BY <2>1, <2>2
<1>8. Linear'
      BY <1>0, <1>7 DEF SerialInv, Linear
<1>9. Minting'
      BY <1>0, <1>1 DEF SerialInv, Minting
<1>10. code' \in [All -> 0 .. 2]
       BY <1>0 DEF SerialInv
<1> QED BY <1>3, <1>8, <1>9, <1>10 DEF SerialInv, Alone, All

LEMMA SerialInit == Init => SerialInv
BY DEF Init, SerialInv, Alone, Minting, Linear, Running, Succeeded, All

LEMMA SerialStep ==
    ASSUME MaxAlive = 1, VaultInv, SerialInv, [Next]_vars PROVE SerialInv'
<1>1. CASE UNCHANGED vars
      BY <1>1, SerialSame DEF vars, files
<1>2. CASE StartMint
  <2>1. Mint \in All /\ pc[Mint] = "idle" /\ pc' = [pc EXCEPT ![Mint] = "staged"]
        /\ CanStart(Mint) /\ UNCHANGED <<bundle, args, code>>
        BY <1>2 DEF StartMint, CanStart, Goto, All
  <2>2. \A d \in All : ~Running(d)
        BY <2>1, NobodyRuns DEF SerialInv
  <2> QED BY <2>1, <2>2, SerialQuiet DEF SerialInv
<1>3. CASE InstallBundle
      BY <1>3, SerialInstall
<1>4. CASE InstallKeys
      BY <1>4, SerialKeys
<1>5. ASSUME NEW c \in All, CommandStep(c) PROVE SerialInv'
  <2> USE DEF files
  <2>0. ASSUME NEW n \in 1..2, Exit(c, n), UNCHANGED <<bundle, args>> PROVE SerialInv'
    <3>1. /\ pc' = [pc EXCEPT ![c] = "done"] /\ code' = [code EXCEPT ![c] = n]
          /\ code \in [All -> 0 .. 2]
          BY <2>0 DEF Exit, Goto, SerialInv
    <3>2. /\ code' \in [All -> 0 .. 2] /\ code'[c] # 0
          /\ \A d \in All \ {c} : code'[d] = code[d]
          BY <3>1
    <3> QED BY <2>0, <3>1, <3>2, SerialQuiet
  <2>1. CASE Refuse(c) \/ BridgeRefuses(c) \/ BridgeFails(c) \/ FileFails(c)
    <3>1. UNCHANGED <<bundle, args>> /\ \E n \in 1..2 : Exit(c, n)
          BY <2>1 DEF Refuse, BridgeRefuses, BridgeFails, FileFails, RollBack
    <3> QED BY <2>0, <3>1
  <2>2. CASE StartAny(c)
    <3>1. PICK v \in Verbs, m \in BOOLEAN, r \in Fps \cup {None}, a \in Fps \cup {None} :
             Start(c, v, m, r, a)
          BY <2>2 DEF StartAny, StartAddRoom, StartInscribe, StartMove, StartRename,
                       Known, Fps, Fp, Kinds, All
    <3>2. v \in AllVerbs \ {"mint"} /\ c \in Commands
          BY <3>1, VaultVerbsAssumption DEF Start, All
    <3> QED BY <3>1, <3>2, SerialStart
  <2>3. CASE OpenStore(c)
    <3>1. /\ pc[c] = "staged" /\ pc' = [pc EXCEPT ![c] = "bridge"]
          /\ UNCHANGED <<bundle, args, code>>
          BY <2>3 DEF OpenStore, Goto
    <3> QED BY <3>1, SerialQuiet DEF SerialInv
  <2>4. CASE BridgeQuery(c) \/ SkipAqueduct(c)
    <3>1. UNCHANGED <<bundle, args, pc, code>>
          BY <2>4 DEF BridgeQuery, SkipAqueduct, Runs, CreateNode, CreateContains,
             CreateLivesIn, DeleteLivesIn, DropInscription, CreatePredecessor, DeleteHead,
             CreateHead, SetHeadColumn, ForgetHeads, CreateTriple, CreateKnowledge,
             AppendLog, MirrorAqueduct, CreateAqueduct, CreateEnd, Strengthen
    <3> QED BY <3>1, SerialSame
  <2>5. CASE BridgeExits(c)
    <3>1. /\ pc[c] = "bridge" /\ UNCHANGED <<bundle, args>>
          /\ Exit(c, 2) \/ (pc' = [pc EXCEPT ![c] = "promote"] /\ code' = code)
          BY <2>5 DEF BridgeExits, RollBack, Goto
    <3>2. CASE Exit(c, 2)
          BY <2>0, <3>1, <3>2
    <3>3. CASE pc' = [pc EXCEPT ![c] = "promote"] /\ code' = code
          BY <3>1, <3>3, SerialQuiet DEF SerialInv
    <3> QED BY <3>1, <3>2, <3>3
  <2>6. CASE Promote(c)
    <3>1. UNCHANGED <<bundle, args, pc, code>>
          BY <2>6 DEF Promote
    <3> QED BY <3>1, SerialSame
  <2>7. CASE TruncateBundle(c)
        BY <2>7, SerialTruncate
  <2>8. CASE WriteBundle(c)
        BY <2>8, SerialWrite
  <2>9. CASE Die(c)
    <3>1. /\ pc' = [pc EXCEPT ![c] = "dead"]
          /\ UNCHANGED <<bundle, args, code>>
          BY <2>9 DEF Die, Goto
    <3> QED BY <3>1, SerialQuiet DEF SerialInv
  <2> QED BY <1>5, <2>1, <2>2, <2>3, <2>4, <2>5, <2>6, <2>7, <2>8, <2>9 DEF CommandStep
<1> QED BY <1>1, <1>2, <1>3, <1>4, <1>5 DEF Next

\* One command at a time: the actions of the bundle are one chain from the mint
\* action and the head a new command reads is its end, whichever step of whichever
\* command failed (invariant e of `palace verify`).
THEOREM VaultHistoryLinear == ASSUME MaxAlive = 1 PROVE Spec => []HistoryLinear
<1>1. VaultInv /\ SerialInv => HistoryLinear
  <2> SUFFICES ASSUME VaultInv, SerialInv PROVE HistoryLinear
      OBVIOUS
  <2>1. CASE bundle = <<>>
    <3>1. \A c \in All : ~Recorded(c)
          BY <2>1 DEF Recorded, LinesOf
    <3> QED BY <3>1 DEF HistoryLinear
  <2>2. CASE bundle # <<>>
    <3>1. PICK tip \in All : ChainedTo(bundle, tip, parents)
          BY <2>2 DEF SerialInv, Linear
    <3>2. Heads(bundle) = {Action(tip)}
          BY <3>1, TipIsHead DEF ChainedTo, VaultInv, FilesTyped, BundleResolves
    <3>3. {c \in All : Recorded(c)} = ActsOf(bundle)
          BY DEF ActsOf, Recorded
    <3> QED BY <3>1, <3>2, <3>3 DEF ChainedTo, HistoryLinear
  <2> QED BY <2>1, <2>2
<1>2. Spec => []SerialInv
      BY SerialInit, SerialStep, VaultInvariant, PTL DEF Spec
<1> QED BY <1>1, <1>2, VaultInvariant, PTL

\* One command at a time: what a command that exited 0 signed stays in the bundle,
\* unless the whole bundle is lost while it is rewritten.
THEOREM VaultAcknowledged == ASSUME MaxAlive = 1 PROVE Spec => []Acknowledged
<1>1. SerialInv => Acknowledged
      BY DEF SerialInv, Linear, Kept, Acknowledged
<1>2. Spec => []SerialInv
      BY SerialInit, SerialStep, VaultInvariant, PTL DEF Spec
<1> QED BY <1>1, <1>2, PTL
-----------------------------------------------------------------------------
(***************************************************************************)
(* What needs the script of a bridge: every variable keeps its type, the   *)
(* graph included, and no action is stored that the graph has not logged,  *)
(* for any number of commands running at once.  And, for commands that run *)
(* one after the other: the graph points to the mythos, and has an         *)
(* inscription in the room, that the bundle's last lines say.              *)
(***************************************************************************)

\* The queries a bridge may have in its script, when f is the room a move
\* starts from: what they write is typed.
Opt == Fps \cup {None}

Callable(c, f) ==
    {q \in Queries \X Opt \X Opt :
        /\ q[1] \in {"node", "log"} => q[2] \in Fps
        /\ q[1] = "chain" => verb[c] = "rename-mythos"
        /\ q[1] \in {"aqueduct", "aqFrom", "aqTo"} =>
              room[c] \in Fps /\ (verb[c] = "move" => f \in Fps)}

\* The queries that may be given up.
AqueductCall(q) == q[1] \in {"aqueduct", "aqTo"} \/ (q[1] = "log" /\ q[2].kind = "aqueduct")

Quiet(s) == \A i \in 1..Len(s) : ~AqueductCall(s[i])

\* The signed action is logged before any query that may be given up.
Announces(c, s) ==
    \E j \in 1..Len(s) : /\ s[j] = LogRow(Action(c))
                         /\ \A i \in 1..(j-1) : ~AqueductCall(s[i])

Mirrored(c) == SameRoom(c) \/ Logged(Action(c))

\* The script of a running bridge.
Scripted == \A c \in All : pc[c] = "bridge" => todo[c] \in Seq(Callable(c, from[c]))

\* A command stores nothing before its bridge has ended.
Unstored == \A c \in All : pc[c] \in {"idle", "staged", "bridge"} => \A f \in cas : f.of # c

\* The action is logged, or the script still has it.
Announced ==
    \A c \in All : /\ pc[c] = "bridge" => Mirrored(c) \/ Announces(c, todo[c])
                   /\ pc[c] \in {"promote", "write", "keys"} => Mirrored(c)

MirrorInv ==
    /\ TypeOK
    /\ VaultInv
    /\ Scripted
    /\ Unstored
    /\ Announced
    /\ MirroredFirst

-----------------------------------------------------------------------------
\* Concatenation keeps what is said of scripts.

LEMMA Concat ==
    ASSUME NEW S, NEW s \in Seq(S), NEW t \in Seq(S)
    PROVE  /\ s \o t \in Seq(S)
           /\ Len(s \o t) = Len(s) + Len(t) /\ Len(s) \in Nat /\ Len(t) \in Nat
           /\ \A i \in 1..Len(s) : (s \o t)[i] = s[i]
           /\ \A i \in 1..Len(t) : (s \o t)[Len(s) + i] = t[i]
           /\ \A i \in 1 .. Len(s) + Len(t) :
                 (s \o t)[i] = IF i <= Len(s) THEN s[i] ELSE t[i - Len(s)]
<1>1. /\ s \o t \in Seq(S)
      /\ Len(s \o t) = Len(s) + Len(t)
      /\ \A i \in 1 .. Len(s) + Len(t) :
            (s \o t)[i] = IF i <= Len(s) THEN s[i] ELSE t[i - Len(s)]
      BY ConcatProperties
<1>2. Len(s) \in Nat /\ Len(t) \in Nat
      OBVIOUS
<1>3. ASSUME NEW i \in 1..Len(t) PROVE (s \o t)[Len(s) + i] = t[i]
  <2>1. Len(s) + i \in 1 .. Len(s) + Len(t) /\ ~(Len(s) + i <= Len(s))
        /\ (Len(s) + i) - Len(s) = i
        BY <1>2, <1>3
  <2> QED BY <1>1, <2>1
<1>4. \A i \in 1..Len(s) : (s \o t)[i] = s[i]
      BY <1>1, <1>2
<1> QED BY <1>1, <1>2, <1>3, <1>4

LEMMA QuietConcat ==
    ASSUME NEW S, NEW s \in Seq(S), NEW t \in Seq(S), Quiet(s), Quiet(t)
    PROVE  Quiet(s \o t)
<1> SUFFICES ASSUME NEW i \in 1..Len(s \o t) PROVE ~AqueductCall((s \o t)[i])
    BY DEF Quiet
<1>1. CASE i <= Len(s)
      BY <1>1, Concat DEF Quiet
<1>2. CASE ~(i <= Len(s))
  <2>1. i - Len(s) \in 1..Len(t)
        BY <1>2, Concat
  <2> QED BY <1>2, <2>1, Concat DEF Quiet
<1> QED BY <1>1, <1>2

LEMMA AnnouncesAfter ==
    ASSUME NEW S, NEW s \in Seq(S), NEW t \in Seq(S), NEW c, Quiet(s), Announces(c, t)
    PROVE  Announces(c, s \o t)
<1>1. PICK j \in 1..Len(t) : /\ t[j] = LogRow(Action(c))
                             /\ \A i \in 1..(j-1) : ~AqueductCall(t[i])
      BY DEF Announces
<1> DEFINE u == s \o t
           k == Len(s) + j
<1>2. k \in 1..Len(u) /\ u[k] = LogRow(Action(c))
      BY <1>1, Concat
<1>3. ASSUME NEW i \in 1..(k-1) PROVE ~AqueductCall(u[i])
  <2>1. CASE i <= Len(s)
        BY <2>1, <1>3, Concat DEF Quiet
  <2>2. CASE ~(i <= Len(s))
    <3>1. i - Len(s) \in 1..(j-1) /\ i \in 1 .. Len(s) + Len(t)
          BY <1>3, <2>2, Concat
    <3>2. u[i] = t[i - Len(s)]
          BY <2>2, <3>1, Concat
    <3> QED BY <1>1, <3>1, <3>2
  <2> QED BY <2>1, <2>2
<1> HIDE DEF u, k
<1>4. Announces(c, u)
      BY <1>2, <1>3 DEF Announces
<1> QED BY <1>4 DEF u

LEMMA AnnouncesBefore ==
    ASSUME NEW S, NEW s \in Seq(S), NEW t \in Seq(S), NEW c, Announces(c, s)
    PROVE  Announces(c, s \o t)
<1>1. PICK j \in 1..Len(s) : /\ s[j] = LogRow(Action(c))
                             /\ \A i \in 1..(j-1) : ~AqueductCall(s[i])
      BY DEF Announces
<1>2. j \in 1..Len(s \o t) /\ (s \o t)[j] = LogRow(Action(c))
      BY <1>1, Concat
<1>3. \A i \in 1..(j-1) : ~AqueductCall((s \o t)[i])
      BY <1>1, Concat
<1> QED BY <1>2, <1>3 DEF Announces

LEMMA TailTyped ==
    ASSUME NEW S, NEW s \in Seq(S), s # <<>> PROVE Tail(s) \in Seq(S)
OBVIOUS

\* What is left after the first query, or after giving up an aqueduct.
LEMMA AnnouncesTail ==
    ASSUME NEW S, NEW s \in Seq(S), s # <<>>, NEW c, Announces(c, s),
           Head(s) # LogRow(Action(c))
    PROVE  Announces(c, Tail(s))
<1>1. PICK j \in 1..Len(s) : /\ s[j] = LogRow(Action(c))
                             /\ \A i \in 1..(j-1) : ~AqueductCall(s[i])
      BY DEF Announces
<1>2. j # 1
      BY <1>1
<1>3. Len(Tail(s)) = Len(s) - 1 /\ \A i \in 1..(Len(s) - 1) : Tail(s)[i] = s[i + 1]
      OBVIOUS
<1>4. j - 1 \in 1..Len(Tail(s)) /\ Tail(s)[j - 1] = LogRow(Action(c))
      BY <1>1, <1>2, <1>3
<1>5. \A i \in 1..(j-2) : ~AqueductCall(Tail(s)[i])
  <2>1. ASSUME NEW i \in 1..(j-2) PROVE Tail(s)[i] = s[i + 1] /\ i + 1 \in 1..(j-1)
        BY <1>3
  <2> QED BY <1>1, <2>1
<1>6. (j - 1) - 1 = j - 2
      OBVIOUS
<1> QED BY <1>4, <1>5, <1>6 DEF Announces

LEMMA AnnouncesHead ==
    ASSUME NEW S, NEW s \in Seq(S), s # <<>>, NEW c, Announces(c, s)
    PROVE  ~AqueductCall(Head(s))
<1>1. PICK j \in 1..Len(s) : /\ s[j] = LogRow(Action(c))
                             /\ \A i \in 1..(j-1) : ~AqueductCall(s[i])
      BY DEF Announces
<1>2. CASE j = 1
  <2>1. Head(s) = <<"log", Action(c), None>>
        BY <1>1, <1>2 DEF LogRow
  <2>2. Action(c).kind = "action"
        BY FpFields DEF Action
  <2> QED BY <2>1, <2>2 DEF AqueductCall
<1>3. CASE j # 1
  <2>1. 1 \in 1..(j-1) /\ Head(s) = s[1]
        BY <1>3
  <2> QED BY <1>1, <2>1
<1> QED BY <1>2, <1>3

-----------------------------------------------------------------------------
\* The scripts.

LEMMA FpCalls ==
    ASSUME NEW c \in All, NEW f
    PROVE  /\ \A k \in Kinds : /\ Node(Fp(k, c)) \in Callable(c, f)
                               /\ LogRow(Fp(k, c)) \in Callable(c, f)
                               /\ k # "aqueduct" => ~AqueductCall(LogRow(Fp(k, c)))
                               /\ ~AqueductCall(Node(Fp(k, c)))
           /\ \A g, h \in Opt : /\ Contain(g, h) \in Callable(c, f) /\ ~AqueductCall(Contain(g, h))
                               /\ Live(g, h) \in Callable(c, f) /\ ~AqueductCall(Live(g, h))
                               /\ Unlive(g, h) \in Callable(c, f) /\ ~AqueductCall(Unlive(g, h))
           /\ \A n \in {"drop", "unhead", "head", "headCol", "triple", "know", "forget",
                        "mirror", "strengthen"} :
                 Query(n) \in Callable(c, f) /\ ~AqueductCall(Query(n))
<1>1. ASSUME NEW k \in Kinds
      PROVE  /\ Node(Fp(k, c)) \in Callable(c, f)
             /\ LogRow(Fp(k, c)) \in Callable(c, f)
             /\ k # "aqueduct" => ~AqueductCall(LogRow(Fp(k, c)))
             /\ ~AqueductCall(Node(Fp(k, c)))
  <2>1. Fp(k, c) \in Fps /\ Fp(k, c).kind = k
        BY FpTyped, FpFields
  <2> QED BY <2>1 DEF Node, LogRow, Callable, Queries, Opt, AqueductCall
<1>2. ASSUME NEW g \in Opt, NEW h \in Opt
      PROVE  /\ Contain(g, h) \in Callable(c, f) /\ ~AqueductCall(Contain(g, h))
             /\ Live(g, h) \in Callable(c, f) /\ ~AqueductCall(Live(g, h))
             /\ Unlive(g, h) \in Callable(c, f) /\ ~AqueductCall(Unlive(g, h))
      BY <1>2 DEF Contain, Live, Unlive, Callable, Queries, AqueductCall
<1>3. ASSUME NEW n \in {"drop", "unhead", "head", "headCol", "triple", "know", "forget",
                       "mirror", "strengthen"}
      PROVE  Query(n) \in Callable(c, f) /\ ~AqueductCall(Query(n))
      BY <1>3 DEF Query, Callable, Queries, Opt, AqueductCall
<1> QED BY <1>1, <1>2, <1>3

LEMMA OwnCalls ==
    ASSUME NEW c \in All, NEW f, room[c] \in Opt
    PROVE  /\ MythosNode(c) \in Seq(Callable(c, f)) /\ Quiet(MythosNode(c))
           /\ Inscribed(c) \in Seq(Callable(c, f)) /\ Quiet(Inscribed(c))
           /\ SwapHead \in Seq(Callable(c, f)) /\ Quiet(SwapHead)
<1>1. /\ "mythos" \in Kinds /\ "inscription" \in Kinds
      /\ Fp("inscription", c) \in Opt
      BY FpTyped DEF Kinds, Opt
<1>2. MythosNode(c) \in Seq(Callable(c, f)) /\ Quiet(MythosNode(c))
  <2>1. Node(Fp("mythos", c)) \in Callable(c, f) /\ ~AqueductCall(Node(Fp("mythos", c)))
        BY <1>1, FpCalls
  <2> QED BY <2>1 DEF MythosNode, Quiet
<1>3. Inscribed(c) \in Seq(Callable(c, f)) /\ Quiet(Inscribed(c))
  <2> DEFINE i == Fp("inscription", c)
  <2>1. /\ Node(i) \in Callable(c, f) /\ ~AqueductCall(Node(i))
        /\ Contain(room[c], i) \in Callable(c, f) /\ ~AqueductCall(Contain(room[c], i))
        /\ Live(i, room[c]) \in Callable(c, f) /\ ~AqueductCall(Live(i, room[c]))
        BY <1>1, FpCalls
  <2>2. Inscribed(c) = <<Node(i), Contain(room[c], i), Live(i, room[c])>>
        BY DEF Inscribed
  <2> HIDE DEF i
  <2> QED BY <2>1, <2>2 DEF Quiet
<1>4. SwapHead \in Seq(Callable(c, f)) /\ Quiet(SwapHead)
  <2>1. \A n \in {"unhead", "head", "headCol"} :
            Query(n) \in Callable(c, f) /\ ~AqueductCall(Query(n))
        BY FpCalls
  <2> QED BY <2>1 DEF SwapHead, Quiet
<1> QED BY <1>2, <1>3, <1>4

LEMMA AqueductCalls ==
    ASSUME NEW c \in All, NEW f, room[c] \in Fps, verb[c] = "move" => f \in Fps
    PROVE  /\ RoomAqueduct(c) \in Seq(Callable(c, f))
           /\ MoveAqueduct(c, f, room[c]) \in Seq(Callable(c, f))
<1> DEFINE S == Callable(c, f)
<1>1. \A n \in {"aqueduct", "aqFrom", "aqTo", "mirror", "strengthen"} : Query(n) \in S
      BY DEF Query, Callable, Queries, Opt
<1>2. LogRow(Fp("aqueduct", c)) \in S
      BY FpCalls DEF Kinds
<1>3. room[c] \in Opt
      BY DEF Opt
<1>4. MythosNode(c) \in Seq(S)
      BY <1>3, OwnCalls
<1> HIDE DEF S
<1>5. RoomAqueduct(c) \in Seq(S)
  <2>1. CASE <<Palace, room[c]>> \in db.aqueducts
        BY <1>4, <2>1 DEF RoomAqueduct
  <2>2. CASE <<Palace, room[c]>> \notin db.aqueducts
    <3> DEFINE a == <<Query("aqueduct"), Query("aqTo"), LogRow(Fp("aqueduct", c))>>
               z == <<Query("mirror")>>
    <3>1. a \in Seq(S) /\ z \in Seq(S)
          BY <1>1, <1>2
    <3>2. RoomAqueduct(c) = (a \o MythosNode(c)) \o z
          BY <2>2 DEF RoomAqueduct
    <3> HIDE DEF a, z
    <3>3. a \o MythosNode(c) \in Seq(S)
          BY <1>4, <3>1, Concat
    <3>4. (a \o MythosNode(c)) \o z \in Seq(S)
          BY <3>1, <3>3, Concat
    <3> QED BY <3>2, <3>4
  <2> QED BY <2>1, <2>2
<1>6. MoveAqueduct(c, f, room[c]) \in Seq(S)
      BY <1>1, <1>2 DEF MoveAqueduct
<1> QED BY <1>5, <1>6 DEF S

\* Every script is typed, and logs the signed action before anything that may be
\* given up, unless the move has nowhere to go.
LEMMA ScriptCalls ==
    ASSUME NEW c \in All, NEW f \in Opt, NEW offl \in BOOLEAN, verb[c] \in AllVerbs,
           room[c] \in Opt, avatar[c] \in Opt,
           verb[c] \in {"inscribe", "inscribe-via", "move"} => room[c] \in Fps,
           verb[c] = "move" => f \in Fps
    PROVE  /\ Script(c, f, offl) \in Seq(Callable(c, f))
           /\ (verb[c] = "move" /\ f = room[c]) \/ Announces(c, Script(c, f, offl))
<1> DEFINE S == Callable(c, f)
           log == LogRow(Action(c))
           Good(s) == s \in Seq(S) /\ Announces(c, s)
           Calm(s) == s \in Seq(S) /\ Quiet(s)
<1>1. log \in S
      BY FpCalls DEF Kinds, Action
<1>2. \A k \in Kinds : Node(Fp(k, c)) \in S /\ ~AqueductCall(Node(Fp(k, c)))
      BY FpCalls
<1>3. \A g, h \in Opt : /\ Contain(g, h) \in S /\ ~AqueductCall(Contain(g, h))
                        /\ Live(g, h) \in S /\ ~AqueductCall(Live(g, h))
                        /\ Unlive(g, h) \in S /\ ~AqueductCall(Unlive(g, h))
      BY FpCalls
<1>4. \A n \in {"drop", "unhead", "head", "headCol", "triple", "know", "forget",
                "mirror", "strengthen"} : Query(n) \in S /\ ~AqueductCall(Query(n))
      BY FpCalls
<1>5. Calm(MythosNode(c)) /\ Calm(Inscribed(c)) /\ Calm(SwapHead)
      BY OwnCalls
<1>6. \A k \in Kinds : Fp(k, Mint) \in Opt
      BY FpTyped DEF Opt, All
<1>7. /\ Node(Palace) \in S /\ ~AqueductCall(Node(Palace))
      /\ Node(Genesis) \in S /\ ~AqueductCall(Node(Genesis))
      /\ Node(Oracle) \in S /\ ~AqueductCall(Node(Oracle))
  <2>1. Palace \in Fps /\ Genesis \in Fps /\ Oracle \in Fps
        BY FpTyped DEF Palace, Genesis, Oracle, Kinds, All
  <2> QED BY <2>1 DEF Node, Callable, Queries, Opt, AqueductCall
<1>8. Palace \in Opt /\ Oracle \in Opt /\ Fp("room", c) \in Opt
      BY <1>6, FpTyped DEF Palace, Oracle, Kinds, Opt
<1>9. <<log>> \in Seq(S) /\ Good(<<log>>)
  <2>1. <<log>> \in Seq(S) /\ Len(<<log>>) = 1 /\ <<log>>[1] = log
        BY <1>1
  <2> QED BY <2>1 DEF Announces
<1> HIDE DEF S, log
<1>10. \A s, t : Good(s) /\ t \in Seq(S) => Good(s \o t)
  <2> SUFFICES ASSUME NEW s \in Seq(S), NEW t \in Seq(S), Announces(c, s) PROVE Good(s \o t)
      OBVIOUS
  <2> QED BY Concat, AnnouncesBefore
<1>11. \A s, t : Calm(s) /\ Good(t) => Good(s \o t)
  <2> SUFFICES ASSUME NEW s \in Seq(S), NEW t \in Seq(S), Quiet(s), Announces(c, t)
               PROVE  Good(s \o t)
      OBVIOUS
  <2> QED BY Concat, AnnouncesAfter
<1>12. \A s, t : Calm(s) /\ Calm(t) => Calm(s \o t)
  <2> SUFFICES ASSUME NEW s \in Seq(S), NEW t \in Seq(S), Quiet(s), Quiet(t)
               PROVE  Calm(s \o t)
      OBVIOUS
  <2> QED BY Concat, QuietConcat
<1>13. CASE verb[c] = "mint"
  <2> DEFINE a == <<Node(Palace), Node(Genesis)>>
             z == <<Node(Oracle), Contain(Palace, Oracle), Query("triple"), Query("know"), log>>
  <2>1. Calm(a)
        BY <1>7 DEF Quiet
  <2>2. Good(z)
    <3>1. z \in Seq(S) /\ Len(z) = 5 /\ z[5] = log
          BY <1>1, <1>3, <1>4, <1>7, <1>8 DEF log, S
    <3>2. \A i \in 1..4 : ~AqueductCall(z[i])
          BY <1>3, <1>4, <1>7, <1>8
    <3> HIDE DEF z
    <3> QED BY <3>1, <3>2 DEF Announces, log
  <2>3. Script(c, f, offl) = (a \o SwapHead) \o z
        BY <1>13 DEF Script, MintScript, log
  <2> HIDE DEF a, z
  <2>4. Good((a \o SwapHead) \o z)
        BY <1>5, <1>11, <1>12, <2>1, <2>2
  <2> QED BY <2>3, <2>4 DEF S
<1>14. CASE verb[c] = "add-room"
  <2> DEFINE a == <<Node(Fp("room", c)), Contain(Palace, Fp("room", c))>>
  <2>1. Calm(a)
        BY <1>2, <1>3, <1>8 DEF Quiet, Kinds
  <2>2. Script(c, f, offl) = (a \o MythosNode(c)) \o <<log>>
        BY <1>14 DEF Script, AddRoomScript, log
  <2> HIDE DEF a
  <2>3. Good((a \o MythosNode(c)) \o <<log>>)
        BY <1>5, <1>9, <1>11, <1>12, <2>1
  <2> QED BY <2>2, <2>3 DEF S
<1>15. CASE verb[c] = "inscribe"
  <2>1. Script(c, f, offl) = (Inscribed(c) \o <<log>>) \o RoomAqueduct(c)
        BY <1>15 DEF Script, InscribeScript, log
  <2>2. RoomAqueduct(c) \in Seq(S)
        BY <1>15, AqueductCalls DEF S
  <2>3. Good((Inscribed(c) \o <<log>>) \o RoomAqueduct(c))
        BY <1>5, <1>9, <1>10, <1>11, <2>2
  <2> QED BY <2>1, <2>3 DEF S
<1>16. CASE verb[c] = "inscribe-via"
  <2> DEFINE a == IF offl THEN <<>> ELSE <<Query("drop")>> \o Inscribed(c)
  <2>1. a \in Seq(S)
    <3>1. <<Query("drop")>> \in Seq(S)
          BY <1>4 DEF S
    <3>2. <<Query("drop")>> \o Inscribed(c) \in Seq(S)
          BY <1>5, <3>1, Concat
    <3> QED BY <3>2
  <2>2. RoomAqueduct(c) \in Seq(S)
        BY <1>16, AqueductCalls DEF S
  <2>3. Script(c, f, offl) = ((<<log>> \o Inscribed(c)) \o a) \o RoomAqueduct(c)
        BY <1>16 DEF Script, InscribeViaScript, log
  <2> HIDE DEF a
  <2>4. Good(((<<log>> \o Inscribed(c)) \o a) \o RoomAqueduct(c))
        BY <1>5, <1>9, <1>10, <2>1, <2>2
  <2> QED BY <2>3, <2>4 DEF S
<1>17. CASE verb[c] = "move" /\ f = room[c]
  <2>1. Script(c, f, offl) = <<>>
        BY <1>17 DEF Script, MoveScript
  <2> QED BY <1>17, <2>1
<1>18. CASE verb[c] = "move" /\ f # room[c]
  <2> DEFINE a == <<Unlive(avatar[c], f), Live(avatar[c], room[c]), log>>
  <2>1. Good(a)
    <3>1. a \in Seq(S) /\ Len(a) = 3 /\ a[3] = log
          BY <1>1, <1>3 DEF log, S
    <3>2. \A i \in 1..2 : ~AqueductCall(a[i])
          BY <1>3
    <3> HIDE DEF a
    <3> QED BY <3>1, <3>2 DEF Announces, log
  <2>2. MoveAqueduct(c, f, room[c]) \in Seq(S)
        BY <1>18, AqueductCalls DEF S
  <2>3. Script(c, f, offl) = a \o MoveAqueduct(c, f, room[c])
        BY <1>18 DEF Script, MoveScript, log
  <2> HIDE DEF a
  <2>4. Good(a \o MoveAqueduct(c, f, room[c]))
        BY <1>10, <2>1, <2>2
  <2> QED BY <2>3, <2>4 DEF S
<1>19. CASE verb[c] = "rename-mythos"
  <2> DEFINE a == <<Node(Fp("mythos", c)), Query("chain")>>
             z == <<Query("forget"), Query("triple"), Query("know")>>
  <2>1. Calm(a)
    <3>1. Query("chain") \in S /\ ~AqueductCall(Query("chain"))
          BY <1>19 DEF S, Query, Callable, Queries, Opt, AqueductCall
    <3> QED BY <1>2, <3>1 DEF Quiet, Kinds
  <2>2. z \in Seq(S)
        BY <1>4
  <2>3. Script(c, f, offl) = (((a \o SwapHead) \o <<log>>) \o SwapHead) \o z
        BY <1>19 DEF Script, RenameScript, log
  <2> HIDE DEF a, z
  <2>4. Good((a \o SwapHead) \o <<log>>)
        BY <1>5, <1>9, <1>11, <1>12, <2>1
  <2>5. Good((((a \o SwapHead) \o <<log>>) \o SwapHead) \o z)
        BY <1>5, <1>10, <2>2, <2>4
  <2> QED BY <2>3, <2>5 DEF S
<1> QED BY <1>13, <1>14, <1>15, <1>16, <1>17, <1>18, <1>19 DEF AllVerbs

-----------------------------------------------------------------------------
\* The queries keep the graph typed, and its log only grows.

LEMMA GraphStep ==
    ASSUME TypeOK, VaultInv, Scripted, NEW c \in All, BridgeQuery(c)
    PROVE  db' \in Graph /\ db.log \subseteq db'.log
<1>0. /\ pc[c] = "bridge" /\ todo[c] # <<>>
      BY DEF BridgeQuery, Runs, CreateNode, CreateContains,
             CreateLivesIn, DeleteLivesIn, DropInscription, CreatePredecessor, DeleteHead,
             CreateHead, SetHeadColumn, ForgetHeads, CreateTriple, CreateKnowledge,
             AppendLog, MirrorAqueduct, CreateAqueduct, CreateEnd, Strengthen
<1>1. Head(todo[c]) \in Callable(c, from[c])
  <2>1. todo[c] \in Seq(Callable(c, from[c]))
        BY <1>0 DEF Scripted
  <2> QED BY <1>0, <2>1
<1>2. /\ db \in Graph /\ verb[c] \in AllVerbs
      /\ db.nodes \in SUBSET Fps /\ db.contains \in SUBSET (Fps \X Fps)
      /\ db.lives \in SUBSET (Fps \X Fps) /\ db.chain \in SUBSET (Fps \X Fps)
      /\ db.triples \in SUBSET Fps /\ db.knows \in SUBSET Fps /\ db.log \in SUBSET Row
      /\ db.aqueducts \in SUBSET (Fps \X Fps)
      /\ db.ends \in SUBSET (Fps \X Fps \X {"from", "to"}) /\ db.flow \in SUBSET All
      BY DEF TypeOK, Graph
<1>3. /\ Fp("mythos", c) \in Fps /\ Fp("mirror", c) \in Fps /\ Action(c) \in Fps
      BY FpTyped DEF Kinds, Action
<1>4. \A f, g : (f \in Fps /\ g \in Fps) \/ ~({f, g} \subseteq db.nodes)
      BY <1>2
<1>5. ASSUME NEW q, Runs(c, q) PROVE Head(todo[c])[1] = q
      BY <1>5 DEF Runs
<1> DEFINE Aq == {"aqueduct", "aqFrom", "aqTo"}
<1>6. ASSUME Head(todo[c])[1] \in Aq PROVE Joins(c) \in Fps \X Fps
  <2>1. room[c] \in Fps /\ (verb[c] = "move" => from[c] \in Fps)
        BY <1>1, <1>6 DEF Callable
  <2>2. Palace \in Fps
        BY FpTyped DEF Palace, Kinds, All
  <2> QED BY <2>1, <2>2 DEF Joins
<1>7. CASE CreateNode(c)
  <2>1. X(c) \in Fps
        BY <1>1, <1>5, <1>7 DEF CreateNode, Callable, X
  <2>2. db' = [db EXCEPT !.nodes = @ \cup {X(c)}]
        BY <1>7 DEF CreateNode
  <2> QED BY <1>2, <2>1, <2>2 DEF Graph
<1>8. CASE CreateContains(c)
  <2>1. Joined(db.contains, X(c), Y(c)) \in SUBSET (Fps \X Fps)
        BY <1>2, <1>4 DEF Joined
  <2>2. db' = [db EXCEPT !.contains = Joined(@, X(c), Y(c))]
        BY <1>8 DEF CreateContains
  <2> QED BY <1>2, <2>1, <2>2 DEF Graph
<1>9. CASE CreateLivesIn(c)
  <2>1. Joined(db.lives, X(c), Y(c)) \in SUBSET (Fps \X Fps)
        BY <1>2, <1>4 DEF Joined
  <2>2. db' = [db EXCEPT !.lives = Joined(@, X(c), Y(c))]
        BY <1>9 DEF CreateLivesIn
  <2> QED BY <1>2, <2>1, <2>2 DEF Graph
<1>10. CASE DeleteLivesIn(c)
  <2>1. db' = [db EXCEPT !.lives = @ \ {<<X(c), Y(c)>>}]
        BY <1>10 DEF DeleteLivesIn
  <2> QED BY <1>2, <2>1 DEF Graph
<1>11. CASE DropInscription(c)
  <2> DEFINE i == Fp("inscription", c)
  <2>1. db' = [db EXCEPT !.nodes = @ \ {i}, !.contains = {e \in @ : e[2] # i},
                         !.lives = {e \in @ : e[1] # i}]
        BY <1>11 DEF DropInscription
  <2> HIDE DEF i
  <2> QED BY <1>2, <2>1 DEF Graph
<1>12. CASE CreatePredecessor(c)
  <2>1. Predecessor(c) \in Fps
    <3>1. verb[c] = "rename-mythos"
          BY <1>1, <1>5, <1>12 DEF CreatePredecessor, Callable
    <3> QED BY <1>0, <3>1 DEF VaultInv, Control, Past, FilesTyped
  <2> DEFINE n == db.nodes \cup {Predecessor(c)}
             h == db.chain \cup {<<Fp("mythos", c), Predecessor(c)>>}
  <2>2. db' = [db EXCEPT !.nodes = n, !.chain = h]
        BY <1>12 DEF CreatePredecessor
  <2>3. n \in SUBSET Fps /\ h \in SUBSET (Fps \X Fps)
        BY <1>2, <1>3, <2>1
  <2> HIDE DEF n, h
  <2> QED BY <1>2, <2>2, <2>3 DEF Graph
<1>13. CASE DeleteHead(c)
  <2>1. db' = [db EXCEPT !.head = None]
        BY <1>13 DEF DeleteHead
  <2> QED BY <1>2, <2>1 DEF Graph
<1>14. CASE CreateHead(c)
  <2>1. db' = [db EXCEPT !.head = Fp("mythos", c)]
        BY <1>14 DEF CreateHead
  <2> QED BY <1>2, <1>3, <2>1 DEF Graph
<1>15. CASE SetHeadColumn(c)
  <2>1. db' = [db EXCEPT !.headCol = Fp("mythos", c)]
        BY <1>15 DEF SetHeadColumn
  <2> QED BY <1>2, <1>3, <2>1 DEF Graph
<1>16. CASE ForgetHeads(c)
  <2>1. db' = [db EXCEPT !.triples = @ \ db.knows, !.knows = {}]
        BY <1>16 DEF ForgetHeads
  <2> QED BY <1>2, <2>1 DEF Graph
<1>17. CASE CreateTriple(c)
  <2>1. db' = [db EXCEPT !.triples = @ \cup {Fp("mythos", c)}]
        BY <1>17 DEF CreateTriple
  <2> QED BY <1>2, <1>3, <2>1 DEF Graph
<1>18. CASE CreateKnowledge(c)
  <2>1. db' = [db EXCEPT !.knows = @ \cup {Fp("mythos", c)}]
        BY <1>18 DEF CreateKnowledge
  <2> QED BY <1>2, <1>3, <2>1 DEF Graph
<1>19. CASE AppendLog(c)
  <2>1. X(c) \in Fps
        BY <1>1, <1>5, <1>19 DEF AppendLog, Callable, X
  <2>2. RowOf(c, X(c)) \in Row
        BY <1>2, <2>1 DEF RowOf, Row
  <2>3. db' = [db EXCEPT !.log = @ \cup {RowOf(c, X(c))}]
        BY <1>19 DEF AppendLog
  <2> QED BY <1>2, <2>2, <2>3 DEF Graph
<1>20. CASE MirrorAqueduct(c)
  <2> DEFINE r == [fp |-> Fp("mirror", c), kind |-> "aqueduct-created", parents |-> {Action(c)}]
  <2>1. r \in Row
        BY <1>3 DEF Row
  <2>2. db' = [db EXCEPT !.log = @ \cup {r}]
        BY <1>20 DEF MirrorAqueduct
  <2> HIDE DEF r
  <2> QED BY <1>2, <2>1, <2>2 DEF Graph
<1>21. CASE CreateAqueduct(c)
  <2>1. Joins(c) \in Fps \X Fps
        BY <1>5, <1>6, <1>21 DEF CreateAqueduct
  <2>2. db' = [db EXCEPT !.aqueducts = @ \cup {Joins(c)}]
        BY <1>21 DEF CreateAqueduct
  <2> QED BY <1>2, <2>1, <2>2 DEF Graph
<1>22. ASSUME NEW side \in {"from", "to"}, CreateEnd(c, side)
       PROVE  db' \in Graph /\ db.log \subseteq db'.log
  <2>1. Head(todo[c])[1] \in Aq
    <3>1. CASE side = "from"
          BY <1>5, <1>22, <3>1 DEF CreateEnd
    <3>2. CASE side = "to"
          BY <1>5, <1>22, <3>2 DEF CreateEnd
    <3> QED BY <3>1, <3>2
  <2>2. <<Joins(c)[1], Joins(c)[2], side>> \in Fps \X Fps \X {"from", "to"}
        BY <1>6, <2>1
  <2>3. db' = [db EXCEPT !.ends = @ \cup {<<Joins(c)[1], Joins(c)[2], side>>}]
        BY <1>22 DEF CreateEnd
  <2> QED BY <1>2, <2>2, <2>3 DEF Graph
<1>23. CASE Strengthen(c)
  <2>1. db' = [db EXCEPT !.flow = @ \cup {c}]
        BY <1>23 DEF Strengthen
  <2> QED BY <1>2, <2>1 DEF Graph
<1> QED BY <1>7, <1>8, <1>9, <1>10, <1>11, <1>12, <1>13, <1>14, <1>15, <1>16, <1>17, <1>18,
           <1>19, <1>20, <1>21, <1>22, <1>23 DEF BridgeQuery

-----------------------------------------------------------------------------
\* What a step keeps.

LEMMA StaysMirrored ==
    ASSUME NEW d, UNCHANGED <<verb[d], from[d], room[d]>>, db.log \subseteq db'.log, Mirrored(d)
    PROVE  Mirrored(d)'
BY DEF Mirrored, SameRoom, Logged, Action

\* A stored action that was mirrored stays so; a newly stored one is mirrored.
LEMMA StaysMirroredFirst ==
    ASSUME MirroredFirst, UNCHANGED <<verb, from, room>>, db.log \subseteq db'.log,
           \A c \in All : Action(c) \in cas' => Action(c) \in cas \/ Mirrored(c)
    PROVE  MirroredFirst'
<1> SUFFICES ASSUME NEW c \in All, Action(c) \in cas' PROVE Mirrored(c)'
    BY DEF MirroredFirst, Mirrored, Action
<1>1. Mirrored(c)
      BY DEF MirroredFirst, Mirrored
<1> QED BY <1>1, StaysMirrored

\* A step of c that leaves the graph, the scripts and the content store alone.
LEMMA PlainStep ==
    ASSUME MirrorInv, VaultInv', NEW c \in All, NEW p \in Steps \ {"idle", "bridge"},
           UNCHANGED <<cas, args, from, todo, offline, db>>,
           pc' = [pc EXCEPT ![c] = p],
           key' \in BOOLEAN, scratch' \subseteq scratch \cup {c},
           code' \in [All -> 0..2], owner' \in {owner, None}, faults' \in 0..MaxFaults,
           p = "staged" => pc[c] = "idle",
           p \in {"promote", "write", "keys"} => Mirrored(c)
    PROVE  MirrorInv'
<1> USE DEF MirrorInv, args
<1>1. TypeOK'
      BY DEF TypeOK, VaultInv, FilesTyped
<1>2. pc \in [All -> Steps]
      BY DEF TypeOK
<1>3. Scripted'
  <2>1. ASSUME NEW d \in All, pc'[d] = "bridge"
        PROVE  pc[d] = "bridge" /\ Callable(d, from[d])' = Callable(d, from[d])
        BY <1>2, <2>1 DEF Callable
  <2> QED BY <2>1 DEF Scripted
<1>4. Unstored'
      BY <1>2 DEF Unstored
<1>5. Announced'
  <2>1. ASSUME NEW d \in All PROVE Mirrored(d) => Mirrored(d)'
        BY StaysMirrored
  <2>2. ASSUME NEW d \in All, pc'[d] = "bridge" PROVE Mirrored(d)' \/ Announces(d, todo'[d])
        BY <1>2, <2>1, <2>2 DEF Announced
  <2>3. ASSUME NEW d \in All, pc'[d] \in {"promote", "write", "keys"} PROVE Mirrored(d)'
        BY <1>2, <2>1, <2>3 DEF Announced
  <2> QED BY <2>2, <2>3 DEF Announced
<1>6. MirroredFirst'
      BY StaysMirroredFirst
<1> QED BY <1>1, <1>3, <1>4, <1>5, <1>6

\* A step of the bridge of c, which changes its script and the graph.
LEMMA ScriptStep ==
    ASSUME MirrorInv, VaultInv', NEW c \in All, pc[c] = "bridge",
           NEW s \in Seq(Callable(c, from[c])),
           UNCHANGED <<files, pc, code, args, from, promoted, offline, owner>>,
           todo' = [todo EXCEPT ![c] = s],
           db' \in Graph, db.log \subseteq db'.log, faults' \in 0..MaxFaults,
           Mirrored(c)' \/ Announces(c, s)
    PROVE  MirrorInv'
<1> USE DEF MirrorInv, args, files
<1>1. TypeOK'
  <2>1. Callable(c, from[c]) \subseteq Queries \X (Fps \cup {None}) \X (Fps \cup {None})
        BY DEF Callable, Opt
  <2>2. s \in Seq(Queries \X (Fps \cup {None}) \X (Fps \cup {None}))
        BY <2>1
  <2>3. todo' \in [All -> Seq(Queries \X (Fps \cup {None}) \X (Fps \cup {None}))]
        BY <2>2 DEF TypeOK
  <2> QED BY <2>3 DEF TypeOK
<1>2. /\ todo'[c] = s
      /\ \A d \in All \ {c} : todo'[d] = todo[d]
      BY DEF TypeOK
<1>3. Scripted'
  <2>1. ASSUME NEW d \in All PROVE Callable(d, from[d])' = Callable(d, from[d])
        BY DEF Callable
  <2> QED BY <1>2, <2>1 DEF Scripted
<1>4. Unstored'
      BY DEF Unstored
<1>5. Announced'
  <2>1. ASSUME NEW d \in All PROVE Mirrored(d) => Mirrored(d)'
        BY StaysMirrored
  <2>2. ASSUME NEW d \in All, pc'[d] = "bridge" PROVE Mirrored(d)' \/ Announces(d, todo'[d])
        BY <1>2, <2>1, <2>2 DEF Announced
  <2>3. ASSUME NEW d \in All, pc'[d] \in {"promote", "write", "keys"} PROVE Mirrored(d)'
        BY <2>1, <2>3 DEF Announced
  <2> QED BY <2>2, <2>3 DEF Announced
<1>6. MirroredFirst'
      BY StaysMirroredFirst
<1> QED BY <1>1, <1>3, <1>4, <1>5, <1>6

-----------------------------------------------------------------------------
\* The steps that say what a script is, and those that shorten it.

LEMMA StartMirrors ==
    ASSUME MirrorInv, VaultInv', NEW c \in All, NEW v \in AllVerbs, NEW m \in BOOLEAN,
           NEW r \in Opt, NEW a \in Opt, Start(c, v, m, r, a)
    PROVE  MirrorInv'
<1> USE DEF MirrorInv
<1>0. /\ pc[c] = "idle" /\ pc' = [pc EXCEPT ![c] = "staged"]
      /\ verb' = [verb EXCEPT ![c] = v] /\ room' = [room EXCEPT ![c] = r]
      /\ avatar' = [avatar EXCEPT ![c] = a] /\ scratch' = scratch \cup {c}
      /\ UNCHANGED <<key, cas, code, from, todo, promoted, offline, owner, db, faults>>
      BY DEF Start, CanStart, Goto
<1>1. TypeOK'
  <2>1. FilesTyped'
        BY DEF VaultInv
  <2>2. scratch' \in SUBSET All /\ room' \in [All -> Fps \cup {None}]
        /\ avatar' \in [All -> Fps \cup {None}]
        BY <1>0 DEF TypeOK, Opt
  <2> QED BY <1>0, <2>1, <2>2 DEF TypeOK, FilesTyped
<1>2. \A d \in All \ {c} : UNCHANGED <<pc[d], verb[d], room[d], from[d]>>
      BY <1>0 DEF TypeOK
<1>3. pc'[c] = "staged"
      BY <1>0 DEF TypeOK
<1>4. Scripted'
  <2>1. ASSUME NEW d \in All \ {c} PROVE Callable(d, from[d])' = Callable(d, from[d])
        BY <1>0, <1>2 DEF Callable
  <2> QED BY <1>0, <1>2, <1>3, <2>1 DEF Scripted
<1>5. Unstored'
      BY <1>0, <1>2, <1>3 DEF Unstored
<1>6. ASSUME NEW d \in All \ {c}, Mirrored(d) PROVE Mirrored(d)'
      BY <1>0, <1>2, <1>6, StaysMirrored
<1>7. Announced'
  <2>1. ASSUME NEW d \in All, pc'[d] = "bridge" PROVE Mirrored(d)' \/ Announces(d, todo'[d])
        BY <1>0, <1>2, <1>3, <1>6, <2>1 DEF Announced
  <2>2. ASSUME NEW d \in All, pc'[d] \in {"promote", "write", "keys"} PROVE Mirrored(d)'
        BY <1>2, <1>3, <1>6, <2>2 DEF Announced
  <2> QED BY <2>1, <2>2 DEF Announced
<1>8. MirroredFirst'
  <2>1. Action(c) \notin cas
        BY <1>0, FpFields DEF Unstored, Action
  <2>2. ASSUME NEW d \in All, Action(d) \in cas PROVE Mirrored(d)'
        BY <1>6, <2>1, <2>2 DEF MirroredFirst, Mirrored
  <2> QED BY <1>0, <2>2 DEF MirroredFirst, Mirrored, Action
<1> QED BY <1>1, <1>4, <1>5, <1>7, <1>8

LEMMA OpenMirrors ==
    ASSUME MirrorInv, VaultInv', NEW c \in All, OpenStore(c)
    PROVE  MirrorInv'
<1> USE DEF MirrorInv, files, args
<1>1. PICK f \in Sources(c), offl \in BOOLEAN :
         /\ Passes(c, f)
         /\ from' = [from EXCEPT ![c] = f]
         /\ offline' = IF offl THEN offline \cup {c} ELSE offline
         /\ todo' = [todo EXCEPT ![c] = Script(c, f, offl)]
      BY DEF OpenStore
<1>2. /\ pc[c] = "staged" /\ pc' = [pc EXCEPT ![c] = "bridge"] /\ owner' = c
      /\ UNCHANGED <<files, code, args, promoted, db, faults>>
      BY DEF OpenStore, Goto
<1>3. db.nodes \subseteq Fps /\ db.contains \subseteq Fps \X Fps
      BY DEF TypeOK, Graph
<1>4. f \in Opt
      BY <1>1, <1>3 DEF Sources, Homes, Opt
<1>5. /\ verb[c] \in {"inscribe", "inscribe-via", "move"} => room[c] \in Fps
      /\ verb[c] = "move" => f \in Fps
      BY <1>1, <1>3, <1>4 DEF Passes, Opt
<1>6. verb[c] \in AllVerbs /\ room[c] \in Opt /\ avatar[c] \in Opt
      BY DEF TypeOK, Opt
<1>7. /\ Script(c, f, offl) \in Seq(Callable(c, f))
      /\ (verb[c] = "move" /\ f = room[c]) \/ Announces(c, Script(c, f, offl))
      BY <1>4, <1>5, <1>6, ScriptCalls
<1>8. from'[c] = f /\ todo'[c] = Script(c, f, offl) /\ pc'[c] = "bridge"
      BY <1>1, <1>2 DEF TypeOK
<1>9. \A d \in All \ {c} : UNCHANGED <<pc[d], from[d], todo[d]>>
      BY <1>1, <1>2 DEF TypeOK
<1>10. TypeOK'
  <2>1. from' \in [All -> Fps \cup {None}] /\ offline' \in SUBSET All
        BY <1>1, <1>4 DEF TypeOK, Opt
  <2>2. Callable(c, f) \subseteq Queries \X (Fps \cup {None}) \X (Fps \cup {None})
        BY DEF Callable, Opt
  <2>3. Script(c, f, offl) \in Seq(Queries \X (Fps \cup {None}) \X (Fps \cup {None}))
        BY <1>7, <2>2
  <2>4. todo' \in [All -> Seq(Queries \X (Fps \cup {None}) \X (Fps \cup {None}))]
        BY <1>1, <2>3 DEF TypeOK
  <2>5. pc' \in [All -> Steps]
        BY <1>2 DEF TypeOK, Steps
  <2> QED BY <1>2, <2>1, <2>4, <2>5 DEF TypeOK
<1>11. Scripted'
  <2>1. ASSUME NEW d \in All, pc'[d] = "bridge"
        PROVE  todo'[d] \in Seq(Callable(d, from[d])')
    <3>1. CASE d = c
      <4>1. Callable(d, from[d])' = Callable(c, f)
            BY <1>2, <1>8, <3>1 DEF Callable
      <4> QED BY <1>7, <1>8, <3>1, <4>1
    <3>2. CASE d # c
      <4>1. Callable(d, from[d])' = Callable(d, from[d])
            BY <1>2, <1>9, <3>2 DEF Callable
      <4> QED BY <1>9, <2>1, <3>2, <4>1 DEF Scripted
    <3> QED BY <3>1, <3>2
  <2> QED BY <2>1 DEF Scripted
<1>12. Unstored'
      BY <1>2, <1>9 DEF Unstored
<1>13. ASSUME NEW d \in All \ {c}, Mirrored(d) PROVE Mirrored(d)'
      BY <1>2, <1>9, <1>13, StaysMirrored
<1>14. Announced'
  <2>1. Mirrored(c)' \/ Announces(c, todo'[c])
        BY <1>2, <1>7, <1>8 DEF Mirrored, SameRoom
  <2>2. ASSUME NEW d \in All \ {c}, pc'[d] = "bridge"
        PROVE  Mirrored(d)' \/ Announces(d, todo'[d])
        BY <1>9, <1>13, <2>2 DEF Announced
  <2>3. ASSUME NEW d \in All, pc'[d] \in {"promote", "write", "keys"} PROVE Mirrored(d)'
        BY <1>8, <1>9, <1>13, <2>3 DEF Announced
  <2> QED BY <2>1, <2>2, <2>3 DEF Announced
<1>15. MirroredFirst'
  <2>1. Action(c) \notin cas
        BY <1>2, FpFields DEF Unstored, Action
  <2>2. ASSUME NEW d \in All, Action(d) \in cas PROVE Mirrored(d)'
        BY <1>13, <2>1, <2>2 DEF MirroredFirst, Mirrored
  <2> QED BY <1>2, <2>2 DEF MirroredFirst, Mirrored, Action
<1> QED BY <1>2, <1>10, <1>11, <1>12, <1>14, <1>15

LEMMA QueryMirrors ==
    ASSUME MirrorInv, VaultInv', NEW c \in All, BridgeQuery(c)
    PROVE  MirrorInv'
<1> USE DEF MirrorInv
<1>1. db' \in Graph /\ db.log \subseteq db'.log
      BY GraphStep
<1>2. /\ pc[c] = "bridge" /\ todo[c] # <<>>
      /\ todo' = [todo EXCEPT ![c] = Tail(todo[c])]
      /\ UNCHANGED <<files, pc, code, args, from, promoted, offline, owner, faults>>
      BY DEF BridgeQuery, Runs, CreateNode, CreateContains,
             CreateLivesIn, DeleteLivesIn, DropInscription, CreatePredecessor, DeleteHead,
             CreateHead, SetHeadColumn, ForgetHeads, CreateTriple, CreateKnowledge,
             AppendLog, MirrorAqueduct, CreateAqueduct, CreateEnd, Strengthen
<1>3. todo[c] \in Seq(Callable(c, from[c]))
      BY <1>2 DEF Scripted
<1>4. Tail(todo[c]) \in Seq(Callable(c, from[c]))
      BY <1>2, <1>3, TailTyped
<1>5. Mirrored(c)' \/ Announces(c, Tail(todo[c]))
  <2>1. CASE Mirrored(c)
        BY <1>1, <1>2, <2>1, StaysMirrored DEF args
  <2>2. CASE Announces(c, todo[c]) /\ Head(todo[c]) # LogRow(Action(c))
        BY <1>2, <1>3, <2>2, AnnouncesTail
  <2>3. CASE Head(todo[c]) = LogRow(Action(c))
    <3>1. Head(todo[c])[1] = "log" /\ X(c) = Action(c)
          BY <2>3 DEF LogRow, X
    <3>2. AppendLog(c)
      <4>1. ASSUME NEW q, Runs(c, q) PROVE q = "log"
            BY <3>1, <4>1 DEF Runs
      <4> QED BY <4>1 DEF BridgeQuery, CreateNode, CreateContains,
             CreateLivesIn, DeleteLivesIn, DropInscription, CreatePredecessor, DeleteHead,
             CreateHead, SetHeadColumn, ForgetHeads, CreateTriple, CreateKnowledge,
             MirrorAqueduct, CreateAqueduct, CreateEnd, Strengthen
    <3>3. db' = [db EXCEPT !.log = @ \cup {RowOf(c, X(c))}] /\ db \in Graph
          BY <3>2 DEF AppendLog, TypeOK
    <3>4. RowOf(c, X(c)) \in db'.log
          BY <3>3 DEF Graph
    <3>5. RowOf(c, X(c)).fp = Action(c)
          BY <3>1 DEF RowOf
    <3> QED BY <3>4, <3>5 DEF Mirrored, Logged, Action
  <2> QED BY <1>2, <2>1, <2>2, <2>3 DEF Announced
<1>6. faults' \in 0..MaxFaults
      BY <1>2 DEF TypeOK
<1> QED BY <1>1, <1>2, <1>4, <1>5, <1>6, ScriptStep

LEMMA SkipMirrors ==
    ASSUME MirrorInv, VaultInv', NEW c \in All, SkipAqueduct(c)
    PROVE  MirrorInv'
<1> USE DEF MirrorInv
<1>1. /\ pc[c] = "bridge" /\ todo[c] # <<>> /\ AqueductCall(Head(todo[c]))
      /\ faults < MaxFaults /\ faults' = faults + 1
      /\ todo' = [todo EXCEPT ![c] = MythosNode(c)]
      /\ UNCHANGED <<files, pc, code, args, from, promoted, offline, owner, db>>
      BY DEF SkipAqueduct, GivesUpAqueduct, AqueductCall, X
<1>2. todo[c] \in Seq(Callable(c, from[c]))
      BY <1>1 DEF Scripted
<1>3. Mirrored(c)
      BY <1>1, <1>2, AnnouncesHead DEF Announced
<1>4. Mirrored(c)'
      BY <1>1, <1>3, StaysMirrored DEF args
<1>5. MythosNode(c) \in Seq(Callable(c, from[c]))
      BY OwnCalls DEF TypeOK, Opt
<1>6. db' \in Graph /\ db.log \subseteq db'.log /\ faults' \in 0..MaxFaults
      BY <1>1, VaultBoundsAssumption DEF TypeOK
<1> QED BY <1>1, <1>4, <1>5, <1>6, ScriptStep

LEMMA PromoteMirrors ==
    ASSUME MirrorInv, VaultInv', NEW c \in All, Promote(c)
    PROVE  MirrorInv'
<1> USE DEF MirrorInv
<1> DEFINE f == Envelopes(c)[promoted[c] + 1]
<1>0. /\ pc[c] = "promote" /\ promoted[c] < Len(Envelopes(c)) /\ cas' = cas \cup {f}
      /\ UNCHANGED <<key, scratch, pc, code, args, from, todo, offline, owner, db, faults>>
      BY DEF Promote
<1>1. f.of = c
  <2>1. verb[c] \in AllVerbs /\ own[c] \in BOOLEAN /\ promoted[c] \in Nat
        BY DEF TypeOK
  <2>2. Envelopes(c) \in Seq(Fps)
        BY <2>1, EnvelopesTyped
  <2>3. promoted[c] + 1 \in 1..Len(Envelopes(c))
        BY <1>0, <2>1, <2>2
  <2> QED BY <2>1, <2>3, EnvelopesTyped
<1> HIDE DEF f
<1> USE DEF args
<1>2. TypeOK'
      BY <1>0 DEF TypeOK, VaultInv, FilesTyped
<1>3. Scripted'
      BY <1>0 DEF Scripted, Callable
<1>4. Unstored'
      BY <1>0, <1>1 DEF Unstored
<1>5. Announced'
  <2>1. ASSUME NEW d \in All PROVE Mirrored(d) => Mirrored(d)'
        BY <1>0, StaysMirrored
  <2> QED BY <1>0, <2>1 DEF Announced
<1>6. MirroredFirst'
  <2>1. ASSUME NEW d \in All, Action(d) \in cas' PROVE Action(d) \in cas \/ Mirrored(d)
    <3>1. CASE Action(d) = f
      <4>1. d = c
            BY <1>1, <3>1, FpFields DEF Action
      <4> QED BY <1>0, <4>1 DEF Announced
    <3> QED BY <1>0, <2>1, <3>1
  <2> QED BY <1>0, <2>1, StaysMirroredFirst
<1> QED BY <1>2, <1>3, <1>4, <1>5, <1>6

-----------------------------------------------------------------------------
\* The invariant.

LEMMA MirrorInit == Init => MirrorInv
<1> SUFFICES ASSUME Init PROVE MirrorInv
    OBVIOUS
<1>1. VaultInv
      BY VaultInit
<1> USE DEF Init
<1>2. TypeOK
  <2>1. db \in Graph
        BY DEF Graph
  <2>2. FilesTyped
        BY <1>1 DEF VaultInv
  <2>3. /\ todo \in [All -> Seq(Queries \X (Fps \cup {None}) \X (Fps \cup {None}))]
        /\ code \in [All -> 0..2]
        OBVIOUS
  <2>4. /\ room \in [All -> Fps \cup {None}] /\ avatar \in [All -> Fps \cup {None}]
        /\ from \in [All -> Fps \cup {None}] /\ key \in BOOLEAN /\ scratch \in SUBSET All
        /\ offline \in SUBSET All /\ owner \in All \cup {None}
        OBVIOUS
  <2>5. faults \in 0..MaxFaults
        BY VaultBoundsAssumption
  <2> QED BY <2>1, <2>2, <2>3, <2>4, <2>5 DEF TypeOK, FilesTyped
<1>3. Scripted /\ Unstored /\ Announced /\ MirroredFirst
      BY DEF Scripted, Unstored, Announced, MirroredFirst
<1> QED BY <1>1, <1>2, <1>3 DEF MirrorInv

LEMMA MirrorStep == MirrorInv /\ [Next]_vars => MirrorInv'
<1> SUFFICES ASSUME MirrorInv, [Next]_vars PROVE MirrorInv'
    OBVIOUS
<1>1. VaultInv'
      BY VaultStep DEF MirrorInv
<1> USE DEF files, Goto, RollBack, Exit
<1>2. code \in [All -> 0..2]
      BY DEF MirrorInv, TypeOK
<1>3. \A c \in All, n \in 0..2 : [code EXCEPT ![c] = n] \in [All -> 0..2]
      BY <1>2
<1>4. CASE UNCHANGED vars
  <2> USE <1>4 DEF vars, args, MirrorInv
  <2>1. TypeOK'
        BY DEF TypeOK
  <2>2. Scripted' /\ Unstored'
        BY DEF Scripted, Unstored, Callable
  <2>3. ASSUME NEW c \in All PROVE Mirrored(c)' <=> Mirrored(c)
        BY DEF Mirrored, SameRoom, Logged, Action
  <2>4. Announced'
        BY <2>3 DEF Announced
  <2>5. MirroredFirst'
        BY <2>3 DEF MirroredFirst, Mirrored, Action
  <2> QED BY <1>1, <2>1, <2>2, <2>4, <2>5
<1>5. CASE StartMint
  <2>1. /\ Mint \in All /\ pc[Mint] = "idle" /\ pc' = [pc EXCEPT ![Mint] = "staged"]
        /\ scratch' = scratch \cup {Mint}
        /\ UNCHANGED <<key, cas, code, args, from, todo, offline, owner, db, faults>>
        BY <1>5 DEF StartMint, CanStart, All
  <2> QED BY <1>1, <2>1, PlainStep DEF MirrorInv, TypeOK, Steps
<1>6. CASE InstallBundle
  <2>1. /\ Mint \in All /\ pc[Mint] = "promote" /\ pc' = [pc EXCEPT ![Mint] = "keys"]
        /\ UNCHANGED <<key, cas, scratch, code, args, from, todo, offline, owner, db, faults>>
        BY <1>6 DEF InstallBundle, Unpromoted, All
  <2>2. Mirrored(Mint)
        BY <2>1 DEF MirrorInv, Announced
  <2> QED BY <1>1, <2>1, <2>2, PlainStep DEF MirrorInv, TypeOK, Steps
<1>7. CASE InstallKeys
  <2>1. /\ Mint \in All /\ pc' = [pc EXCEPT ![Mint] = "done"] /\ key' = TRUE
        /\ scratch' \subseteq scratch /\ code' = [code EXCEPT ![Mint] = 0]
        /\ UNCHANGED <<cas, args, from, todo, offline, owner, db, faults>>
        BY <1>7 DEF InstallKeys, All
  <2>2. code' \in [All -> 0..2]
        BY <1>3, <2>1
  <2> QED BY <1>1, <2>1, <2>2, PlainStep DEF MirrorInv, TypeOK, Steps
<1>8. ASSUME NEW c \in All, CommandStep(c) PROVE MirrorInv'
  <2>0. faults < MaxFaults => faults + 1 \in 0..MaxFaults
        BY VaultBoundsAssumption DEF MirrorInv, TypeOK
  <2>1. CASE Refuse(c) \/ BridgeRefuses(c) \/ BridgeFails(c) \/ FileFails(c)
    <3>1. PICK n \in {1, 2} :
            /\ pc' = [pc EXCEPT ![c] = "done"] /\ code' = [code EXCEPT ![c] = n]
            /\ scratch' \subseteq scratch /\ owner' \in {owner, None}
            /\ faults' = faults \/ (faults < MaxFaults /\ faults' = faults + 1)
            /\ UNCHANGED <<key, cas, args, from, todo, offline, db>>
          BY <2>1 DEF Refuse, BridgeRefuses, BridgeFails, FileFails
    <3>2. faults' \in 0..MaxFaults /\ code' \in [All -> 0..2]
          BY <2>0, <3>1 DEF MirrorInv, TypeOK
    <3> QED BY <1>1, <3>1, <3>2, PlainStep DEF MirrorInv, TypeOK, Steps
  <2>2. CASE StartAny(c)
    <3>1. PICK v \in Verbs, m \in BOOLEAN, r \in Opt, a \in Opt : Start(c, v, m, r, a)
          BY <2>2 DEF StartAny, StartAddRoom, StartInscribe, StartMove, StartRename,
                       Known, Opt, Fps, Fp, Kinds, All
    <3>2. v \in AllVerbs
          BY VaultVerbsAssumption
    <3> QED BY <1>1, <3>1, <3>2, StartMirrors
  <2>3. CASE OpenStore(c)
        BY <1>1, <2>3, OpenMirrors
  <2>4. CASE BridgeQuery(c)
        BY <1>1, <2>4, QueryMirrors
  <2>5. CASE SkipAqueduct(c)
        BY <1>1, <2>5, SkipMirrors
  <2>6. CASE BridgeExits(c)
    <3>1. PICK p \in {"done", "promote"} :
             /\ pc[c] = "bridge" /\ todo[c] = <<>>
             /\ pc' = [pc EXCEPT ![c] = p] /\ owner' = None
             /\ code' = code \/ code' = [code EXCEPT ![c] = 2]
             /\ scratch' \subseteq scratch
             /\ UNCHANGED <<key, cas, args, from, todo, offline, db, faults>>
          BY <2>6 DEF BridgeExits
    <3>2. Mirrored(c)
      <4>1. ~Announces(c, todo[c])
            BY <3>1 DEF Announces
      <4> QED BY <3>1, <4>1 DEF MirrorInv, Announced
    <3>3. code' \in [All -> 0..2]
          BY <1>2, <1>3, <3>1
    <3> QED BY <1>1, <3>1, <3>2, <3>3, PlainStep DEF MirrorInv, TypeOK, Steps
  <2>7. CASE Promote(c)
        BY <1>1, <2>7, PromoteMirrors
  <2>8. CASE TruncateBundle(c)
    <3>1. /\ pc[c] = "promote" /\ pc' = [pc EXCEPT ![c] = "write"]
          /\ UNCHANGED <<key, cas, scratch, code, args, from, todo, offline, owner, db, faults>>
          BY <2>8 DEF TruncateBundle, Unpromoted
    <3>2. Mirrored(c)
          BY <3>1 DEF MirrorInv, Announced
    <3> QED BY <1>1, <3>1, <3>2, PlainStep DEF MirrorInv, TypeOK, Steps
  <2>9. CASE WriteBundle(c)
    <3>1. /\ pc' = [pc EXCEPT ![c] = "done"] /\ code' = [code EXCEPT ![c] = 0]
          /\ UNCHANGED <<key, cas, scratch, args, from, todo, offline, owner, db, faults>>
          BY <2>9 DEF WriteBundle, Unpromoted
    <3>2. code' \in [All -> 0..2]
          BY <1>3, <3>1
    <3> QED BY <1>1, <3>1, <3>2, PlainStep DEF MirrorInv, TypeOK, Steps
  <2>10. CASE Die(c)
    <3>1. /\ pc' = [pc EXCEPT ![c] = "dead"] /\ owner' \in {owner, None}
          /\ faults < MaxFaults /\ faults' = faults + 1
          /\ UNCHANGED <<key, cas, scratch, code, args, from, todo, offline, db>>
          BY <2>10 DEF Die
    <3> QED BY <1>1, <2>0, <3>1, PlainStep DEF MirrorInv, TypeOK, Steps
  <2> QED BY <1>8, <2>1, <2>2, <2>3, <2>4, <2>5, <2>6, <2>7, <2>8, <2>9, <2>10
          DEF CommandStep
<1> QED BY <1>4, <1>5, <1>6, <1>7, <1>8 DEF Next

THEOREM MirrorInvariant == Spec => []MirrorInv
<1> QED BY MirrorInit, MirrorStep, PTL DEF Spec

\* Every variable of the vault keeps its type, the graph included: no query of
\* any script writes a fingerprint that is none.
THEOREM VaultTypeCorrect == Spec => []TypeOK
<1>1. MirrorInv => TypeOK
      BY DEF MirrorInv
<1> QED BY <1>1, MirrorInvariant, PTL

\* The graph is never behind the content store: an action that was renamed
\* into it has its ActionLog row, except a move to the room the avatar is in.
THEOREM VaultMirroredFirst == Spec => []MirroredFirst
<1>1. MirrorInv => MirroredFirst
      BY DEF MirrorInv
<1> QED BY <1>1, MirrorInvariant, PTL

-----------------------------------------------------------------------------
\* An avatar has one home.  A bridge that inscribes places its own inscription
\* in its own room, however often; a bridge that moves an avatar, whose command
\* ended long ago, deletes the one home before it creates another.

\* What the bridge of c may have in its script when it does not move.
Placed(c) == {q \in Queries \X Opt \X Opt :
                 q[1] = "live" => q = Live(Fp("inscription", c), room[c])}

\* From position n on, the script of a move places nothing.
Settles(s, n) == \A k \in n..Len(s) : s[k][1] # "live"

Moves(c) ==
    \/ Settles(todo[c], 1)
    \/ /\ Len(todo[c]) >= 1 /\ todo[c][1] = Live(avatar[c], room[c])
       /\ Settles(todo[c], 2)
       /\ \A r : <<avatar[c], r>> \notin db.lives
    \/ /\ Len(todo[c]) >= 2 /\ todo[c][1] = Unlive(avatar[c], from[c])
       /\ todo[c][2] = Live(avatar[c], room[c])
       /\ Settles(todo[c], 3)
       /\ \A r : <<avatar[c], r>> \in db.lives => r = from[c]

Places(c) ==
    /\ todo[c] \in Seq(Placed(c))
    /\ \A r : <<Fp("inscription", c), r>> \in db.lives => r = room[c]

SingleHome == \A i, r, s : <<i, r>> \in db.lives /\ <<i, s>> \in db.lives => r = s

\* Nothing lives anywhere before its command has opened the store.
Unborn == \A e \in db.lives : e[1] \in Fps /\ pc[e[1].of] \notin {"idle", "staged"}

MovesEnded == \A c \in All : verb[c] = "move" =>
                 avatar[c] \in Fps /\ pc[avatar[c].of] \in {"done", "dead"}

OneBridge == \A c \in All : pc[c] = "bridge" => owner = c

Housing == \A c \in All : pc[c] = "bridge" => IF verb[c] = "move" THEN Moves(c) ELSE Places(c)

HomeInv ==
    /\ SingleHome
    /\ Unborn
    /\ MovesEnded
    /\ OneBridge
    /\ Housing

LEMMA ScriptPlaces ==
    ASSUME NEW c \in All, NEW f \in Opt, NEW offl \in BOOLEAN, verb[c] \in AllVerbs \ {"move"},
           room[c] \in Opt
    PROVE  Script(c, f, offl) \in Seq(Placed(c))
<1> DEFINE S == Placed(c)
<1>1. /\ \A k \in Kinds : Fp(k, c) \in Opt
      /\ Palace \in Opt /\ Genesis \in Opt /\ Oracle \in Opt
      BY FpTyped DEF Opt, Palace, Genesis, Oracle, Kinds, All
<1>2. \A g \in Opt : Node(g) \in S /\ LogRow(g) \in S
      BY DEF Node, LogRow, Placed, Queries, Opt
<1>3. \A g, h \in Opt : Contain(g, h) \in S
      BY DEF Contain, Placed, Queries
<1>4. \A n \in Queries \ {"live"} : Query(n) \in S
      BY DEF Query, Placed, Opt
<1>5. Live(Fp("inscription", c), room[c]) \in S
      BY <1>1 DEF Live, Placed, Queries, Kinds
<1>6. /\ LogRow(Action(c)) \in S /\ Node(Fp("mythos", c)) \in S /\ Node(Fp("room", c)) \in S
      /\ LogRow(Fp("aqueduct", c)) \in S
      /\ Node(Fp("inscription", c)) \in S /\ Contain(room[c], Fp("inscription", c)) \in S
      /\ Contain(Palace, Fp("room", c)) \in S /\ Contain(Palace, Oracle) \in S
      /\ Node(Palace) \in S /\ Node(Genesis) \in S /\ Node(Oracle) \in S
      BY <1>1, <1>2, <1>3 DEF Kinds, Action
<1>7. \A n \in {"drop", "chain", "unhead", "head", "headCol", "triple", "know", "forget",
                "mirror", "aqueduct", "aqTo"} : Query(n) \in S
      BY <1>4 DEF Queries
<1> HIDE DEF S
<1>8. /\ MythosNode(c) \in Seq(S) /\ SwapHead \in Seq(S) /\ Inscribed(c) \in Seq(S)
      /\ <<LogRow(Action(c))>> \in Seq(S) /\ <<Query("drop")>> \in Seq(S)
      /\ <<Query("mirror")>> \in Seq(S) /\ <<>> \in Seq(S)
  <2>1. MythosNode(c) \in Seq(S)
        BY <1>6 DEF MythosNode
  <2>2. SwapHead \in Seq(S)
        BY <1>7 DEF SwapHead
  <2>3. Inscribed(c) \in Seq(S)
        BY <1>5, <1>6 DEF Inscribed
  <2> QED BY <1>6, <1>7, <2>1, <2>2, <2>3
<1>9. \A s, t \in Seq(S) : s \o t \in Seq(S)
      BY Concat
<1>10. RoomAqueduct(c) \in Seq(S)
  <2>1. <<Query("aqueduct"), Query("aqTo"), LogRow(Fp("aqueduct", c))>> \in Seq(S)
        BY <1>6, <1>7
  <2> QED BY <1>8, <1>9, <2>1 DEF RoomAqueduct
<1>11. CASE verb[c] = "mint"
  <2>1. /\ <<Node(Palace), Node(Genesis)>> \in Seq(S)
        /\ <<Node(Oracle), Contain(Palace, Oracle), Query("triple"), Query("know"),
             LogRow(Action(c))>> \in Seq(S)
        BY <1>6, <1>7
  <2>2. MintScript(c) \in Seq(S)
        BY <1>8, <1>9, <2>1 DEF MintScript
  <2> QED BY <1>11, <2>2 DEF Script, S
<1>12. CASE verb[c] = "add-room"
  <2>1. <<Node(Fp("room", c)), Contain(Palace, Fp("room", c))>> \in Seq(S)
        BY <1>6
  <2>2. AddRoomScript(c) \in Seq(S)
        BY <1>8, <1>9, <2>1 DEF AddRoomScript
  <2> QED BY <1>12, <2>2 DEF Script, S
<1>13. CASE verb[c] = "inscribe"
  <2>1. InscribeScript(c) \in Seq(S)
        BY <1>8, <1>9, <1>10 DEF InscribeScript
  <2> QED BY <1>13, <2>1 DEF Script, S
<1>14. CASE verb[c] = "inscribe-via"
  <2>1. InscribeViaScript(c, offl) \in Seq(S)
        BY <1>8, <1>9, <1>10 DEF InscribeViaScript
  <2> QED BY <1>14, <2>1 DEF Script, S
<1>15. CASE verb[c] = "rename-mythos"
  <2>1. /\ <<Node(Fp("mythos", c)), Query("chain")>> \in Seq(S)
        /\ <<Query("forget"), Query("triple"), Query("know")>> \in Seq(S)
        BY <1>6, <1>7
  <2>2. RenameScript(c) \in Seq(S)
        BY <1>8, <1>9, <2>1 DEF RenameScript
  <2> QED BY <1>15, <2>2 DEF Script, S
<1> QED BY <1>11, <1>12, <1>13, <1>14, <1>15 DEF AllVerbs

\* A move deletes the old home, creates the new one, and places nothing more.
LEMMA ScriptMoves ==
    ASSUME NEW c \in All, NEW f \in Fps, NEW offl, verb[c] = "move"
    PROVE  LET s == Script(c, f, offl)
           IN  \/ f = room[c] /\ s = <<>>
               \/ /\ Len(s) >= 2 /\ s[1] = Unlive(avatar[c], f)
                  /\ s[2] = Live(avatar[c], room[c]) /\ Settles(s, 3)
<1> DEFINE s == <<Unlive(avatar[c], f), Live(avatar[c], room[c]), LogRow(Action(c))>>
           t == MoveAqueduct(c, f, room[c])
           S == {s[1], s[2], s[3], Query("aqueduct"), Query("aqFrom"), Query("aqTo"),
                 LogRow(Fp("aqueduct", c)), Query("strengthen")}
<1>1. CASE f = room[c]
      BY <1>1 DEF Script, MoveScript
<1>2. CASE f # room[c]
  <2>1. Script(c, f, offl) = s \o t
        BY <1>2 DEF Script, MoveScript
  <2>2. s \in Seq(S) /\ Len(s) = 3
        OBVIOUS
  <2>3. t \in Seq(S) /\ \A k \in 1..Len(t) : t[k][1] # "live"
    <3> DEFINE u == <<Query("strengthen")>>
               v == <<Query("aqueduct"), Query("aqFrom"), Query("aqTo"),
                      LogRow(Fp("aqueduct", c)), Query("strengthen")>>
    <3>1. u \in Seq(S) /\ \A k \in 1..Len(u) : u[k][1] # "live"
          BY DEF Query
    <3>2. v \in Seq(S) /\ Len(v) = 5
          OBVIOUS
    <3>3. \A k \in 1..5 : v[k][1] # "live"
          BY DEF Query, LogRow
    <3>4. t = u \/ t = v
          BY DEF MoveAqueduct
    <3> HIDE DEF t, u, v, S
    <3> QED BY <3>1, <3>2, <3>3, <3>4
  <2>4. s[3][1] # "live"
        BY DEF LogRow
  <2>5. s[1] = Unlive(avatar[c], f) /\ s[2] = Live(avatar[c], room[c])
        OBVIOUS
  <2> HIDE DEF s, t, S
  <2>6. /\ Len(s \o t) = 3 + Len(t) /\ Len(t) \in Nat
        /\ \A k \in 1 .. 3 + Len(t) : (s \o t)[k] = IF k <= 3 THEN s[k] ELSE t[k - 3]
    <3>1. s \in Seq(S) /\ t \in Seq(S)
          BY <2>2, <2>3
    <3>2. /\ Len(s \o t) = Len(s) + Len(t) /\ Len(t) \in Nat
          /\ \A k \in 1 .. Len(s) + Len(t) :
                (s \o t)[k] = IF k <= Len(s) THEN s[k] ELSE t[k - Len(s)]
          BY <3>1, Concat
    <3> QED BY <2>2, <3>2
  <2>7. ASSUME NEW k \in 3..Len(s \o t) PROVE (s \o t)[k][1] # "live"
    <3>1. CASE k = 3
          BY <2>4, <2>6, <3>1
    <3>2. CASE k # 3
      <4>1. k - 3 \in 1..Len(t) /\ (s \o t)[k] = t[k - 3]
            BY <2>6, <2>7, <3>2
      <4> QED BY <2>3, <4>1
    <3> QED BY <3>1, <3>2
  <2>8. Settles(s \o t, 3)
        BY <2>7 DEF Settles
  <2> QED BY <2>1, <2>5, <2>6, <2>8
<1> QED BY <1>1, <1>2

LEMMA SettlesTail ==
    ASSUME NEW S, NEW s \in Seq(S), s # <<>>, NEW n \in Nat, Settles(s, n + 1)
    PROVE  Settles(Tail(s), n) \/ n = 0
<1>1. Len(Tail(s)) = Len(s) - 1 /\ \A i \in 1..(Len(s) - 1) : Tail(s)[i] = s[i + 1]
      OBVIOUS
<1> SUFFICES ASSUME n # 0, NEW k \in n..Len(Tail(s)) PROVE Tail(s)[k][1] # "live"
    BY DEF Settles
<1>2. k + 1 \in (n + 1)..Len(s) /\ k \in 1..(Len(s) - 1)
      BY <1>1
<1> QED BY <1>1, <1>2 DEF Settles

\* What a query does to the homes.
LEMMA LivesStep ==
    ASSUME db \in Graph, NEW c \in All, BridgeQuery(c)
    PROVE  \/ Head(todo[c])[1] = "live" /\ db'.lives = Joined(db.lives, X(c), Y(c))
           \/ Head(todo[c])[1] # "live" /\ db'.lives \subseteq db.lives
              /\ (Head(todo[c])[1] = "unlive" => db'.lives = db.lives \ {<<X(c), Y(c)>>})
<1> USE DEF Graph
<1>1. CASE CreateLivesIn(c)
      BY <1>1 DEF CreateLivesIn, Runs
<1>2. CASE DeleteLivesIn(c)
      BY <1>2 DEF DeleteLivesIn, Runs
<1>3. CASE DropInscription(c)
      BY <1>3 DEF DropInscription, Runs
<1>4. CASE \/ CreateNode(c) \/ CreateContains(c) \/ CreatePredecessor(c)
           \/ DeleteHead(c) \/ CreateHead(c) \/ SetHeadColumn(c)
           \/ ForgetHeads(c) \/ CreateTriple(c) \/ CreateKnowledge(c)
      BY <1>4 DEF CreateNode, CreateContains, CreatePredecessor, DeleteHead, CreateHead,
             SetHeadColumn, ForgetHeads, CreateTriple, CreateKnowledge, Runs
<1>5. CASE \/ AppendLog(c) \/ MirrorAqueduct(c) \/ CreateAqueduct(c)
           \/ (\E side \in {"from", "to"} : CreateEnd(c, side)) \/ Strengthen(c)
      BY <1>5 DEF AppendLog, MirrorAqueduct, CreateAqueduct, CreateEnd, Strengthen, Runs
<1> QED BY <1>1, <1>2, <1>3, <1>4, <1>5 DEF BridgeQuery

\* A step that changes neither homes nor scripts, and lets no bridge run.
LEMMA HomePlain ==
    ASSUME MirrorInv, HomeInv, NEW c \in All, NEW p \in Steps \ {"bridge"},
           pc' = [pc EXCEPT ![c] = p], p = "staged" => pc[c] = "idle", p # "idle",
           pc[c] \in {"done", "dead"} => p \in {"done", "dead"},
           owner' = owner \/ (owner = c /\ owner' = None),
           UNCHANGED <<args, from, todo, db>>
    PROVE  HomeInv'
<1> USE DEF args
<1>1. pc \in [All -> Steps]
      BY DEF MirrorInv, TypeOK
<1>2. /\ pc'[c] = p
      /\ \A d \in All \ {c} : pc'[d] = pc[d]
      BY <1>1
<1>3. SingleHome'
      BY DEF HomeInv, SingleHome
<1>4. Unborn'
  <2>1. ASSUME NEW e \in db.lives PROVE pc'[e[1].of] \notin {"idle", "staged"}
    <3>1. e[1] \in Fps /\ pc[e[1].of] \notin {"idle", "staged"}
          BY DEF HomeInv, Unborn
    <3>2. e[1].of \in All
          BY <3>1 DEF Fps
    <3> QED BY <1>2, <3>1, <3>2
  <2> QED BY <2>1 DEF HomeInv, Unborn
<1>5. MovesEnded'
  <2>1. ASSUME NEW d \in All, verb[d] = "move" PROVE pc'[avatar[d].of] \in {"done", "dead"}
    <3>1. avatar[d] \in Fps /\ pc[avatar[d].of] \in {"done", "dead"}
          BY <2>1 DEF HomeInv, MovesEnded
    <3>2. avatar[d].of \in All
          BY <3>1 DEF Fps
    <3> QED BY <1>2, <3>1, <3>2
  <2> QED BY <2>1 DEF HomeInv, MovesEnded
<1>6. OneBridge'
      BY <1>2 DEF HomeInv, OneBridge
<1>7. Housing'
  <2>1. ASSUME NEW d \in All, pc'[d] = "bridge"
        PROVE  IF verb[d] = "move" THEN Moves(d)' ELSE Places(d)'
    <3>1. pc[d] = "bridge"
          BY <1>2, <2>1
    <3>2. IF verb[d] = "move" THEN Moves(d) ELSE Places(d)
          BY <3>1 DEF HomeInv, Housing
    <3> QED BY <3>2 DEF Moves, Places, Placed
  <2> QED BY <2>1 DEF Housing
<1> QED BY <1>3, <1>4, <1>5, <1>6, <1>7 DEF HomeInv

LEMMA HomeStart ==
    ASSUME MirrorInv, HomeInv, NEW c \in All, StartAny(c)
    PROVE  HomeInv'
<1>1. PICK v \in Verbs, m \in BOOLEAN, r \in Opt, a \in Opt :
         /\ Start(c, v, m, r, a)
         /\ v = "move" => a \in Known("inscription", {"inscribe", "inscribe-via"})
  <2>1. /\ None \in Opt /\ Known("room", {"add-room"}) \subseteq Opt
        /\ Known("inscription", {"inscribe", "inscribe-via"}) \subseteq Opt
        BY DEF Known, Opt, Fps, Fp, Kinds, All
  <2>2. CASE StartAddRoom(c)
        BY <2>1, <2>2 DEF StartAddRoom
  <2>3. CASE StartInscribe(c)
        BY <2>1, <2>3 DEF StartInscribe
  <2>4. CASE StartMove(c)
        BY <2>1, <2>4 DEF StartMove
  <2>5. CASE StartRename(c)
        BY <2>1, <2>5 DEF StartRename
  <2> QED BY <2>2, <2>3, <2>4, <2>5 DEF StartAny
<1>2. /\ pc[c] = "idle" /\ pc' = [pc EXCEPT ![c] = "staged"]
      /\ verb' = [verb EXCEPT ![c] = v] /\ avatar' = [avatar EXCEPT ![c] = a]
      /\ room' = [room EXCEPT ![c] = r]
      /\ UNCHANGED <<from, todo, owner, db>>
      BY <1>1 DEF Start, CanStart, Goto
<1>3. /\ pc \in [All -> Steps] /\ verb \in [All -> AllVerbs]
      /\ room \in [All -> Opt] /\ avatar \in [All -> Opt]
      BY DEF MirrorInv, TypeOK, Opt
<1>4. /\ pc'[c] = "staged" /\ verb'[c] = v /\ avatar'[c] = a
      /\ \A d \in All \ {c} : /\ pc'[d] = pc[d] /\ verb'[d] = verb[d]
                              /\ avatar'[d] = avatar[d] /\ room'[d] = room[d]
      BY <1>2, <1>3
<1>5. SingleHome'
      BY <1>2 DEF HomeInv, SingleHome
<1>6. Unborn'
  <2>1. ASSUME NEW e \in db.lives PROVE pc'[e[1].of] \notin {"idle", "staged"}
    <3>1. e[1] \in Fps /\ pc[e[1].of] \notin {"idle", "staged"}
          BY DEF HomeInv, Unborn
    <3>2. e[1].of \in All
          BY <3>1 DEF Fps
    <3> QED BY <1>2, <1>4, <3>1, <3>2
  <2> QED BY <1>2, <2>1 DEF HomeInv, Unborn
<1>7. MovesEnded'
  <2>1. ASSUME NEW d \in All, verb'[d] = "move"
        PROVE  avatar'[d] \in Fps /\ pc'[avatar'[d].of] \in {"done", "dead"}
    <3>1. avatar'[d] \in Fps /\ pc[avatar'[d].of] \in {"done", "dead"}
      <4>1. CASE d = c
        <5>1. PICK b \in Commands : pc[b] \in {"done", "dead"} /\ a = Fp("inscription", b)
              BY <1>1, <1>4, <2>1, <4>1 DEF Known
        <5>2. a \in Fps /\ a.of = b
              BY <5>1, FpTyped, FpFields DEF Kinds, All
        <5> QED BY <1>4, <4>1, <5>1, <5>2
      <4>2. CASE d # c
            BY <1>4, <2>1, <4>2 DEF HomeInv, MovesEnded
      <4> QED BY <4>1, <4>2
    <3>2. avatar'[d].of \in All /\ avatar'[d].of # c
          BY <1>2, <3>1 DEF Fps
    <3> QED BY <1>4, <3>1, <3>2
  <2> QED BY <2>1 DEF MovesEnded
<1>8. OneBridge'
      BY <1>2, <1>4 DEF HomeInv, OneBridge
<1>9. Housing'
  <2>1. ASSUME NEW d \in All, pc'[d] = "bridge"
        PROVE  IF verb'[d] = "move" THEN Moves(d)' ELSE Places(d)'
    <3>1. d # c /\ pc[d] = "bridge"
          BY <1>4, <2>1
    <3>2. IF verb[d] = "move" THEN Moves(d) ELSE Places(d)
          BY <3>1 DEF HomeInv, Housing
    <3>3. Placed(d)' = Placed(d)
          BY <1>4, <3>1 DEF Placed
    <3> QED BY <1>2, <1>4, <3>1, <3>2, <3>3 DEF Moves, Places
  <2> QED BY <2>1 DEF Housing
<1> QED BY <1>5, <1>6, <1>7, <1>8, <1>9 DEF HomeInv

LEMMA HomeOpen ==
    ASSUME MirrorInv, HomeInv, NEW c \in All, OpenStore(c)
    PROVE  HomeInv'
<1>1. PICK f \in Sources(c), offl \in BOOLEAN :
         /\ Passes(c, f)
         /\ from' = [from EXCEPT ![c] = f]
         /\ todo' = [todo EXCEPT ![c] = Script(c, f, offl)]
      BY DEF OpenStore
<1>2. /\ pc[c] = "staged" /\ pc' = [pc EXCEPT ![c] = "bridge"]
      /\ owner = None /\ owner' = c /\ UNCHANGED <<args, db>>
      BY DEF OpenStore, Goto
<1> USE DEF args
<1>3. /\ pc \in [All -> Steps] /\ verb[c] \in AllVerbs /\ room[c] \in Opt
      /\ db.nodes \subseteq Fps
      /\ from \in [All -> Opt]
      /\ todo \in [All -> Seq(Queries \X (Fps \cup {None}) \X (Fps \cup {None}))]
      BY DEF MirrorInv, TypeOK, Graph, Opt
<1>4. pc'[c] = "bridge" /\ from'[c] = f /\ todo'[c] = Script(c, f, offl)
      /\ \A d \in All \ {c} : pc'[d] = pc[d]
      BY <1>1, <1>2, <1>3
<1>5. \A d \in All : pc[d] # "bridge"
      BY <1>2, VaultCommandsAssumption DEF HomeInv, OneBridge
<1>6. SingleHome'
      BY <1>2 DEF HomeInv, SingleHome
<1>7. Unborn'
  <2>1. ASSUME NEW e \in db.lives PROVE pc'[e[1].of] \notin {"idle", "staged"}
    <3>1. e[1] \in Fps /\ pc[e[1].of] \notin {"idle", "staged"}
          BY DEF HomeInv, Unborn
    <3>2. e[1].of \in All
          BY <3>1 DEF Fps
    <3> QED BY <1>4, <3>1, <3>2
  <2> QED BY <1>2, <2>1 DEF HomeInv, Unborn
<1>8. MovesEnded'
  <2>1. ASSUME NEW d \in All, verb[d] = "move" PROVE pc'[avatar[d].of] \in {"done", "dead"}
    <3>1. avatar[d] \in Fps /\ pc[avatar[d].of] \in {"done", "dead"}
          BY <2>1 DEF HomeInv, MovesEnded
    <3>2. avatar[d].of \in All /\ avatar[d].of # c
          BY <1>2, <3>1 DEF Fps
    <3> QED BY <1>4, <3>1, <3>2
  <2> QED BY <1>2, <2>1 DEF HomeInv, MovesEnded
<1>9. OneBridge'
      BY <1>2, <1>4, <1>5 DEF OneBridge
<1>10. CASE verb[c] = "move"
  <2>1. f \in Fps /\ <<avatar[c], f>> \in db.lives
        BY <1>1, <1>3, <1>10 DEF Sources, Homes, Passes
  <2>2. \A r : <<avatar[c], r>> \in db.lives => r = f
        BY <2>1 DEF HomeInv, SingleHome
  <2> DEFINE s == Script(c, f, offl)
  <2>3. \/ s = <<>>
        \/ /\ Len(s) >= 2 /\ s[1] = Unlive(avatar[c], f)
           /\ s[2] = Live(avatar[c], room[c]) /\ Settles(s, 3)
        BY <1>10, <2>1, ScriptMoves
  <2> HIDE DEF s
  <2>4. CASE s = <<>>
    <3>1. Settles(s, 1)
          BY <2>4 DEF Settles
    <3>2. Moves(c)'
          BY <1>4, <3>1 DEF Moves, Settles, s
    <3> QED BY <1>2, <1>4, <1>5, <1>6, <1>7, <1>8, <1>9, <1>10, <3>2 DEF HomeInv, Housing
  <2>5. CASE s # <<>>
    <3>1. Moves(c)'
          BY <1>2, <1>4, <2>2, <2>3, <2>5 DEF Moves, Settles, s, Unlive, Live
    <3> QED BY <1>2, <1>4, <1>5, <1>6, <1>7, <1>8, <1>9, <1>10, <3>1 DEF HomeInv, Housing
  <2> QED BY <2>4, <2>5
<1>11. CASE verb[c] # "move"
  <2>1. f \in Opt
        BY <1>1, <1>3 DEF Sources, Homes, Opt
  <2>2. Script(c, f, offl) \in Seq(Placed(c))
        BY <1>3, <1>11, <2>1, ScriptPlaces
  <2>3. \A r : <<Fp("inscription", c), r>> \notin db.lives
    <3>1. ASSUME NEW r, <<Fp("inscription", c), r>> \in db.lives PROVE FALSE
      <4>1. pc[Fp("inscription", c).of] \notin {"idle", "staged"}
            BY <3>1 DEF HomeInv, Unborn
      <4> QED BY <1>2, <4>1, FpFields
    <3> QED BY <3>1
  <2>4. Placed(c)' = Placed(c)
        BY <1>2 DEF Placed
  <2>5. Places(c)'
        BY <1>2, <1>4, <2>2, <2>3, <2>4 DEF Places
  <2> QED BY <1>2, <1>4, <1>5, <1>6, <1>7, <1>8, <1>9, <1>11, <2>5 DEF HomeInv, Housing
<1> QED BY <1>10, <1>11

\* A step of c's bridge leaves the other commands alone.
LEMMA HomeBridge ==
    ASSUME MirrorInv, HomeInv, NEW c \in All, pc[c] = "bridge",
           UNCHANGED <<pc, args, from, owner>>,
           SingleHome', Unborn', IF verb[c] = "move" THEN Moves(c)' ELSE Places(c)'
    PROVE  HomeInv'
<1> USE DEF args
<1>1. MovesEnded' /\ OneBridge'
      BY DEF HomeInv, MovesEnded, OneBridge
<1>2. \A d \in All : pc[d] = "bridge" => d = c
      BY DEF HomeInv, OneBridge
<1>3. Housing'
      BY <1>2 DEF Housing
<1> QED BY <1>1, <1>3 DEF HomeInv

LEMMA HomeSkip ==
    ASSUME MirrorInv, HomeInv, NEW c \in All, SkipAqueduct(c)
    PROVE  HomeInv'
<1>1. /\ pc[c] = "bridge" /\ verb[c] \in {"inscribe", "inscribe-via"}
      /\ todo' = [todo EXCEPT ![c] = MythosNode(c)]
      /\ UNCHANGED <<pc, args, from, owner, db>>
      BY DEF SkipAqueduct, GivesUpAqueduct
<1> USE DEF args
<1>2. todo'[c] = MythosNode(c)
      BY <1>1 DEF MirrorInv, TypeOK
<1>3. MythosNode(c) \in Seq(Placed(c))
  <2>1. Fp("mythos", c) \in Opt
        BY FpTyped DEF Opt, Kinds
  <2>2. Node(Fp("mythos", c)) \in Placed(c)
        BY <2>1 DEF Node, Placed, Queries, Opt
  <2> QED BY <2>2 DEF MythosNode
<1>4. Placed(c)' = Placed(c)
      BY <1>1 DEF Placed
<1>5. Places(c)
      BY <1>1 DEF HomeInv, Housing
<1>6. Places(c)'
      BY <1>1, <1>2, <1>3, <1>4, <1>5 DEF Places
<1>7. SingleHome' /\ Unborn'
      BY <1>1 DEF HomeInv, SingleHome, Unborn
<1> QED BY <1>1, <1>6, <1>7, HomeBridge

LEMMA HomeQuery ==
    ASSUME MirrorInv, HomeInv, NEW c \in All, BridgeQuery(c)
    PROVE  HomeInv'
<1>1. /\ pc[c] = "bridge" /\ todo[c] # <<>>
      /\ todo' = [todo EXCEPT ![c] = Tail(todo[c])]
      /\ UNCHANGED <<files, pc, code, args, from, promoted, offline, owner, faults>>
      BY DEF BridgeQuery, Runs, CreateNode, CreateContains,
             CreateLivesIn, DeleteLivesIn, DropInscription, CreatePredecessor, DeleteHead,
             CreateHead, SetHeadColumn, ForgetHeads, CreateTriple, CreateKnowledge,
             AppendLog, MirrorAqueduct, CreateAqueduct, CreateEnd, Strengthen
<1> USE DEF args
<1>2. \/ Head(todo[c])[1] = "live" /\ db'.lives = Joined(db.lives, X(c), Y(c))
      \/ Head(todo[c])[1] # "live" /\ db'.lives \subseteq db.lives
         /\ (Head(todo[c])[1] = "unlive" => db'.lives = db.lives \ {<<X(c), Y(c)>>})
      BY LivesStep DEF MirrorInv, TypeOK
<1> DEFINE Q == Queries \X Opt \X Opt
<1>3. todo[c] \in Seq(Q) /\ todo'[c] = Tail(todo[c]) /\ Placed(c)' = Placed(c)
      BY <1>1 DEF MirrorInv, TypeOK, Opt, Placed
<1>4. /\ Len(todo[c]) >= 1 /\ Head(todo[c]) = todo[c][1]
      /\ Len(Tail(todo[c])) = Len(todo[c]) - 1
      /\ \A k \in 1..(Len(todo[c]) - 1) : Tail(todo[c])[k] = todo[c][k + 1]
      BY <1>1, <1>3
<1>5. \A n \in {1, 2} : Settles(todo[c], n + 1) => Settles(todo'[c], n)
      BY <1>1, <1>3, SettlesTail
<1>6. Settles(todo[c], 1) => Settles(todo'[c], 1)
  <2>1. ASSUME Settles(todo[c], 1) PROVE Settles(todo[c], 2)
        BY <2>1, <1>3 DEF Settles
  <2> QED BY <1>5, <2>1
<1>7. IF verb[c] = "move" THEN Moves(c) ELSE Places(c)
      BY <1>1 DEF HomeInv, Housing
<1>8. CASE Head(todo[c])[1] # "live" /\ db'.lives \subseteq db.lives
           /\ (Head(todo[c])[1] = "unlive" => db'.lives = db.lives \ {<<X(c), Y(c)>>})
  <2>1. SingleHome' /\ Unborn'
        BY <1>1, <1>8 DEF HomeInv, SingleHome, Unborn
  <2>2. CASE verb[c] = "move"
    <3>1. ASSUME Settles(todo[c], 1) PROVE Moves(c)'
          BY <1>6, <3>1 DEF Moves, Settles
    <3>2. ASSUME todo[c][1] = Live(avatar[c], room[c]) PROVE Moves(c)'
          BY <1>4, <1>8, <3>2 DEF Live
    <3>3. ASSUME Len(todo[c]) >= 2, todo[c][1] = Unlive(avatar[c], from[c]),
                 todo[c][2] = Live(avatar[c], room[c]), Settles(todo[c], 3),
                 \A r : <<avatar[c], r>> \in db.lives => r = from[c]
          PROVE  Moves(c)'
      <4>1. Head(todo[c])[1] = "unlive" /\ X(c) = avatar[c] /\ Y(c) = from[c]
            BY <1>4, <3>3 DEF Unlive, X, Y
      <4>2. \A r : <<avatar[c], r>> \notin db'.lives
            BY <1>8, <3>3, <4>1
      <4>3. Settles(todo'[c], 2)
        <5>1. 2 + 1 = 3 /\ 2 \in {1, 2}
              OBVIOUS
        <5> QED BY <1>5, <3>3, <5>1
      <4>4. Len(todo'[c]) >= 1 /\ todo'[c][1] = Live(avatar[c], room[c])
            BY <1>3, <1>4, <3>3
      <4> QED BY <1>1, <4>2, <4>3, <4>4 DEF Moves, Settles, Live
    <3>4. Moves(c)'
          BY <1>7, <2>2, <3>1, <3>2, <3>3 DEF Moves
    <3> QED BY <1>1, <2>1, <2>2, <3>4, HomeBridge
  <2>3. CASE verb[c] # "move"
    <3>1. todo'[c] \in Seq(Placed(c))
          BY <1>1, <1>3, <1>7, <2>3, TailTyped DEF Places
    <3>2. Places(c)'
          BY <1>1, <1>3, <1>7, <1>8, <2>3, <3>1 DEF Places
    <3> QED BY <1>1, <2>1, <2>3, <3>2, HomeBridge
  <2> QED BY <2>2, <2>3
<1>9. CASE Head(todo[c])[1] = "live" /\ db'.lives = Joined(db.lives, X(c), Y(c))
  <2>1. db'.lives \subseteq db.lives \cup {<<X(c), Y(c)>>}
        BY <1>9 DEF Joined
  <2>2. CASE verb[c] = "move"
    <3>1. /\ todo[c][1] = Live(avatar[c], room[c]) /\ Settles(todo[c], 2)
          /\ \A r : <<avatar[c], r>> \notin db.lives
          BY <1>4, <1>7, <1>9, <2>2 DEF Moves, Settles, Unlive
    <3>2. X(c) = avatar[c] /\ Y(c) = room[c]
          BY <1>4, <3>1 DEF Live, X, Y
    <3>3. SingleHome'
          BY <2>1, <3>1, <3>2 DEF HomeInv, SingleHome
    <3>4. avatar[c] \in Fps /\ pc[avatar[c].of] \notin {"idle", "staged"}
          BY <2>2 DEF HomeInv, MovesEnded
    <3>5. Unborn'
          BY <1>1, <2>1, <3>2, <3>4 DEF HomeInv, Unborn
    <3>6. Settles(todo'[c], 1)
      <4>1. 1 + 1 = 2 /\ 1 \in {1, 2}
            OBVIOUS
      <4> QED BY <1>5, <3>1, <4>1
    <3>7. Moves(c)'
          BY <3>6 DEF Moves, Settles
    <3> QED BY <1>1, <2>2, <3>3, <3>5, <3>7, HomeBridge
  <2>3. CASE verb[c] # "move"
    <3>1. /\ todo[c] \in Seq(Placed(c))
          /\ \A r : <<Fp("inscription", c), r>> \in db.lives => r = room[c]
          BY <1>7, <2>3 DEF Places
    <3>2. todo[c][1] = Live(Fp("inscription", c), room[c])
      <4>1. todo[c][1] \in Placed(c)
            BY <1>4, <3>1
      <4> QED BY <1>4, <1>9, <4>1 DEF Placed
    <3>3. X(c) = Fp("inscription", c) /\ Y(c) = room[c]
          BY <1>4, <3>2 DEF Live, X, Y
    <3>4. SingleHome'
          BY <2>1, <3>1, <3>3 DEF HomeInv, SingleHome
    <3>5. Fp("inscription", c) \in Fps /\ Fp("inscription", c).of = c
          BY FpTyped, FpFields DEF Kinds
    <3>6. Unborn'
          BY <1>1, <2>1, <3>3, <3>5 DEF HomeInv, Unborn
    <3>7. todo'[c] \in Seq(Placed(c))
          BY <1>1, <1>3, <3>1, TailTyped
    <3>8. \A r : <<Fp("inscription", c), r>> \in db'.lives => r = room[c]
          BY <2>1, <3>1, <3>3
    <3>9. Places(c)'
          BY <1>1, <1>3, <3>7, <3>8 DEF Places
    <3> QED BY <1>1, <2>3, <3>4, <3>6, <3>9, HomeBridge
  <2> QED BY <2>2, <2>3
<1> QED BY <1>2, <1>8, <1>9

LEMMA HomeStep == MirrorInv /\ HomeInv /\ [Next]_vars => HomeInv'
<1> SUFFICES ASSUME MirrorInv, HomeInv, [Next]_vars PROVE HomeInv'
    OBVIOUS
<1> USE DEF files, Goto, RollBack, Exit
<1>0. \A c \in All : pc[c] = "bridge" => owner = c
      BY DEF HomeInv, OneBridge
<1>1. CASE UNCHANGED vars
  <2> USE <1>1 DEF vars, args, HomeInv
  <2>1. SingleHome' /\ Unborn' /\ MovesEnded' /\ OneBridge'
        BY DEF SingleHome, Unborn, MovesEnded, OneBridge
  <2>2. Housing'
        BY DEF Housing, Moves, Places, Placed
  <2> QED BY <2>1, <2>2
<1>2. CASE StartMint
  <2>1. /\ Mint \in All /\ pc[Mint] = "idle" /\ pc' = [pc EXCEPT ![Mint] = "staged"]
        /\ UNCHANGED <<args, from, todo, owner, db>>
        BY <1>2 DEF StartMint, CanStart, All
  <2> QED BY <2>1, HomePlain DEF Steps
<1>3. CASE InstallBundle
  <2>1. /\ Mint \in All /\ pc[Mint] = "promote" /\ pc' = [pc EXCEPT ![Mint] = "keys"]
        /\ UNCHANGED <<args, from, todo, owner, db>>
        BY <1>3 DEF InstallBundle, Unpromoted, All
  <2> QED BY <2>1, HomePlain DEF Steps
<1>4. CASE InstallKeys
  <2>1. /\ Mint \in All /\ pc' = [pc EXCEPT ![Mint] = "done"]
        /\ UNCHANGED <<args, from, todo, owner, db>>
        BY <1>4 DEF InstallKeys, All
  <2> QED BY <2>1, HomePlain DEF Steps
<1>5. ASSUME NEW c \in All, CommandStep(c) PROVE HomeInv'
  <2>1. CASE \/ Refuse(c) \/ BridgeRefuses(c) \/ BridgeFails(c) \/ BridgeExits(c)
             \/ WriteBundle(c) \/ FileFails(c) \/ Die(c) \/ TruncateBundle(c)
    <3>1. PICK p \in Steps \ {"bridge", "idle", "staged"} :
            /\ pc' = [pc EXCEPT ![c] = p]
            /\ pc[c] \notin {"done", "dead"}
            /\ owner' = owner \/ (owner = c /\ owner' = None)
            /\ UNCHANGED <<args, from, todo, db>>
          BY <1>0, <2>1 DEF Refuse, CanStart, BridgeRefuses, BridgeFails, BridgeExits,
             WriteBundle, FileFails, Die, Running, TruncateBundle, Unpromoted, Steps
    <3> QED BY <3>1, HomePlain
  <2>2. CASE StartAny(c)
        BY <2>2, HomeStart
  <2>3. CASE OpenStore(c)
        BY <2>3, HomeOpen
  <2>4. CASE BridgeQuery(c)
        BY <2>4, HomeQuery
  <2>5. CASE SkipAqueduct(c)
        BY <2>5, HomeSkip
  <2>6. CASE Promote(c)
    <3>1. /\ pc[c] = "promote" /\ UNCHANGED <<pc, args, from, todo, owner, db>>
          BY <2>6 DEF Promote
    <3>2. pc' = [pc EXCEPT ![c] = "promote"]
          BY <3>1 DEF MirrorInv, TypeOK
    <3> QED BY <3>1, <3>2, HomePlain DEF Steps
  <2> QED BY <1>5, <2>1, <2>2, <2>3, <2>4, <2>5, <2>6 DEF CommandStep
<1> QED BY <1>1, <1>2, <1>3, <1>4, <1>5 DEF Next

LEMMA HomeInvariant == Spec => []HomeInv
<1>1. Init => HomeInv
      BY DEF Init, HomeInv, SingleHome, Unborn, MovesEnded, OneBridge, Housing
<1> QED BY <1>1, MirrorInvariant, HomeStep, PTL DEF Spec

\* An inscription lives in one room at most, however commands overlap, fail and
\* die: a move deletes the home it found before it creates another, nobody else
\* has the store open meanwhile, and no move is of an avatar still being made.
THEOREM VaultOneHome == Spec => []OneHome
<1>1. MirrorInv /\ HomeInv => OneHome
  <2> SUFFICES ASSUME HomeInv, NEW i \in db.nodes PROVE Cardinality(Homes(i)) <= 1
      BY DEF OneHome
  <2>1. CASE Homes(i) = {}
        BY <2>1, FS_EmptySet
  <2>2. CASE Homes(i) # {}
    <3>1. PICK r : r \in Homes(i)
          BY <2>2
    <3>2. Homes(i) = {r}
          BY <3>1 DEF HomeInv, SingleHome, Homes
    <3>3. Cardinality({r}) = 1
          BY FS_Singleton
    <3>4. Cardinality(Homes(i)) = 1
          BY <3>2, <3>3, Zenon
    <3> QED BY <3>4
  <2> QED BY <2>1, <2>2
<1> QED BY <1>1, HomeInvariant, MirrorInvariant, PTL

-----------------------------------------------------------------------------
(* One command at a time, the head of the palace.  The last mythos of the    *)
(* bundle is the one the graph names, because what is left of the script of  *)
(* a mint or a rename always ends with the edge, the column and the triple   *)
(* of its own mythos.                                                        *)

\* The queries of each verb.
NamesOf(v) ==
    CASE v = "mint" -> {"node", "unhead", "head", "headCol", "contain", "triple", "know", "log"}
      [] v = "add-room" -> {"node", "contain", "log"}
      [] v \in {"inscribe", "inscribe-via"} ->
            {"node", "contain", "live", "drop", "log", "aqueduct", "aqTo", "mirror"}
      [] v = "move" -> {"unlive", "live", "log", "aqueduct", "aqFrom", "aqTo", "strengthen"}
      [] OTHER -> {"node", "chain", "unhead", "head", "headCol", "log", "forget", "triple", "know"}

Calls(N) == {q \in Queries \X Opt \X Opt : q[1] \in N}

\* The script has no query u; it has a query n and no u after it.
Clear(s, u) == \A i \in DOMAIN s : s[i][1] # u
Will(s, n, u) == \E i \in DOMAIN s : s[i][1] = n /\ \A j \in DOMAIN s : j > i => s[j][1] # u

Names == /\ \A c \in All : pc[c] = "bridge" => todo[c] \in Seq(Calls(NamesOf(verb[c])))

\* Of the commands R, that of x comes last in the lines.
LastOf(s, x, R) ==
    x \in R /\ \A d \in R \ {x}, i, j \in DOMAIN s : s[i] = Action(d) /\ s[j] = Action(x) => i < j

RenamesOf(s) == {c \in ActsOf(s) : verb[c] = "rename-mythos"} \cup {c \in {Mint} : c \in ActsOf(s)}

\* The graph names the mythos of c.
Agrees(c) ==
    LET m == Fp("mythos", c)
    IN  db.head = m /\ db.headCol = m /\ db.knows = {m}

\* The graph will name the mythos of c when its script has run.
Becomes(c) ==
    LET s == todo[c]
        m == Fp("mythos", c)
    IN  /\ Will(s, "head", "unhead") \/ (Clear(s, "unhead") /\ db.head = m)
        /\ ~Clear(s, "headCol") \/ db.headCol = m
        /\ Will(s, "know", "forget") \/ (Clear(s, "forget") /\ m \in db.knows)
        /\ ~Clear(s, "forget") \/ db.knows \subseteq {m}

\* A rename is not among the lines, or the graph names the last one that is.
Pend(s) == \E d \in Commands : verb[d] = "rename-mythos" /\ pc[d] # "idle" /\ d \notin ActsOf(s)
HeadOf(s) == Pend(s) \/ \E x \in All : LastOf(s, x, RenamesOf(s)) /\ Agrees(x)

Renamer(c) == verb[c] \in {"mint", "rename-mythos"}

HeadInv ==
    /\ Names
    /\ bundle # <<>> => HeadOf(bundle)
    /\ \A c \in Commands : pc[c] = "write" /\ verb[c] # "rename-mythos" => HeadOf(seen[c])
    /\ \A c \in All : /\ Renamer(c) /\ pc[c] = "bridge" => Becomes(c)
                      /\ Renamer(c) /\ pc[c] \in {"promote", "write"} => Agrees(c)
    /\ pc[Mint] \in {"idle", "staged"} => db.knows = {}

-----------------------------------------------------------------------------
\* What is left of a script.

LEMMA TailOf ==
    ASSUME NEW S, NEW s \in Seq(S), s # <<>>
    PROVE  /\ Tail(s) \in Seq(S) /\ Len(s) \in Nat \ {0} /\ Head(s) = s[1]
           /\ DOMAIN s = 1..Len(s) /\ DOMAIN Tail(s) = 1..(Len(s) - 1)
           /\ \A i \in DOMAIN Tail(s) : i + 1 \in DOMAIN s /\ Tail(s)[i] = s[i + 1]
OBVIOUS

LEMMA ClearTail ==
    ASSUME NEW S, NEW s \in Seq(S), s # <<>>, NEW u
    PROVE  /\ Clear(s, u) => Clear(Tail(s), u)
           /\ Clear(Tail(s), u) /\ Head(s)[1] # u => Clear(s, u)
<1>1. ASSUME Clear(s, u) PROVE Clear(Tail(s), u)
      BY <1>1, TailOf DEF Clear
<1>2. ASSUME Clear(Tail(s), u), Head(s)[1] # u, NEW i \in DOMAIN s PROVE s[i][1] # u
  <2>1. CASE i = 1
        BY <1>2, <2>1, TailOf
  <2>2. CASE i # 1
    <3>1. i - 1 \in DOMAIN Tail(s) /\ Tail(s)[i - 1] = s[i]
          BY <1>2, <2>2, TailOf
    <3> QED BY <1>2, <3>1 DEF Clear
  <2> QED BY <2>1, <2>2
<1> QED BY <1>1, <1>2 DEF Clear

LEMMA WillTail ==
    ASSUME NEW S, NEW s \in Seq(S), s # <<>>, NEW n, NEW u, Will(s, n, u)
    PROVE  \/ Will(Tail(s), n, u)
           \/ Head(s)[1] = n /\ Clear(Tail(s), u)
<1>1. PICK i \in DOMAIN s : s[i][1] = n /\ \A j \in DOMAIN s : j > i => s[j][1] # u
      BY DEF Will
<1>2. CASE i = 1
  <2>1. ASSUME NEW k \in DOMAIN Tail(s) PROVE Tail(s)[k][1] # u
    <3>1. k + 1 \in DOMAIN s /\ k + 1 > 1 /\ Tail(s)[k] = s[k + 1]
          BY <2>1, TailOf
    <3> QED BY <1>1, <1>2, <3>1
  <2> QED BY <1>1, <1>2, <2>1, TailOf DEF Clear
<1>3. CASE i # 1
  <2>1. i - 1 \in DOMAIN Tail(s) /\ Tail(s)[i - 1] = s[i]
        BY <1>3, TailOf
  <2>2. ASSUME NEW k \in DOMAIN Tail(s), k > i - 1 PROVE Tail(s)[k][1] # u
    <3>1. k + 1 \in DOMAIN s /\ k + 1 > i /\ Tail(s)[k] = s[k + 1]
          BY <2>2, TailOf
    <3> QED BY <1>1, <3>1
  <2> QED BY <1>1, <2>1, <2>2 DEF Will
<1> QED BY <1>2, <1>3

\* What is planned in the second of two scripts is planned in both.
LEMMA WillAfter ==
    ASSUME NEW S, NEW s \in Seq(S), NEW t \in Seq(S), NEW n, NEW u
    PROVE  /\ Will(t, n, u) => Will(s \o t, n, u)
           /\ Will(s, n, u) /\ Clear(t, u) => Will(s \o t, n, u)
           /\ ~Clear(s, u) \/ ~Clear(t, u) => ~Clear(s \o t, u)
<1>0. DOMAIN s = 1..Len(s) /\ DOMAIN t = 1..Len(t) /\ DOMAIN (s \o t) = 1..(Len(s) + Len(t))
      BY Concat
<1>1. \A k \in DOMAIN t : Len(s) + k \in DOMAIN (s \o t) /\ (s \o t)[Len(s) + k] = t[k]
      BY <1>0, Concat
<1>2. \A k \in DOMAIN s : k \in DOMAIN (s \o t) /\ (s \o t)[k] = s[k]
      BY <1>0, Concat
<1>3. \A k \in DOMAIN (s \o t) : k > Len(s) =>
         k - Len(s) \in DOMAIN t /\ (s \o t)[k] = t[k - Len(s)]
      BY <1>0, Concat
<1>4. ASSUME Will(t, n, u) PROVE Will(s \o t, n, u)
  <2>1. PICK i \in DOMAIN t : t[i][1] = n /\ \A j \in DOMAIN t : j > i => t[j][1] # u
        BY <1>4 DEF Will
  <2>2. ASSUME NEW k \in DOMAIN (s \o t), k > Len(s) + i PROVE (s \o t)[k][1] # u
    <3>1. k > Len(s) /\ k - Len(s) > i
          BY <1>0, <2>2
    <3> QED BY <1>3, <2>1, <3>1
  <2> QED BY <1>1, <2>1, <2>2 DEF Will
<1>5. ASSUME Will(s, n, u), Clear(t, u) PROVE Will(s \o t, n, u)
  <2>1. PICK i \in DOMAIN s : s[i][1] = n /\ \A j \in DOMAIN s : j > i => s[j][1] # u
        BY <1>5 DEF Will
  <2>2. ASSUME NEW k \in DOMAIN (s \o t), k > i PROVE (s \o t)[k][1] # u
    <3>1. CASE k \in DOMAIN s
          BY <1>2, <2>1, <2>2, <3>1
    <3>2. CASE k \notin DOMAIN s
      <4>1. k > Len(s)
            BY <1>0, <3>2
      <4> QED BY <1>3, <1>5, <4>1 DEF Clear
    <3> QED BY <3>1, <3>2
  <2> QED BY <1>2, <2>1, <2>2 DEF Will
<1>6. ASSUME ~Clear(s, u) \/ ~Clear(t, u) PROVE ~Clear(s \o t, u)
      BY <1>1, <1>2, <1>6 DEF Clear
<1> QED BY <1>4, <1>5, <1>6

-----------------------------------------------------------------------------
\* The scripts.

LEMMA ClearNames ==
    ASSUME NEW N, NEW s \in Seq(Calls(N)), NEW u, u \notin N
    PROVE  Clear(s, u)
BY DEF Calls, Clear

LEMMA ScriptNames ==
    ASSUME NEW c \in All, NEW f \in Opt, NEW offl \in BOOLEAN, verb[c] \in AllVerbs,
           room[c] \in Opt, avatar[c] \in Opt
    PROVE  /\ Script(c, f, offl) \in Seq(Calls(NamesOf(verb[c])))
           /\ verb[c] \in {"inscribe", "inscribe-via"} =>
                MythosNode(c) \in Seq(Calls(NamesOf(verb[c])))
<1> DEFINE S == Calls(NamesOf(verb[c]))
<1>1. /\ \A k \in Kinds : Fp(k, c) \in Opt
      /\ Palace \in Opt /\ Genesis \in Opt /\ Oracle \in Opt /\ Action(c) \in Opt
      BY FpTyped DEF Opt, Palace, Genesis, Oracle, Action, Kinds, All
<1>2. \A g, h \in Opt : /\ "node" \in NamesOf(verb[c]) => Node(g) \in S
                        /\ "log" \in NamesOf(verb[c]) => LogRow(g) \in S
                        /\ "contain" \in NamesOf(verb[c]) => Contain(g, h) \in S
                        /\ "live" \in NamesOf(verb[c]) => Live(g, h) \in S
                        /\ "unlive" \in NamesOf(verb[c]) => Unlive(g, h) \in S
      BY DEF Node, LogRow, Contain, Live, Unlive, Calls, Queries, Opt
<1>3. \A n \in Queries : n \in NamesOf(verb[c]) => Query(n) \in S
      BY DEF Query, Calls, Opt
<1>4. "log" \in NamesOf(verb[c]) /\ LogRow(Action(c)) \in S
      BY <1>1, <1>2 DEF NamesOf, AllVerbs
<1>5. \A k \in Kinds : Fp(k, c) \in Opt
      BY <1>1
<1> HIDE DEF S
<1>6. \A s, t \in Seq(S) : s \o t \in Seq(S)
      BY Concat
<1>7. CASE verb[c] = "mint"
  <2>1. \A n \in {"node", "contain", "unhead", "head", "headCol", "triple", "know"} :
            n \in NamesOf(verb[c]) /\ n \in Queries
        BY <1>7 DEF NamesOf, Queries
  <2>2. /\ <<Node(Palace), Node(Genesis)>> \in Seq(S) /\ SwapHead \in Seq(S)
        /\ <<Node(Oracle), Contain(Palace, Oracle), Query("triple"), Query("know"),
             LogRow(Action(c))>> \in Seq(S)
        BY <1>1, <1>2, <1>3, <1>4, <2>1 DEF SwapHead
  <2>3. MintScript(c) \in Seq(S)
        BY <1>6, <2>2 DEF MintScript
  <2> QED BY <1>7, <2>3 DEF Script, S
<1>8. CASE verb[c] = "add-room"
  <2>1. \A n \in {"node", "contain"} : n \in NamesOf(verb[c])
        BY <1>8 DEF NamesOf
  <2>2. /\ <<Node(Fp("room", c)), Contain(Palace, Fp("room", c))>> \in Seq(S)
        /\ MythosNode(c) \in Seq(S) /\ <<LogRow(Action(c))>> \in Seq(S)
        BY <1>1, <1>2, <1>4, <2>1 DEF MythosNode, Kinds
  <2>3. AddRoomScript(c) \in Seq(S)
        BY <1>6, <2>2 DEF AddRoomScript
  <2> QED BY <1>8, <2>3 DEF Script, S
<1>9. CASE verb[c] \in {"inscribe", "inscribe-via"}
  <2>1. \A n \in {"node", "contain", "live", "drop", "aqueduct", "aqTo", "mirror"} :
            n \in NamesOf(verb[c]) /\ n \in Queries
        BY <1>9 DEF NamesOf, Queries
  <2>2. MythosNode(c) \in Seq(S)
        BY <1>1, <1>2, <2>1 DEF MythosNode, Kinds
  <2>3. Inscribed(c) \in Seq(S)
        BY <1>1, <1>2, <2>1 DEF Inscribed, Kinds
  <2>4. /\ <<LogRow(Action(c))>> \in Seq(S) /\ <<Query("drop")>> \in Seq(S) /\ <<>> \in Seq(S)
        /\ <<Query("mirror")>> \in Seq(S)
        BY <1>3, <1>4, <2>1
  <2>5. RoomAqueduct(c) \in Seq(S)
    <3>1. <<Query("aqueduct"), Query("aqTo"), LogRow(Fp("aqueduct", c))>> \in Seq(S)
          BY <1>1, <1>2, <1>3, <1>4, <2>1 DEF Kinds
    <3> QED BY <1>6, <2>2, <2>4, <3>1 DEF RoomAqueduct
  <2>6. InscribeScript(c) \in Seq(S) /\ InscribeViaScript(c, offl) \in Seq(S)
        BY <1>6, <2>3, <2>4, <2>5 DEF InscribeScript, InscribeViaScript
  <2> QED BY <1>9, <2>2, <2>6 DEF Script, S
<1>10. CASE verb[c] = "move"
  <2>1. \A n \in {"unlive", "live", "aqueduct", "aqFrom", "aqTo", "strengthen"} :
            n \in NamesOf(verb[c]) /\ n \in Queries
        BY <1>10 DEF NamesOf, Queries
  <2>2. <<Unlive(avatar[c], f), Live(avatar[c], room[c]), LogRow(Action(c))>> \in Seq(S)
        BY <1>2, <1>4, <2>1
  <2>3. MoveAqueduct(c, f, room[c]) \in Seq(S)
    <3>1. /\ \A n \in {"aqueduct", "aqFrom", "aqTo", "strengthen"} : Query(n) \in S
          /\ LogRow(Fp("aqueduct", c)) \in S
          BY <1>1, <1>2, <1>3, <1>4, <2>1 DEF Kinds
    <3> QED BY <3>1 DEF MoveAqueduct
  <2>4. MoveScript(c, f) \in Seq(S)
        BY <1>6, <2>2, <2>3 DEF MoveScript
  <2> QED BY <1>10, <2>4 DEF Script, S
<1>11. CASE verb[c] = "rename-mythos"
  <2>1. \A n \in {"node", "chain", "unhead", "head", "headCol", "forget", "triple", "know"} :
            n \in NamesOf(verb[c]) /\ n \in Queries
        BY <1>11 DEF NamesOf, Queries
  <2>2. /\ <<Node(Fp("mythos", c)), Query("chain")>> \in Seq(S) /\ SwapHead \in Seq(S)
        /\ <<LogRow(Action(c))>> \in Seq(S)
        /\ <<Query("forget"), Query("triple"), Query("know")>> \in Seq(S)
        BY <1>1, <1>2, <1>3, <1>4, <2>1 DEF SwapHead, Kinds
  <2>3. RenameScript(c) \in Seq(S)
        BY <1>6, <2>2 DEF RenameScript
  <2> QED BY <1>11, <2>3 DEF Script, S
<1> QED BY <1>7, <1>8, <1>9, <1>10, <1>11 DEF AllVerbs

\* A mint and a rename end with the head of their own mythos.
LEMMA ScriptHeads ==
    ASSUME NEW c \in All, NEW f \in Opt, NEW offl \in BOOLEAN, Renamer(c)
    PROVE  LET s == Script(c, f, offl)
           IN  /\ Will(s, "head", "unhead") /\ ~Clear(s, "headCol") /\ Will(s, "know", "forget")
               /\ verb[c] = "rename-mythos" => ~Clear(s, "forget")
<1> DEFINE Q == Queries \X Opt \X Opt
<1>1. /\ \A n \in Queries : Query(n) \in Q /\ Query(n)[1] = n
      /\ \A g, h \in Opt : Node(g) \in Q /\ LogRow(g) \in Q /\ Contain(g, h) \in Q
      /\ \A g, h : Node(g)[1] = "node" /\ LogRow(g)[1] = "log" /\ Contain(g, h)[1] = "contain"
      BY DEF Query, Node, LogRow, Contain, Queries, Opt
<1>2. /\ Fp("mythos", c) \in Opt /\ Action(c) \in Opt
      /\ Palace \in Opt /\ Genesis \in Opt /\ Oracle \in Opt
      BY FpTyped DEF Opt, Palace, Genesis, Oracle, Action, Kinds, All
<1>3. {"unhead", "head", "headCol", "triple", "know", "chain", "forget"} \subseteq Queries
      BY DEF Queries
<1> HIDE DEF Q
<1>4. SwapHead \in Seq(Q) /\ Will(SwapHead, "head", "unhead") /\ ~Clear(SwapHead, "headCol")
  <2>1. SwapHead \in Seq(Q)
        BY <1>1, <1>3 DEF SwapHead
  <2>2. /\ DOMAIN SwapHead = 1..3 /\ SwapHead[2][1] = "head" /\ SwapHead[3][1] = "headCol"
        BY <1>1, <1>3 DEF SwapHead
  <2> QED BY <2>1, <2>2 DEF Will, Clear
<1>5. CASE verb[c] = "mint"
  <2> DEFINE a == <<Node(Palace), Node(Genesis)>>
             z == <<Node(Oracle), Contain(Palace, Oracle), Query("triple"), Query("know"),
                    LogRow(Action(c))>>
  <2>1. a \in Seq(Q) /\ z \in Seq(Q)
        BY <1>1, <1>2, <1>3
  <2>2. /\ DOMAIN z = 1..5 /\ z[1][1] = "node" /\ z[2][1] = "contain" /\ z[3][1] = "triple"
        /\ z[4][1] = "know" /\ z[5][1] = "log"
        BY <1>1, <1>3
  <2>3. Clear(z, "unhead") /\ Will(z, "know", "forget")
        BY <2>2 DEF Clear, Will
  <2>4. Script(c, f, offl) = (a \o SwapHead) \o z
        BY <1>5 DEF Script, MintScript
  <2> HIDE DEF a, z
  <2>5. a \o SwapHead \in Seq(Q) /\ Will(a \o SwapHead, "head", "unhead")
        /\ ~Clear(a \o SwapHead, "headCol")
        BY <1>4, <2>1, WillAfter, Concat
  <2>6. /\ Will((a \o SwapHead) \o z, "head", "unhead") /\ ~Clear((a \o SwapHead) \o z, "headCol")
        /\ Will((a \o SwapHead) \o z, "know", "forget")
        BY <2>1, <2>3, <2>5, WillAfter
  <2> QED BY <1>5, <2>4, <2>6
<1>6. CASE verb[c] = "rename-mythos"
  <2> DEFINE a == <<Node(Fp("mythos", c)), Query("chain")>>
             l == <<LogRow(Action(c))>>
             z == <<Query("forget"), Query("triple"), Query("know")>>
             b == (a \o SwapHead) \o l
  <2>1. a \in Seq(Q) /\ l \in Seq(Q) /\ z \in Seq(Q)
        BY <1>1, <1>2, <1>3
  <2>2. /\ DOMAIN z = 1..3 /\ z[1][1] = "forget" /\ z[2][1] = "triple" /\ z[3][1] = "know"
        BY <1>1, <1>3
  <2>3. Clear(z, "unhead") /\ Will(z, "know", "forget") /\ ~Clear(z, "forget")
        BY <2>2 DEF Clear, Will
  <2>4. Script(c, f, offl) = (b \o SwapHead) \o z
        BY <1>6 DEF Script, RenameScript
  <2> HIDE DEF a, l, z
  <2>5. b \in Seq(Q)
        BY <1>4, <2>1, Concat
  <2> HIDE DEF b
  <2>6. b \o SwapHead \in Seq(Q) /\ Will(b \o SwapHead, "head", "unhead")
        /\ ~Clear(b \o SwapHead, "headCol")
        BY <1>4, <2>5, WillAfter, Concat
  <2>7. /\ Will((b \o SwapHead) \o z, "head", "unhead") /\ ~Clear((b \o SwapHead) \o z, "headCol")
        /\ Will((b \o SwapHead) \o z, "know", "forget") /\ ~Clear((b \o SwapHead) \o z, "forget")
        BY <2>1, <2>3, <2>6, WillAfter
  <2> QED BY <2>4, <2>7
<1> QED BY <1>5, <1>6 DEF Renamer

-----------------------------------------------------------------------------
\* The last of some commands.

LEMMA ActsAppend ==
    ASSUME NEW s \in Seq(Fps), NEW e \in Seq(Fps), NEW c \in All,
           \A f \in LinesOf(s) : f.of # c, \A f \in LinesOf(e) : f.of = c,
           Action(c) \in LinesOf(e)
    PROVE  /\ ActsOf(s \o e) = ActsOf(s) \cup {c} /\ c \notin ActsOf(s)
           /\ \A d \in All \ {c}, i \in DOMAIN (s \o e) : (s \o e)[i] = Action(d) =>
                 i \in DOMAIN s /\ s[i] = Action(d)
           /\ \A i \in DOMAIN (s \o e) : (s \o e)[i] = Action(c) => i > Len(s)
<1>1. LinesOf(s \o e) = LinesOf(s) \cup LinesOf(e)
      BY LinesConcat
<1>2. /\ DOMAIN s = 1..Len(s) /\ DOMAIN e = 1..Len(e) /\ DOMAIN (s \o e) = 1..(Len(s) + Len(e))
      /\ Len(s) \in Nat /\ Len(e) \in Nat
      BY Concat
<1>3. ASSUME NEW i \in DOMAIN (s \o e)
      PROVE  \/ i \in DOMAIN s /\ (s \o e)[i] = s[i] /\ s[i].of # c
             \/ i > Len(s) /\ (s \o e)[i].of = c
  <2>1. CASE i <= Len(s)
    <3>1. i \in DOMAIN s /\ (s \o e)[i] = s[i]
          BY <1>2, <1>3, <2>1, Concat
    <3> QED BY <3>1 DEF LinesOf
  <2>2. CASE ~(i <= Len(s))
    <3>1. i - Len(s) \in DOMAIN e /\ (s \o e)[i] = e[i - Len(s)] /\ i > Len(s)
          BY <1>2, <1>3, <2>2, Concat
    <3> QED BY <3>1 DEF LinesOf
  <2> QED BY <2>1, <2>2
<1>4. \A d : Action(d).of = d
      BY FpFields DEF Action
<1>5. ActsOf(s \o e) = ActsOf(s) \cup {c} /\ c \notin ActsOf(s)
      BY <1>1, <1>4 DEF ActsOf
<1> QED BY <1>3, <1>4, <1>5

\* Lines of another command do not change which is last; its own are last.
LEMMA LastAppend ==
    ASSUME NEW s \in Seq(Fps), NEW e \in Seq(Fps), NEW c \in All,
           \A f \in LinesOf(s) : f.of # c, \A f \in LinesOf(e) : f.of = c,
           Action(c) \in LinesOf(e), NEW R \in SUBSET All, c \notin R
    PROVE  /\ \A x : LastOf(s, x, R) => LastOf(s \o e, x, R)
           /\ LastOf(s \o e, c, R \cup {c})
<1> DEFINE t == s \o e
<1>1. /\ \A d \in All \ {c}, i \in DOMAIN t : t[i] = Action(d) => i \in DOMAIN s /\ s[i] = Action(d)
      /\ \A i \in DOMAIN t : t[i] = Action(c) => i > Len(s)
      BY ActsAppend
<1>2. DOMAIN s = 1..Len(s) /\ Len(s) \in Nat /\ DOMAIN t = 1..(Len(s) + Len(e)) /\ Len(e) \in Nat
      BY Concat
<1> HIDE DEF t
<1>3. ASSUME NEW x, LastOf(s, x, R) PROVE LastOf(t, x, R)
      BY <1>1, <1>3 DEF LastOf
<1>4. ASSUME NEW d \in R, NEW i \in DOMAIN t, NEW j \in DOMAIN t,
             t[i] = Action(d), t[j] = Action(c)
      PROVE  i < j
  <2>1. i \in DOMAIN s /\ j > Len(s)
        BY <1>1, <1>4
  <2> QED BY <1>2, <1>4, <2>1
<1>5. LastOf(t, c, R \cup {c})
      BY <1>4 DEF LastOf
<1> QED BY <1>3, <1>5 DEF t

\* The last command of the lines is the one the properties name.
LEMMA LastChosen ==
    ASSUME bundle \in Seq(Fps), NEW R \in SUBSET ActsOf(bundle), NEW x, LastOf(bundle, x, R)
    PROVE  Last(R) = x
<1> DEFINE pos(d) == Position(Action(d))
<1>1. \A d \in R : pos(d) \in DOMAIN bundle /\ bundle[pos(d)] = Action(d)
      BY DEF ActsOf, LinesOf, Position
<1>2. DOMAIN bundle \subseteq Nat
      OBVIOUS
<1> HIDE DEF pos
<1>3. x \in R /\ \A d \in R \ {x} : pos(d) < pos(x)
      BY <1>1 DEF LastOf
<1>4. \A d \in R : pos(d) \in Nat
      BY <1>1, <1>2
<1>5. \A d \in R : pos(d) <= pos(x)
      BY <1>3, <1>4
<1>6. ASSUME NEW y \in R, \A d \in R : pos(d) <= pos(y) PROVE y = x
      BY <1>3, <1>4, <1>6
<1>7. Last(R) = CHOOSE y \in R : \A d \in R : pos(d) <= pos(y)
      BY DEF Last, pos
<1>8. \E y \in R : \A d \in R : pos(d) <= pos(y)
      BY <1>3, <1>5
<1> QED BY <1>6, <1>7, <1>8

\* What a query does to the head.
LEMMA HeadQueries ==
    ASSUME db \in Graph, NEW c \in All, BridgeQuery(c)
    PROVE  LET q == Head(todo[c])[1]
               m == Fp("mythos", c)
           IN  /\ db'.head = IF q = "unhead" THEN None ELSE IF q = "head" THEN m ELSE db.head
               /\ db'.headCol = IF q = "headCol" THEN m ELSE db.headCol
               /\ db'.knows = IF q = "forget" THEN {}
                              ELSE IF q = "know" THEN db.knows \cup {m} ELSE db.knows
<1> USE DEF Graph
<1>1. CASE \/ DeleteHead(c) \/ CreateHead(c) \/ SetHeadColumn(c)
           \/ ForgetHeads(c) \/ CreateTriple(c) \/ CreateKnowledge(c)
      BY <1>1 DEF DeleteHead, CreateHead, SetHeadColumn,
             ForgetHeads, CreateTriple, CreateKnowledge, Runs
<1>2. CASE \/ CreateNode(c) \/ CreateContains(c) \/ CreateLivesIn(c) \/ DeleteLivesIn(c)
           \/ DropInscription(c) \/ CreatePredecessor(c)
      BY <1>2 DEF CreateNode, CreateContains, CreateLivesIn, DeleteLivesIn, DropInscription,
             CreatePredecessor, Runs
<1>3. CASE \/ AppendLog(c) \/ MirrorAqueduct(c) \/ CreateAqueduct(c)
           \/ (\E side \in {"from", "to"} : CreateEnd(c, side)) \/ Strengthen(c)
      BY <1>3 DEF AppendLog, MirrorAqueduct, CreateAqueduct, CreateEnd, Strengthen, Runs
<1> QED BY <1>1, <1>2, <1>3 DEF BridgeQuery

-----------------------------------------------------------------------------
\* What is said of the lines stays true when the graph's head does not change.

LEMMA HeadOfKept ==
    ASSUME NEW s, HeadOf(s),
           UNCHANGED <<db.head, db.headCol, db.knows>>,
           \A d \in All : pc[d] # "idle" => pc'[d] # "idle" /\ verb'[d] = verb[d],
           \A d \in ActsOf(s) : verb'[d] = verb[d]
    PROVE  HeadOf(s)'
<1>1. CASE Pend(s)
      BY <1>1 DEF HeadOf, Pend, ActsOf, LinesOf, All
<1>2. CASE \E x \in All : LastOf(s, x, RenamesOf(s)) /\ Agrees(x)
  <2>1. RenamesOf(s)' = {d \in ActsOf(s) : verb'[d] = "rename-mythos"}
                        \cup {d \in {Mint} : d \in ActsOf(s)}
        BY DEF RenamesOf, ActsOf, LinesOf
  <2>2. RenamesOf(s)' = RenamesOf(s)
        BY <2>1 DEF RenamesOf
  <2> QED BY <1>2, <2>2 DEF HeadOf, LastOf, Agrees
<1> QED BY <1>1, <1>2 DEF HeadOf

-----------------------------------------------------------------------------
\* The steps.

LEMMA HeadPlain ==
    ASSUME MirrorInv, HeadInv, NEW c \in All, NEW p \in {"staged", "promote", "keys", "done", "dead"},
           UNCHANGED <<bundle, args, todo, db>>, pc' = [pc EXCEPT ![c] = p],
           p = "staged" => pc[c] = "idle",
           p = "promote" => pc[c] = "promote" \/ (pc[c] = "bridge" /\ todo[c] = <<>>)
    PROVE  HeadInv'
<1> USE DEF args
<1>1. pc'[c] = p /\ \A d \in All \ {c} : pc'[d] = pc[d]
      BY DEF MirrorInv, TypeOK
<1>2. \A s : HeadOf(s) => HeadOf(s)'
      BY <1>1, HeadOfKept
<1>3. Names'
      BY <1>1 DEF HeadInv, Names
<1>4. ASSUME NEW d \in Commands, pc'[d] = "write", verb[d] # "rename-mythos" PROVE HeadOf(seen[d])'
      BY <1>1, <1>2, <1>4 DEF HeadInv, All
<1>5. ASSUME NEW d \in All, Renamer(d), pc'[d] = "bridge" PROVE Becomes(d)'
  <2>1. Becomes(d)
        BY <1>1, <1>5 DEF HeadInv
  <2> QED BY <2>1 DEF Becomes
<1>6. ASSUME NEW d \in All, Renamer(d), pc'[d] \in {"promote", "write"} PROVE Agrees(d)'
  <2>1. CASE pc[d] \in {"promote", "write"}
        BY <1>6, <2>1 DEF HeadInv, Agrees
  <2>2. CASE pc[d] \notin {"promote", "write"}
    <3>1. d = c /\ pc[c] = "bridge" /\ todo[c] = <<>>
          BY <1>1, <1>6, <2>2
    <3>2. Becomes(c)
          BY <1>6, <3>1 DEF HeadInv
    <3>3. Agrees(c)
          BY <3>1, <3>2 DEF Becomes, Will, Clear, Agrees
    <3> QED BY <3>1, <3>3 DEF Agrees
  <2> QED BY <2>1, <2>2
<1>7. pc'[Mint] \in {"idle", "staged"} => db'.knows = {}
      BY <1>1 DEF HeadInv, All
<1>8. bundle' # <<>> => HeadOf(bundle)'
      BY <1>2 DEF HeadInv
<1> QED BY <1>3, <1>4, <1>5, <1>6, <1>7, <1>8 DEF HeadInv, Renamer

LEMMA HeadSame ==
    ASSUME HeadInv, UNCHANGED <<bundle, args, todo, db, pc>>
    PROVE  HeadInv'
<1> USE DEF args
<1>1. \A s : HeadOf(s) => HeadOf(s)'
      BY HeadOfKept
<1>2. \A d \in All : (Becomes(d) => Becomes(d)') /\ (Agrees(d) => Agrees(d)')
      BY DEF Becomes, Agrees
<1> QED BY <1>1, <1>2 DEF HeadInv, Names, Renamer

LEMMA HeadStart ==
    ASSUME MirrorInv, HeadInv, NEW c \in Commands, NEW v \in AllVerbs \ {"mint"},
           NEW m \in BOOLEAN, NEW r, NEW a, Start(c, v, m, r, a)
    PROVE  HeadInv'
<1>0. /\ c \in All /\ c # Mint /\ pc[c] = "idle"
      /\ verb' = [verb EXCEPT ![c] = v] /\ seen' = [seen EXCEPT ![c] = bundle]
      /\ pc' = [pc EXCEPT ![c] = "staged"] /\ UNCHANGED <<bundle, todo, db>>
      BY VaultCommandsAssumption DEF Start, CanStart, Goto, All
<1>1. /\ pc'[c] = "staged"
      /\ \A d \in All \ {c} : pc'[d] = pc[d] /\ verb'[d] = verb[d] /\ seen'[d] = seen[d]
      BY <1>0 DEF MirrorInv, TypeOK
<1>2. ASSUME NEW s, LinesOf(s) \subseteq cas, HeadOf(s) PROVE HeadOf(s)'
  <2>1. c \notin ActsOf(s)
        BY <1>0, <1>2, FpFields DEF MirrorInv, VaultInv, Fresh, ActsOf, Action
  <2>2. \A d \in ActsOf(s) : verb'[d] = verb[d]
        BY <1>1, <2>1 DEF ActsOf
  <2> QED BY <1>0, <1>1, <1>2, <2>2, HeadOfKept
<1>3. Names'
      BY <1>0, <1>1 DEF HeadInv, Names
<1>4. bundle' # <<>> => HeadOf(bundle)'
      BY <1>0, <1>2 DEF HeadInv, MirrorInv, VaultInv, BundleResolves
<1>5. ASSUME NEW d \in Commands, pc'[d] = "write", verb'[d] # "rename-mythos"
      PROVE  HeadOf(seen[d])'
  <2>1. d # c /\ d \in All
        BY <1>1, <1>5 DEF All
  <2>2. HeadOf(seen[d]) /\ LinesOf(seen[d]) \subseteq cas /\ seen'[d] = seen[d]
        BY <1>1, <1>5, <2>1 DEF HeadInv, MirrorInv, VaultInv, ReadStored
  <2> QED BY <1>2, <2>2
<1>6. ASSUME NEW d \in All, Renamer(d)', pc'[d] \in {"bridge", "promote", "write"}
      PROVE  /\ pc'[d] = "bridge" => Becomes(d)'
             /\ pc'[d] \in {"promote", "write"} => Agrees(d)'
  <2>1. pc[d] = pc'[d] /\ Renamer(d)
        BY <1>1, <1>6 DEF Renamer
  <2> QED BY <1>0, <2>1 DEF HeadInv, Becomes, Agrees
<1>7. pc'[Mint] \in {"idle", "staged"} => db'.knows = {}
      BY <1>0, <1>1 DEF HeadInv, All
<1> QED BY <1>3, <1>4, <1>5, <1>6, <1>7 DEF HeadInv

LEMMA HeadOpen ==
    ASSUME MirrorInv, HeadInv, NEW c \in All, OpenStore(c), verb[c] = "mint" => c = Mint
    PROVE  HeadInv'
<1> USE DEF args
<1>1. PICK f \in Sources(c), offl \in BOOLEAN : todo' = [todo EXCEPT ![c] = Script(c, f, offl)]
      BY DEF OpenStore
<1>2. /\ pc[c] = "staged" /\ pc' = [pc EXCEPT ![c] = "bridge"]
      /\ UNCHANGED <<bundle, args, db>>
      BY DEF OpenStore, Goto, files
<1>3. /\ pc \in [All -> Steps] /\ verb[c] \in AllVerbs /\ room[c] \in Opt /\ avatar[c] \in Opt
      /\ todo \in [All -> Seq(Queries \X (Fps \cup {None}) \X (Fps \cup {None}))]
      /\ f \in Opt
      BY <1>1 DEF MirrorInv, TypeOK, Graph, Opt, Sources, Homes
<1>4. /\ pc'[c] = "bridge" /\ todo'[c] = Script(c, f, offl)
      /\ \A d \in All \ {c} : pc'[d] = pc[d] /\ todo'[d] = todo[d]
      BY <1>1, <1>2, <1>3
<1>5. \A s : HeadOf(s) => HeadOf(s)'
      BY <1>2, <1>4, HeadOfKept
<1>6. Names'
  <2>1. ASSUME NEW d \in All, pc'[d] = "bridge" PROVE todo'[d] \in Seq(Calls(NamesOf(verb[d])))
    <3>1. CASE d = c
          BY <1>3, <1>4, <3>1, ScriptNames
    <3>2. CASE d # c
          BY <1>4, <2>1, <3>2 DEF HeadInv, Names
    <3> QED BY <3>1, <3>2
  <2> QED BY <1>2, <2>1 DEF Names
<1>7. ASSUME Renamer(c) PROVE Becomes(c)'
  <2> DEFINE s == Script(c, f, offl)
  <2>1. /\ Will(s, "head", "unhead") /\ ~Clear(s, "headCol") /\ Will(s, "know", "forget")
        /\ verb[c] = "rename-mythos" => ~Clear(s, "forget")
        BY <1>3, <1>7, ScriptHeads
  <2> HIDE DEF s
  <2>2. verb[c] = "mint" => db.knows = {}
        BY <1>2 DEF HeadInv
  <2> QED BY <1>2, <1>4, <1>7, <2>1, <2>2 DEF Becomes, Renamer, s
<1>8. ASSUME NEW d \in All, d # c, Renamer(d)
      PROVE  /\ pc'[d] = "bridge" => Becomes(d)'
             /\ pc'[d] \in {"promote", "write"} => Agrees(d)'
      BY <1>2, <1>4, <1>8 DEF HeadInv, Becomes, Agrees
<1>9. bundle' # <<>> => HeadOf(bundle)'
      BY <1>2, <1>5 DEF HeadInv
<1>10. ASSUME NEW d \in Commands, pc'[d] = "write", verb'[d] # "rename-mythos"
       PROVE  HeadOf(seen[d])'
       BY <1>2, <1>4, <1>5, <1>10 DEF HeadInv, All
<1>11. pc'[Mint] \in {"idle", "staged"} => db'.knows = {}
       BY <1>2, <1>4 DEF HeadInv, All
<1>12. \A d \in All : Renamer(d)' = Renamer(d)
       BY <1>2 DEF Renamer
<1> QED BY <1>4, <1>6, <1>7, <1>8, <1>9, <1>10, <1>11, <1>12 DEF HeadInv

LEMMA HeadQuery ==
    ASSUME MirrorInv, SerialInv, HeadInv, NEW c \in All, BridgeQuery(c)
    PROVE  HeadInv'
<1> USE DEF args
<1>1. /\ pc[c] = "bridge" /\ todo[c] # <<>>
      /\ todo' = [todo EXCEPT ![c] = Tail(todo[c])]
      /\ UNCHANGED <<files, pc, code, args, from, promoted, offline, owner, faults>>
      BY DEF BridgeQuery, Runs, CreateNode, CreateContains,
             CreateLivesIn, DeleteLivesIn, DropInscription, CreatePredecessor, DeleteHead,
             CreateHead, SetHeadColumn, ForgetHeads, CreateTriple, CreateKnowledge,
             AppendLog, MirrorAqueduct, CreateAqueduct, CreateEnd, Strengthen
<1> DEFINE s == todo[c]
           q == Head(s)[1]
           m == Fp("mythos", c)
           N == NamesOf(verb[c])
<1>2. /\ db'.head = IF q = "unhead" THEN None ELSE IF q = "head" THEN m ELSE db.head
      /\ db'.headCol = IF q = "headCol" THEN m ELSE db.headCol
      /\ db'.knows = IF q = "forget" THEN {} ELSE IF q = "know" THEN db.knows \cup {m} ELSE db.knows
      BY HeadQueries DEF MirrorInv, TypeOK
<1>3. s \in Seq(Calls(N)) /\ s # <<>>
      BY <1>1 DEF HeadInv, Names
<1>4. todo'[c] = Tail(s) /\ \A d \in All \ {c} : todo'[d] = todo[d]
      BY <1>1 DEF MirrorInv, TypeOK
<1>5. \A d \in All : Running(d) => d = c
      BY <1>1 DEF SerialInv, Alone, Running
<1>6. Names'
  <2>1. Tail(s) \in Seq(Calls(N))
        BY <1>3, TailTyped
  <2>2. \A d \in All : pc[d] = "bridge" => todo'[d] \in Seq(Calls(NamesOf(verb[d])))
        BY <1>4, <2>1 DEF HeadInv, Names
  <2> QED BY <1>1, <2>2 DEF Names
<1>7. ASSUME Renamer(c) PROVE Becomes(c)'
  <2>1. Becomes(c)
        BY <1>1, <1>7 DEF HeadInv
  <2> HIDE DEF N, m
  <2>2. /\ \A u : Clear(s, u) => Clear(Tail(s), u)
        /\ \A u : Clear(Tail(s), u) /\ Head(s)[1] # u => Clear(s, u)
        /\ \A n, u : Will(s, n, u) => \/ Will(Tail(s), n, u)
                                      \/ Head(s)[1] = n /\ Clear(Tail(s), u)
        BY <1>3, ClearTail, WillTail
  <2>3. \A u : Clear(s, u) => Head(s)[1] # u
        BY <1>3, TailOf DEF Clear
  <2> HIDE DEF s
  <2>4. Will(Tail(s), "head", "unhead") \/ (Clear(Tail(s), "unhead") /\ db'.head = m)
    <3>1. CASE Will(s, "head", "unhead")
          BY <1>2, <2>2, <3>1
    <3>2. CASE Clear(s, "unhead") /\ db.head = m
          BY <1>2, <2>2, <2>3, <3>2
    <3> QED BY <2>1, <3>1, <3>2 DEF Becomes, s, m
  <2>5. ~Clear(Tail(s), "headCol") \/ db'.headCol = m
        BY <1>2, <2>1, <2>2 DEF Becomes, s, m
  <2>6. Will(Tail(s), "know", "forget") \/ (Clear(Tail(s), "forget") /\ m \in db'.knows)
    <3>1. CASE Will(s, "know", "forget")
          BY <1>2, <2>2, <3>1
    <3>2. CASE Clear(s, "forget") /\ m \in db.knows
          BY <1>2, <2>2, <2>3, <3>2
    <3> QED BY <2>1, <3>1, <3>2 DEF Becomes, s, m
  <2>7. ~Clear(Tail(s), "forget") \/ db'.knows \subseteq {m}
    <3>1. ASSUME Clear(Tail(s), "forget") PROVE db'.knows \subseteq {m}
      <4>1. CASE q = "forget"
            BY <1>2, <4>1
      <4>2. CASE q # "forget"
        <5>1. Clear(s, "forget")
              BY <2>2, <3>1, <4>2
        <5>2. db.knows \subseteq {m}
              BY <2>1, <5>1 DEF Becomes, s, m
        <5> QED BY <1>2, <5>2
      <4> QED BY <4>1, <4>2
    <3> QED BY <3>1
  <2> QED BY <1>4, <2>4, <2>5, <2>6, <2>7 DEF Becomes, m
<1>8. ASSUME NEW d \in All, pc[d] \in {"promote", "write", "bridge"}, d # c PROVE FALSE
      BY <1>5, <1>8 DEF Running
<1>9. bundle # <<>> => HeadOf(bundle)'
  <2> HAVE bundle # <<>>
  <2>1. CASE c = Mint
        BY <1>1, <2>1 DEF SerialInv, Minting
  <2>2. CASE c # Mint /\ verb[c] = "rename-mythos"
    <3>1. c \in Commands /\ Reads(c)
          BY <1>1, <2>2 DEF SerialInv, All, Running
    <3>2. c \notin ActsOf(bundle)
          BY <1>1, <3>1, FpFields DEF Reads, ActsOf, Action
    <3>3. Pend(bundle)'
          BY <1>1, <2>2, <3>1, <3>2 DEF Pend, ActsOf, LinesOf, files
    <3> QED BY <3>3 DEF HeadOf
  <2>3. CASE c # Mint /\ verb[c] # "rename-mythos"
    <3>1. verb[c] \in AllVerbs \ {"mint", "rename-mythos"}
          BY <1>1, <2>3 DEF MirrorInv, TypeOK, SerialInv, Reads, All, Running
    <3>2. N \cap {"unhead", "head", "headCol", "forget", "know"} = {}
          BY <3>1 DEF NamesOf, AllVerbs
    <3>3. q \in N
          BY <1>3, TailOf DEF Calls
    <3>4. UNCHANGED <<db.head, db.headCol, db.knows>>
          BY <1>2, <3>2, <3>3
    <3>5. HeadOf(bundle)
          BY DEF HeadInv
    <3> QED BY <1>1, <3>4, <3>5, HeadOfKept DEF files
  <2> QED BY <2>1, <2>2, <2>3
<1>10. pc[Mint] \notin {"idle", "staged"}
       BY <1>1, <1>5 DEF SerialInv, Minting, Running, All
<1> HIDE DEF s, q, m, N
<1>11. \A d \in All : Renamer(d)' = Renamer(d)
       BY <1>1 DEF Renamer
<1>12. \A d \in Commands : d \in All /\ (pc[d] = "write" => FALSE)
       BY <1>1, <1>8 DEF All
<1> QED BY <1>1, <1>6, <1>7, <1>8, <1>9, <1>10, <1>11, <1>12 DEF HeadInv, files

LEMMA HeadSkip ==
    ASSUME MirrorInv, HeadInv, NEW c \in All, SkipAqueduct(c)
    PROVE  HeadInv'
<1>1. /\ pc[c] = "bridge" /\ verb[c] \in {"inscribe", "inscribe-via"}
      /\ todo' = [todo EXCEPT ![c] = MythosNode(c)]
      /\ UNCHANGED <<bundle, pc, args, db>>
      BY DEF SkipAqueduct, GivesUpAqueduct, files
<1> USE DEF args
<1>2. todo'[c] = MythosNode(c) /\ \A d \in All \ {c} : todo'[d] = todo[d]
      BY <1>1 DEF MirrorInv, TypeOK
<1>3. MythosNode(c) \in Seq(Calls(NamesOf(verb[c])))
  <2>1. None \in Opt /\ FALSE \in BOOLEAN /\ verb[c] \in AllVerbs /\ room[c] \in Opt /\ avatar[c] \in Opt
        BY DEF MirrorInv, TypeOK, Opt
  <2> QED BY <1>1, <2>1, ScriptNames
<1>4. Names'
  <2>1. \A d \in All : pc[d] = "bridge" => todo'[d] \in Seq(Calls(NamesOf(verb[d])))
        BY <1>2, <1>3 DEF HeadInv, Names
  <2> QED BY <1>1, <2>1 DEF Names
<1>5. \A s : HeadOf(s) => HeadOf(s)'
      BY <1>1, HeadOfKept
<1>6. ASSUME NEW d \in All, Renamer(d)
      PROVE  /\ pc[d] = "bridge" => Becomes(d)'
             /\ pc[d] \in {"promote", "write"} => Agrees(d)'
  <2>1. d # c
        BY <1>1, <1>6 DEF Renamer
  <2> QED BY <1>1, <1>2, <1>6, <2>1 DEF HeadInv, Becomes, Agrees
<1>7. \A d \in All : Renamer(d)' = Renamer(d)
      BY <1>1 DEF Renamer
<1> QED BY <1>1, <1>4, <1>5, <1>6, <1>7 DEF HeadInv

LEMMA HeadTruncate ==
    ASSUME MirrorInv, SerialInv, HeadInv, NEW c \in All, TruncateBundle(c)
    PROVE  HeadInv'
<1> USE DEF args
<1>0. /\ c \in Commands /\ pc[c] = "promote" /\ bundle' = <<>>
      /\ pc' = [pc EXCEPT ![c] = "write"] /\ UNCHANGED <<args, todo, db>>
      BY DEF TruncateBundle, Unpromoted, Goto, All
<1>1. pc'[c] = "write" /\ \A d \in All \ {c} : pc'[d] = pc[d]
      BY <1>0 DEF MirrorInv, TypeOK
<1>2. \A s : HeadOf(s) => HeadOf(s)'
      BY <1>0, <1>1, HeadOfKept
<1>3. Names'
      BY <1>0, <1>1 DEF HeadInv, Names
<1>4. HeadOf(seen[c])
  <2>1. Running(c)
        BY <1>0 DEF Running
  <2>2. Reads(c)
        BY <1>0, <2>1 DEF SerialInv
  <2> QED BY <1>0, <2>2 DEF Reads, HeadInv
<1>5. ASSUME NEW d \in Commands, pc'[d] = "write", verb[d] # "rename-mythos" PROVE HeadOf(seen[d])
      BY <1>1, <1>4, <1>5 DEF HeadInv, All
<1>6. ASSUME NEW d \in All, Renamer(d)
      PROVE  /\ pc'[d] = "bridge" => Becomes(d)'
             /\ pc'[d] \in {"promote", "write"} => Agrees(d)'
      BY <1>0, <1>1, <1>6 DEF HeadInv, Becomes, Agrees
<1>7. pc'[Mint] \in {"idle", "staged"} => db'.knows = {}
      BY <1>0, <1>1 DEF HeadInv, All
<1>8. \A d \in All : Renamer(d)' = Renamer(d)
      BY <1>0 DEF Renamer
<1> QED BY <1>0, <1>2, <1>3, <1>5, <1>6, <1>7, <1>8 DEF HeadInv

LEMMA HeadWrite ==
    ASSUME MirrorInv, SerialInv, HeadInv, NEW c \in All, WriteBundle(c)
    PROVE  HeadInv'
<1> USE DEF args
<1> DEFINE e == Envelopes(c)
           s == seen[c]
<1>0. /\ pc[c] = "write" /\ pc' = [pc EXCEPT ![c] = "done"]
      /\ UNCHANGED <<args, todo, db>>
      BY DEF WriteBundle, Unpromoted, Exit, Goto
<1>1. /\ c \in Commands /\ c # Mint /\ s \in Seq(Fps) /\ e \in Seq(Fps)
      /\ \A f \in LinesOf(e) : f.of = c
      /\ \A f \in LinesOf(s) : f.of # c
      /\ Action(c) \in LinesOf(e) /\ verb[c] \in AllVerbs \ {"mint"}
      /\ bundle' = s \o e
      BY WriteAppends DEF MirrorInv, Reads
<1>2. pc'[c] = "done" /\ \A d \in All \ {c} : pc'[d] = pc[d]
      BY <1>0 DEF MirrorInv, TypeOK
<1>3. \A x : HeadOf(x) => HeadOf(x)'
      BY <1>0, <1>2, HeadOfKept
<1>4. c \in All /\ RenamesOf(s) \in SUBSET All /\ c \notin RenamesOf(s)
  <2>1. c \notin ActsOf(s)
        BY <1>1, FpFields DEF ActsOf, Action
  <2> QED BY <2>1 DEF RenamesOf, ActsOf
<1>5. ActsOf(s \o e) = ActsOf(s) \cup {c}
      BY <1>1, ActsAppend
<1>6. RenamesOf(s \o e) = IF verb[c] = "rename-mythos" THEN RenamesOf(s) \cup {c} ELSE RenamesOf(s)
      BY <1>1, <1>5 DEF RenamesOf
<1> HIDE DEF e
<1>7. /\ \A x : LastOf(s, x, RenamesOf(s)) => LastOf(s \o e, x, RenamesOf(s))
      /\ LastOf(s \o e, c, RenamesOf(s) \cup {c})
      BY <1>1, <1>4, LastAppend
<1>8. HeadOf(s \o e)
  <2>1. CASE verb[c] = "rename-mythos"
    <3>1. Agrees(c)
          BY <1>0, <2>1 DEF HeadInv, Renamer
    <3> QED BY <1>6, <1>7, <2>1, <3>1 DEF HeadOf
  <2>2. CASE verb[c] # "rename-mythos"
    <3>1. HeadOf(s)
          BY <1>0, <1>1, <2>2 DEF HeadInv
    <3>2. CASE Pend(s)
          BY <1>5, <2>2, <3>2 DEF Pend, HeadOf
    <3>3. CASE \E x \in All : LastOf(s, x, RenamesOf(s)) /\ Agrees(x)
          BY <1>6, <1>7, <2>2, <3>3 DEF HeadOf
    <3> QED BY <3>1, <3>2, <3>3 DEF HeadOf
  <2> QED BY <2>1, <2>2
<1>9. HeadOf(bundle)'
  <2>1. PICK t : t = s \o e
        OBVIOUS
  <2>2. HeadOf(t)'
        BY <1>3, <1>8, <2>1
  <2> QED BY <1>1, <2>1, <2>2
<1>10. Names'
       BY <1>0, <1>2 DEF HeadInv, Names
<1>11. ASSUME NEW d \in Commands, pc'[d] = "write", verb[d] # "rename-mythos" PROVE HeadOf(seen[d])
       BY <1>2, <1>11 DEF HeadInv, All
<1>12. ASSUME NEW d \in All, Renamer(d)
       PROVE  /\ pc'[d] = "bridge" => Becomes(d)'
              /\ pc'[d] \in {"promote", "write"} => Agrees(d)'
       BY <1>0, <1>2, <1>12 DEF HeadInv, Becomes, Agrees
<1>13. pc'[Mint] \in {"idle", "staged"} => db'.knows = {}
       BY <1>0, <1>1, <1>2 DEF HeadInv, All
<1>14. \A d \in All : Renamer(d)' = Renamer(d)
       BY <1>0 DEF Renamer
<1> QED BY <1>0, <1>3, <1>9, <1>10, <1>11, <1>12, <1>13, <1>14 DEF HeadInv

LEMMA HeadInstall ==
    ASSUME MirrorInv, HeadInv, InstallBundle
    PROVE  HeadInv'
<1> USE DEF args
<1>0. /\ Mint \in All /\ pc[Mint] = "promote" /\ bundle' = MintLines /\ verb[Mint] = "mint"
      /\ pc' = [pc EXCEPT ![Mint] = "keys"] /\ UNCHANGED <<args, todo, db>>
      BY DEF InstallBundle, Unpromoted, Goto, All, MirrorInv, VaultInv, Control
<1>1. pc'[Mint] = "keys" /\ \A d \in All \ {Mint} : pc'[d] = pc[d]
      BY <1>0 DEF MirrorInv, TypeOK
<1>2. \A x : HeadOf(x) => HeadOf(x)'
      BY <1>0, <1>1, HeadOfKept
<1>3. HeadOf(MintLines)
  <2>1. Agrees(Mint)
        BY <1>0 DEF HeadInv, Renamer
  <2>2. RenamesOf(MintLines) = {Mint}
        BY <1>0, MintLinesActs DEF RenamesOf
  <2>3. LastOf(MintLines, Mint, {Mint})
        BY DEF LastOf
  <2> QED BY <1>0, <2>1, <2>2, <2>3 DEF HeadOf
<1>4. HeadOf(bundle)'
      BY <1>0, <1>2, <1>3 DEF MintLines, Palace, Oracle, Genesis, Action, Fp
<1>5. Names'
      BY <1>0, <1>1 DEF HeadInv, Names
<1>6. ASSUME NEW d \in Commands, pc'[d] = "write", verb[d] # "rename-mythos" PROVE HeadOf(seen[d])
      BY <1>1, <1>6 DEF HeadInv, All
<1>7. ASSUME NEW d \in All, Renamer(d)
      PROVE  /\ pc'[d] = "bridge" => Becomes(d)'
             /\ pc'[d] \in {"promote", "write"} => Agrees(d)'
      BY <1>0, <1>1, <1>7 DEF HeadInv, Becomes, Agrees
<1>8. \A d \in All : Renamer(d)' = Renamer(d)
      BY <1>0 DEF Renamer
<1> QED BY <1>0, <1>1, <1>2, <1>4, <1>5, <1>6, <1>7, <1>8 DEF HeadInv

LEMMA HeadInit == Init => HeadInv
BY DEF Init, HeadInv, Names, All

LEMMA HeadStep ==
    ASSUME MirrorInv, SerialInv, HeadInv, [Next]_vars PROVE HeadInv'
<1> USE DEF files, Goto, RollBack, Exit
<1>1. CASE UNCHANGED vars
      BY <1>1, HeadSame DEF vars
<1>2. CASE StartMint
  <2>1. /\ Mint \in All /\ pc[Mint] = "idle" /\ pc' = [pc EXCEPT ![Mint] = "staged"]
        /\ UNCHANGED <<bundle, args, todo, db>>
        BY <1>2 DEF StartMint, CanStart, All
  <2> QED BY <2>1, HeadPlain
<1>3. CASE InstallBundle
      BY <1>3, HeadInstall
<1>4. CASE InstallKeys
  <2>1. /\ Mint \in All /\ pc' = [pc EXCEPT ![Mint] = "done"]
        /\ UNCHANGED <<bundle, args, todo, db>>
        BY <1>4 DEF InstallKeys, All
  <2> QED BY <2>1, HeadPlain
<1>5. ASSUME NEW c \in All, CommandStep(c) PROVE HeadInv'
  <2>1. CASE \/ Refuse(c) \/ BridgeRefuses(c) \/ BridgeFails(c) \/ BridgeExits(c)
             \/ FileFails(c) \/ Die(c)
    <3>1. PICK p \in {"promote", "done", "dead"} :
            /\ pc' = [pc EXCEPT ![c] = p]
            /\ p = "promote" => pc[c] = "bridge" /\ todo[c] = <<>>
            /\ UNCHANGED <<bundle, args, todo, db>>
          BY <2>1 DEF Refuse, BridgeRefuses, BridgeFails, BridgeExits, FileFails, Die
    <3> QED BY <3>1, HeadPlain
  <2>2. CASE StartAny(c)
    <3>1. PICK v \in Verbs, m \in BOOLEAN, r \in Fps \cup {None}, a \in Fps \cup {None} :
             Start(c, v, m, r, a)
          BY <2>2 DEF StartAny, StartAddRoom, StartInscribe, StartMove, StartRename,
                       Known, Fps, Fp, Kinds, All
    <3>2. v \in AllVerbs \ {"mint"} /\ c \in Commands
          BY <3>1, VaultVerbsAssumption DEF Start, All
    <3> QED BY <3>1, <3>2, HeadStart
  <2>3. CASE OpenStore(c)
    <3>1. verb[c] = "mint" => c = Mint
          BY <2>3 DEF OpenStore, MirrorInv, VaultInv, Control, Working
    <3> QED BY <2>3, <3>1, HeadOpen
  <2>4. CASE BridgeQuery(c)
        BY <2>4, HeadQuery
  <2>5. CASE SkipAqueduct(c)
        BY <2>5, HeadSkip
  <2>6. CASE Promote(c)
    <3>1. UNCHANGED <<bundle, args, todo, db, pc>>
          BY <2>6 DEF Promote
    <3> QED BY <3>1, HeadSame
  <2>7. CASE TruncateBundle(c)
        BY <2>7, HeadTruncate
  <2>8. CASE WriteBundle(c)
        BY <2>8, HeadWrite
  <2> QED BY <1>5, <2>1, <2>2, <2>3, <2>4, <2>5, <2>6, <2>7, <2>8 DEF CommandStep
<1> QED BY <1>1, <1>2, <1>3, <1>4, <1>5 DEF Next

LEMMA SerialInvariant == ASSUME MaxAlive = 1 PROVE Spec => []SerialInv
BY SerialInit, SerialStep, VaultInvariant, PTL DEF Spec

LEMMA HeadInvariant == ASSUME MaxAlive = 1 PROVE Spec => []HeadInv
BY SerialInvariant, HeadInit, HeadStep, MirrorInvariant, PTL DEF Spec

\* One command at a time: the edge, the column and the triple that name the head of
\* the palace agree on the last mythos the bundle records, unless a rename did not
\* reach the bundle, whichever step of whichever command failed.
THEOREM VaultHeadRecorded == ASSUME MaxAlive = 1 PROVE Spec => []HeadRecorded
<1>1. MirrorInv /\ HeadInv => HeadRecorded
  <2> SUFFICES ASSUME MirrorInv, HeadInv, Renames # {} PROVE
         LET m == Fp("mythos", Last(Renames))
         IN  \/ db.head = m /\ db.headCol = m /\ db.knows = {m}
             \/ \E c \in Commands : verb[c] = "rename-mythos" /\ Unrecorded(c)
      BY DEF HeadRecorded
  <2>1. Renames = RenamesOf(bundle) /\ Renames \subseteq ActsOf(bundle)
        BY DEF Renames, RenamesOf, ActsOf, Recorded, All
  <2>2. HeadOf(bundle)
        BY <2>1 DEF HeadInv, ActsOf, LinesOf
  <2>3. CASE Pend(bundle)
        BY <2>3 DEF Pend, Unrecorded, Recorded, ActsOf, All
  <2>4. CASE \E x \in All : LastOf(bundle, x, RenamesOf(bundle)) /\ Agrees(x)
    <3>1. PICK x \in All : LastOf(bundle, x, Renames) /\ Agrees(x)
          BY <2>1, <2>4
    <3>2. Last(Renames) = x
          BY <2>1, <3>1, LastChosen DEF MirrorInv, TypeOK
    <3> QED BY <3>1, <3>2 DEF Agrees
  <2> QED BY <2>2, <2>3, <2>4 DEF HeadOf
<1> QED BY <1>1, HeadInvariant, MirrorInvariant, PTL

-----------------------------------------------------------------------------
(* One command at a time, the rooms.  An avatar is where the last command of *)
(* the bundle put it, because what is left of the script of an inscribe or a *)
(* move always ends with the avatar in its room.                             *)

\* The avatar a command places, and whether it places i.
Subject(c) == IF verb[c] = "move" THEN avatar[c] ELSE Fp("inscription", c)
Placing(c) == verb[c] \in {"inscribe", "inscribe-via", "move"}
PlacesAt(c, i) == Placing(c) /\ Subject(c) = i

Avatars == {Fp("inscription", d) : d \in Commands}

\* The commands of the lines that placed i; one that placed it and is not there.
PlacedBy(s, i) == {c \in Commands : c \in ActsOf(s) /\ PlacesAt(c, i)}
Unplaced(s, i, d) == PlacesAt(d, i) /\ pc[d] # "idle" /\ d \notin ActsOf(s)

LivesIn(i, r) == <<i, r>> \in db.lives

\* The graph has i where the lines put it, or where a command that is not among
\* them was taking it.
ResidesIn(s, i) ==
    PlacedBy(s, i) # {} =>
        \/ \E x \in All : /\ LastOf(s, x, PlacedBy(s, i))
                          /\ \A y : LivesIn(i, y) <=> y = room[x]
        \/ /\ \E d \in Commands : Unplaced(s, i, d)
           /\ \A y : LivesIn(i, y) => \E d \in Commands : Unplaced(s, i, d) /\ y = room[d]

\* The queries of a command that places, and the one that would undo it.
Undo(c) == IF verb[c] = "move" THEN "unlive" ELSE "drop"
Touching(c) ==
    {q \in Queries \X Opt \X Opt :
        /\ q[1] \in {"live", "unlive"} => q[2] = Subject(c)
        /\ q[1] = "live" => q[3] = room[c]}

\* The node of i is made before the next edge; and again after it is dropped;
\* nothing is placed after a query that may be given up.
NodeFirst(s, i) ==
    \E j \in DOMAIN s : s[j] = Node(i) /\ \A k \in DOMAIN s : k < j => s[k][1] # "live"
NodeAgain(s, i) ==
    \A j \in DOMAIN s : s[j][1] = "drop" => j + 1 \in DOMAIN s /\ s[j + 1] = Node(i)
Giving(s) == \A j, k \in DOMAIN s : j < k /\ AqueductCall(s[j]) => s[k][1] # "live"

\* The graph will have the avatar of c in its room when its script has run.
Settling(c) ==
    /\ todo[c] \in Seq(Touching(c))
    /\ room[c] \in db.nodes
    /\ \/ Will(todo[c], "live", Undo(c))
       \/ Clear(todo[c], Undo(c)) /\ LivesIn(Subject(c), room[c])
    /\ IF verb[c] = "move"
       THEN avatar[c] \in db.nodes
       ELSE /\ Subject(c) \in db.nodes \/ NodeFirst(todo[c], Subject(c))
            /\ NodeAgain(todo[c], Subject(c))
            /\ Giving(todo[c])

\* Edges join nodes, and the second node of a home is a room.
Rooted ==
    /\ \A e \in db.lives : e[1] \in db.nodes /\ e[2] \in db.nodes /\ e[2].kind = "room"
    /\ \A e \in db.contains : e[2] \in db.nodes

ResidenceInv ==
    /\ Rooted
    /\ \A c \in All : Placing(c) => room[c] \in Fps /\ room[c].kind = "room"
    /\ bundle # <<>> => \A i \in Avatars : ResidesIn(bundle, i)
    /\ \A c \in Commands : pc[c] = "write" =>
          \A i \in Avatars : ~PlacesAt(c, i) => ResidesIn(seen[c], i)
    /\ \A c \in All : /\ Placing(c) /\ pc[c] = "bridge" => Settling(c)
                      /\ Placing(c) /\ pc[c] \in {"promote", "write"} =>
                            LivesIn(Subject(c), room[c])
-----------------------------------------------------------------------------
\* The scripts that place.

\* What an inscribe writes before its aqueduct.
Ready(s, i) ==
    /\ Will(s, "live", "drop") /\ NodeFirst(s, i) /\ NodeAgain(s, i) /\ Quiet(s)

LEMMA ReadyBefore ==
    ASSUME NEW S, NEW s \in Seq(S), NEW t \in Seq(S), NEW i, Ready(s, i),
           Clear(t, "live"), Clear(t, "drop")
    PROVE  Will(s \o t, "live", "drop") /\ NodeFirst(s \o t, i) /\ NodeAgain(s \o t, i) /\ Giving(s \o t)
<1> DEFINE u == s \o t
<1>0. /\ DOMAIN s = 1..Len(s) /\ DOMAIN t = 1..Len(t) /\ DOMAIN u = 1..(Len(s) + Len(t))
      /\ Len(s) \in Nat /\ Len(t) \in Nat
      BY Concat
<1>1. \A k \in DOMAIN s : k \in DOMAIN u /\ u[k] = s[k]
      BY <1>0, Concat
<1>2. \A k \in DOMAIN u : k \notin DOMAIN s => u[k][1] # "live" /\ u[k][1] # "drop"
  <2> SUFFICES ASSUME NEW k \in DOMAIN u, k \notin DOMAIN s
               PROVE  u[k][1] # "live" /\ u[k][1] # "drop"
      OBVIOUS
  <2>1. k - Len(s) \in DOMAIN t /\ u[k] = t[k - Len(s)]
        BY <1>0, Concat
  <2> QED BY <2>1 DEF Clear
<1>3. Will(u, "live", "drop")
      BY WillAfter DEF Ready
<1> HIDE DEF u
<1>4. NodeFirst(u, i)
  <2>1. PICK j \in DOMAIN s : s[j] = Node(i) /\ \A k \in DOMAIN s : k < j => s[k][1] # "live"
        BY DEF Ready, NodeFirst
  <2>2. \A k \in DOMAIN u : k < j => u[k][1] # "live"
        BY <1>1, <1>2, <2>1
  <2> QED BY <1>1, <2>1, <2>2 DEF NodeFirst
<1>5. NodeAgain(u, i)
      BY <1>1, <1>2 DEF Ready, NodeAgain
<1>6. Giving(u)
  <2> SUFFICES ASSUME NEW j \in DOMAIN u, NEW k \in DOMAIN u, j < k, AqueductCall(u[j]),
                      u[k][1] = "live"
               PROVE  FALSE
      BY DEF Giving
  <2>1. k \in DOMAIN s
        BY <1>2
  <2>2. j \in DOMAIN s
        BY <1>0, <2>1
  <2> QED BY <1>0, <1>1, <2>2 DEF Ready, Quiet
<1> QED BY <1>3, <1>4, <1>5, <1>6 DEF u

\* The beginnings of the two inscribes, with and without a vector.
LEMMA InscribedReady ==
    ASSUME NEW S, NEW l \in S, NEW d \in S, NEW n \in S, NEW k \in S, NEW v \in S, NEW i,
           n = Node(i), n[1] = "node", k[1] = "contain", v[1] = "live", d[1] = "drop", l[1] = "log",
           ~AqueductCall(n), ~AqueductCall(k), ~AqueductCall(v), ~AqueductCall(d), ~AqueductCall(l)
    PROVE  LET a == <<n, k, v>>
               o == <<l>>
           IN  /\ a \o o \in Seq(S) /\ Ready(a \o o, i)
               /\ o \o a \in Seq(S) /\ Ready(o \o a, i)
               /\ (o \o a) \o (<<d>> \o a) \in Seq(S) /\ Ready((o \o a) \o (<<d>> \o a), i)
<1> DEFINE a == <<n, k, v>>
           o == <<l>>
           p == <<d>>
           x == a \o o
           y == o \o a
           w == p \o a
           z == y \o w
<1>1. /\ a \in Seq(S) /\ Len(a) = 3 /\ a[1] = n /\ a[2] = k /\ a[3] = v
      /\ o \in Seq(S) /\ Len(o) = 1 /\ o[1] = l
      /\ p \in Seq(S) /\ Len(p) = 1 /\ p[1] = d
      OBVIOUS
<1> HIDE DEF a, o, p
<1> HIDE DEF x, y, w, z
<1>2. /\ x \in Seq(S) /\ Len(x) = 4 /\ \A j \in 1..4 : x[j] = IF j <= 3 THEN a[j] ELSE o[j - 3]
  <2>1. a \in Seq(S) /\ o \in Seq(S)
        BY <1>1
  <2>2. /\ x \in Seq(S) /\ Len(x) = Len(a) + Len(o)
        /\ \A j \in 1 .. Len(a) + Len(o) :
              x[j] = IF j <= Len(a) THEN a[j] ELSE o[j - Len(a)]
        BY ONLY <2>1, Concat DEF x
  <2>3. Len(a) = 3 /\ Len(o) = 1 /\ 3 + 1 = 4
        BY <1>1
  <2> QED BY ONLY <2>2, <2>3
<1>3. /\ y \in Seq(S) /\ Len(y) = 4 /\ \A j \in 1..4 : y[j] = IF j <= 1 THEN o[j] ELSE a[j - 1]
  <2>1. o \in Seq(S) /\ a \in Seq(S)
        BY <1>1
  <2>2. /\ y \in Seq(S) /\ Len(y) = Len(o) + Len(a)
        /\ \A j \in 1 .. Len(o) + Len(a) :
              y[j] = IF j <= Len(o) THEN o[j] ELSE a[j - Len(o)]
        BY ONLY <2>1, Concat DEF y
  <2>3. Len(o) = 1 /\ Len(a) = 3 /\ 1 + 3 = 4
        BY <1>1
  <2> QED BY ONLY <2>2, <2>3
<1>4. /\ w \in Seq(S) /\ Len(w) = 4 /\ \A j \in 1..4 : w[j] = IF j <= 1 THEN p[j] ELSE a[j - 1]
  <2>1. p \in Seq(S) /\ a \in Seq(S)
        BY <1>1
  <2>2. /\ w \in Seq(S) /\ Len(w) = Len(p) + Len(a)
        /\ \A j \in 1 .. Len(p) + Len(a) :
              w[j] = IF j <= Len(p) THEN p[j] ELSE a[j - Len(p)]
        BY ONLY <2>1, Concat DEF w
  <2>3. Len(p) = 1 /\ Len(a) = 3 /\ 1 + 3 = 4
        BY <1>1
  <2> QED BY ONLY <2>2, <2>3
<1>5. /\ z \in Seq(S) /\ Len(z) = 8 /\ \A j \in 1..8 : z[j] = IF j <= 4 THEN y[j] ELSE w[j - 4]
  <2>1. y \in Seq(S) /\ w \in Seq(S)
        BY <1>3, <1>4
  <2>2. /\ z \in Seq(S) /\ Len(z) = Len(y) + Len(w)
        /\ \A j \in 1 .. Len(y) + Len(w) :
              z[j] = IF j <= Len(y) THEN y[j] ELSE w[j - Len(y)]
        BY ONLY <2>1, Concat DEF z
  <2>3. Len(y) = 4 /\ Len(w) = 4 /\ 4 + 4 = 8
        BY <1>3, <1>4
  <2> QED BY ONLY <2>2, <2>3
<1>6. x[1] = n /\ x[2] = k /\ x[3] = v /\ x[4] = l /\ DOMAIN x = 1..4
      BY <1>1, <1>2
<1>7. y[1] = l /\ y[2] = n /\ y[3] = k /\ y[4] = v /\ DOMAIN y = 1..4
      BY <1>1, <1>3
<1>8. w[1] = d /\ w[2] = n /\ w[3] = k /\ w[4] = v
      BY <1>1, <1>4
<1>9. /\ z[1] = l /\ z[2] = n /\ z[3] = k /\ z[4] = v
      /\ z[5] = d /\ z[6] = n /\ z[7] = k /\ z[8] = v /\ DOMAIN z = 1..8
      BY <1>5, <1>7, <1>8
<1>10. Ready(x, i)
       BY <1>2, <1>6 DEF Ready, Will, NodeFirst, NodeAgain, Quiet
<1>11. Ready(y, i)
       BY <1>3, <1>7 DEF Ready, Will, NodeFirst, NodeAgain, Quiet
<1>12. Ready(z, i)
  <2>1. Will(z, "live", "drop")
        BY <1>9 DEF Will
  <2>2. NodeFirst(z, i)
        BY <1>9 DEF NodeFirst
  <2>3. NodeAgain(z, i)
        BY <1>9 DEF NodeAgain
  <2>4. Quiet(z)
        BY <1>5, <1>9 DEF Quiet
  <2> QED BY <2>1, <2>2, <2>3, <2>4 DEF Ready
<1> QED BY <1>2, <1>3, <1>5, <1>10, <1>11, <1>12 DEF x, y, z, w, a, o, p

LEMMA ScriptSettles ==
    ASSUME NEW c \in All, NEW f \in Opt, NEW offl \in BOOLEAN, Placing(c),
           room[c] \in Opt, avatar[c] \in Opt
    PROVE  LET s == Script(c, f, offl)
           IN  /\ s \in Seq(Touching(c))
               /\ verb[c] = "move" => (s = <<>> /\ f = room[c]) \/ Will(s, "live", "unlive")
               /\ verb[c] # "move" => /\ Will(s, "live", "drop") /\ NodeFirst(s, Subject(c))
                                      /\ NodeAgain(s, Subject(c)) /\ Giving(s)
<1> DEFINE S == Touching(c)
           i == Subject(c)
<1>1. /\ i \in Opt /\ \A k \in Kinds : Fp(k, c) \in Opt
      BY FpTyped DEF Subject, Kinds, Opt
<1>2. /\ \A g, h \in Opt : Node(g) \in S /\ LogRow(g) \in S /\ Contain(g, h) \in S
      /\ \A n \in Queries \ {"live", "unlive"} : Query(n) \in S
      /\ Live(i, room[c]) \in S /\ \A h \in Opt : Unlive(i, h) \in S
      BY <1>1 DEF Node, LogRow, Contain, Query, Live, Unlive, Touching, Queries, Opt
<1>3. LogRow(Action(c)) \in S /\ LogRow(Fp("aqueduct", c)) \in S /\ Node(Fp("mythos", c)) \in S
      BY <1>1, <1>2 DEF Action, Kinds
<1> HIDE DEF S, i
<1>4. CASE verb[c] = "move"
  <2>1. i = avatar[c]
        BY <1>4 DEF i, Subject
  <2> DEFINE a == <<Unlive(avatar[c], f), Live(avatar[c], room[c]), LogRow(Action(c))>>
             t == MoveAqueduct(c, f, room[c])
             u == <<Query("strengthen")>>
             v == <<Query("aqueduct"), Query("aqFrom"), Query("aqTo"),
                    LogRow(Fp("aqueduct", c)), Query("strengthen")>>
  <2>2. a \in Seq(S) /\ Will(a, "live", "unlive")
    <3>1. DOMAIN a = 1..3 /\ a[2][1] = "live" /\ a[3][1] = "log"
          BY DEF Live, LogRow
    <3>2. Unlive(avatar[c], f) \in S /\ Live(avatar[c], room[c]) \in S
          BY <1>2, <2>1
    <3> HIDE DEF a
    <3>3. Will(a, "live", "unlive")
          BY <3>1 DEF Will
    <3> QED BY <1>3, <3>2, <3>3 DEF a
  <2>3. t \in Seq(S) /\ Clear(t, "unlive")
    <3>1. \A n \in {"aqueduct", "aqFrom", "aqTo", "strengthen"} :
             Query(n) \in S /\ Query(n)[1] # "unlive"
          BY <1>2 DEF Query, Queries
    <3>2. LogRow(Fp("aqueduct", c))[1] # "unlive"
          BY DEF LogRow
    <3>3. u \in Seq(S) /\ v \in Seq(S) /\ Len(u) = 1 /\ Len(v) = 5
          BY <1>3, <3>1
    <3>4. Clear(u, "unlive") /\ Clear(v, "unlive")
          BY <3>1, <3>2 DEF Clear
    <3> QED BY <3>3, <3>4 DEF MoveAqueduct
  <2> HIDE DEF a, t
  <2>4. a \o t \in Seq(S) /\ Will(a \o t, "live", "unlive")
        BY <2>2, <2>3, WillAfter, Concat
  <2>5. Script(c, f, offl) = IF f = room[c] THEN <<>> ELSE a \o t
        BY <1>4 DEF Script, MoveScript, a, t
  <2> QED BY <1>4, <2>4, <2>5 DEF S
<1>5. CASE verb[c] \in {"inscribe", "inscribe-via"}
  <2>1. i = Fp("inscription", c)
        BY <1>5 DEF i, Subject
  <2> DEFINE n == Node(i)
             k == Contain(room[c], i)
             v == Live(i, room[c])
             l == LogRow(Action(c))
             d == Query("drop")
             r == RoomAqueduct(c)
  <2>2. n \in S /\ k \in S /\ v \in S /\ l \in S /\ d \in S
        BY <1>1, <1>2, <1>3, <2>1 DEF Queries, i
  <2>3. /\ n[1] = "node" /\ k[1] = "contain" /\ v[1] = "live" /\ d[1] = "drop" /\ l[1] = "log"
        /\ ~AqueductCall(n) /\ ~AqueductCall(k) /\ ~AqueductCall(v) /\ ~AqueductCall(d)
        /\ ~AqueductCall(l)
    <3>1. Action(c).kind # "aqueduct"
          BY FpFields DEF Action
    <3> QED BY <3>1 DEF Node, Contain, Live, Query, LogRow, AqueductCall
  <2>4. r \in Seq(S) /\ Clear(r, "live") /\ Clear(r, "drop")
    <3> DEFINE T == {q \in S : q[1] \notin {"live", "drop"}}
    <3>1. /\ \A m \in {"aqueduct", "aqTo", "mirror"} : Query(m) \in T
          /\ LogRow(Fp("aqueduct", c)) \in T /\ Node(Fp("mythos", c)) \in T
          BY <1>2, <1>3 DEF Query, LogRow, Node, Queries
    <3> HIDE DEF T
    <3>2. /\ MythosNode(c) \in Seq(T) /\ <<Query("mirror")>> \in Seq(T)
          /\ <<Query("aqueduct"), Query("aqTo"), LogRow(Fp("aqueduct", c))>> \in Seq(T)
          BY <3>1 DEF MythosNode
    <3>3. \A s, t \in Seq(T) : s \o t \in Seq(T)
          BY Concat
    <3>4. r \in Seq(T)
          BY <3>2, <3>3 DEF RoomAqueduct
    <3> HIDE DEF r
    <3>5. \A j \in DOMAIN r : r[j] \in T
          BY <3>4
    <3> QED BY <3>4, <3>5 DEF T, Clear
  <2> DEFINE a == <<n, k, v>>
             o == <<l>>
  <2> HIDE DEF n, k, v, l, d, r
  <2>5. n = Node(i)
        BY DEF n
  <2>6. /\ a \o o \in Seq(S) /\ Ready(a \o o, i)
        /\ o \o a \in Seq(S) /\ Ready(o \o a, i)
        /\ (o \o a) \o (<<d>> \o a) \in Seq(S) /\ Ready((o \o a) \o (<<d>> \o a), i)
        BY <2>2, <2>3, <2>5, InscribedReady
  <2>7. Inscribed(c) = a
        BY <2>1 DEF Inscribed, n, k, v
  <2> HIDE DEF a, o
  <2>8. \A s \in Seq(S) : Ready(s, i) => s \o r \in Seq(S) /\ Will(s \o r, "live", "drop")
                             /\ NodeFirst(s \o r, i) /\ NodeAgain(s \o r, i) /\ Giving(s \o r)
        BY <2>4, ReadyBefore, Concat
  <2>9. (o \o a) \o <<>> = o \o a
        BY <2>6, ConcatEmptySeq
  <2>10. \E s \in {a \o o, o \o a, (o \o a) \o (<<d>> \o a)} : Script(c, f, offl) = s \o r
    <3>1. CASE verb[c] = "inscribe"
          BY <2>7, <3>1 DEF Script, InscribeScript, r, l, o
    <3>2. CASE verb[c] = "inscribe-via"
          BY <2>7, <2>9, <3>2 DEF Script, InscribeViaScript, r, l, d, o
    <3> QED BY <1>5, <3>1, <3>2
  <2> QED BY <1>5, <2>6, <2>8, <2>10 DEF S, i
<1> QED BY <1>4, <1>5 DEF Placing

-----------------------------------------------------------------------------
\* What a query does to nodes, homes and containment.

LEMMA PlaceQueries ==
    ASSUME db \in Graph, NEW c \in All, BridgeQuery(c)
    PROVE  LET q == Head(todo[c])[1]
               i == Fp("inscription", c)
           IN  /\ db'.nodes = IF q = "node" THEN db.nodes \cup {X(c)}
                              ELSE IF q = "chain" THEN db.nodes \cup {Predecessor(c)}
                              ELSE IF q = "drop" THEN db.nodes \ {i} ELSE db.nodes
               /\ db'.lives = IF q = "live" THEN Joined(db.lives, X(c), Y(c))
                              ELSE IF q = "unlive" THEN db.lives \ {<<X(c), Y(c)>>}
                              ELSE IF q = "drop" THEN {e \in db.lives : e[1] # i} ELSE db.lives
               /\ db'.contains = IF q = "contain" THEN Joined(db.contains, X(c), Y(c))
                                 ELSE IF q = "drop" THEN {e \in db.contains : e[2] # i}
                                 ELSE db.contains
<1> USE DEF Graph
<1>1. CASE CreateNode(c)
      BY <1>1 DEF CreateNode, Runs
<1>2. CASE CreateContains(c)
      BY <1>2 DEF CreateContains, Runs
<1>3. CASE CreateLivesIn(c) \/ DeleteLivesIn(c)
      BY <1>3 DEF CreateLivesIn, DeleteLivesIn, Runs
<1>4. CASE DropInscription(c)
      BY <1>4 DEF DropInscription, Runs
<1>5. CASE CreatePredecessor(c)
      BY <1>5 DEF CreatePredecessor, Runs
<1>6. CASE \/ DeleteHead(c) \/ CreateHead(c) \/ SetHeadColumn(c)
           \/ ForgetHeads(c) \/ CreateTriple(c) \/ CreateKnowledge(c)
      BY <1>6 DEF DeleteHead, CreateHead, SetHeadColumn,
             ForgetHeads, CreateTriple, CreateKnowledge, Runs
<1>7. CASE \/ AppendLog(c) \/ MirrorAqueduct(c) \/ CreateAqueduct(c)
           \/ (\E side \in {"from", "to"} : CreateEnd(c, side)) \/ Strengthen(c)
      BY <1>7 DEF AppendLog, MirrorAqueduct, CreateAqueduct, CreateEnd, Strengthen, Runs
<1> QED BY <1>1, <1>2, <1>3, <1>4, <1>5, <1>6, <1>7 DEF BridgeQuery

\* A verb has only its own queries.
LEMMA PlaceNames ==
    ASSUME MirrorInv, HeadInv, NEW c \in All, pc[c] = "bridge", todo[c] # <<>>
    PROVE  LET q == Head(todo[c])[1]
           IN  /\ q \in {"live", "unlive", "drop"} => Placing(c)
               /\ q = "drop" => verb[c] # "move"
               /\ q = "unlive" => verb[c] = "move"
<1>1. todo[c] \in Seq(Calls(NamesOf(verb[c]))) /\ verb[c] \in AllVerbs
      BY DEF HeadInv, Names, MirrorInv, TypeOK
<1>2. Head(todo[c])[1] \in NamesOf(verb[c])
      BY <1>1, TailOf DEF Calls
<1> QED BY <1>1, <1>2 DEF NamesOf, Placing, AllVerbs

-----------------------------------------------------------------------------
\* What is left of a script that places.

LEMMA NodeTail ==
    ASSUME NEW S, NEW s \in Seq(S), s # <<>>, NEW i
    PROVE  /\ NodeFirst(s, i) => s[1] = Node(i) \/ (s[1][1] # "live" /\ NodeFirst(Tail(s), i))
           /\ NodeAgain(s, i) => /\ NodeAgain(Tail(s), i)
                                 /\ s[1][1] = "drop" => NodeFirst(Tail(s), i)
           /\ Giving(s) => Giving(Tail(s))
<1> DEFINE t == Tail(s)
<1>0. /\ DOMAIN s = 1..Len(s) /\ DOMAIN t = 1..(Len(s) - 1) /\ Len(s) \in Nat \ {0}
      /\ \A k \in DOMAIN t : k + 1 \in DOMAIN s /\ t[k] = s[k + 1]
      BY TailOf
<1> HIDE DEF t
<1>1. ASSUME NodeFirst(s, i), s[1] # Node(i) PROVE s[1][1] # "live" /\ NodeFirst(t, i)
  <2>1. PICK j \in DOMAIN s : s[j] = Node(i) /\ \A k \in DOMAIN s : k < j => s[k][1] # "live"
        BY <1>1 DEF NodeFirst
  <2>2. j # 1 /\ 1 \in DOMAIN s /\ 1 < j /\ j - 1 \in DOMAIN t /\ t[j - 1] = s[j]
        BY <1>0, <1>1, <2>1
  <2>3. ASSUME NEW k \in DOMAIN t, k < j - 1 PROVE t[k][1] # "live"
    <3>1. k + 1 \in DOMAIN s /\ k + 1 < j /\ t[k] = s[k + 1]
          BY <1>0, <2>3
    <3> QED BY <2>1, <3>1
  <2> QED BY <2>1, <2>2, <2>3 DEF NodeFirst
<1>2. ASSUME NodeAgain(s, i) PROVE NodeAgain(t, i)
  <2> SUFFICES ASSUME NEW j \in DOMAIN t, t[j][1] = "drop" PROVE j + 1 \in DOMAIN t /\ t[j + 1] = Node(i)
      BY DEF NodeAgain
  <2>1. j + 1 \in DOMAIN s /\ s[j + 1][1] = "drop"
        BY <1>0
  <2>2. (j + 1) + 1 \in DOMAIN s /\ s[(j + 1) + 1] = Node(i)
        BY <1>2, <2>1 DEF NodeAgain
  <2>3. j + 1 \in DOMAIN t
        BY <1>0, <2>2
  <2> QED BY <1>0, <2>2, <2>3
<1>3. ASSUME NodeAgain(s, i), s[1][1] = "drop" PROVE NodeFirst(t, i)
  <2>1. 1 \in DOMAIN s
        BY <1>0
  <2>2. 1 + 1 \in DOMAIN s /\ s[1 + 1] = Node(i)
        BY <1>3, <2>1 DEF NodeAgain
  <2>3. 1 \in DOMAIN t /\ t[1] = Node(i)
        BY <1>0, <2>2
  <2>4. \A k \in DOMAIN t : ~(k < 1)
        BY <1>0
  <2> QED BY <2>3, <2>4 DEF NodeFirst
<1>4. ASSUME Giving(s) PROVE Giving(t)
  <2> SUFFICES ASSUME NEW j \in DOMAIN t, NEW k \in DOMAIN t, j < k, AqueductCall(t[j])
               PROVE  t[k][1] # "live"
      BY DEF Giving
  <2>1. j + 1 \in DOMAIN s /\ k + 1 \in DOMAIN s /\ j + 1 < k + 1 /\ t[j] = s[j + 1] /\ t[k] = s[k + 1]
        BY <1>0
  <2> QED BY <1>4, <2>1 DEF Giving
<1> QED BY <1>1, <1>2, <1>3, <1>4 DEF t

-----------------------------------------------------------------------------
\* What is said of the lines stays true when the homes of the avatar do not change.

LEMMA ResidesKept ==
    ASSUME NEW s, NEW i, ResidesIn(s, i),
           \A y : <<i, y>> \in db'.lives <=> <<i, y>> \in db.lives,
           \A d \in All : pc[d] # "idle" => /\ pc'[d] # "idle" /\ verb'[d] = verb[d]
                                            /\ avatar'[d] = avatar[d] /\ room'[d] = room[d],
           \A d \in ActsOf(s) : verb'[d] = verb[d] /\ avatar'[d] = avatar[d] /\ room'[d] = room[d]
    PROVE  ResidesIn(s, i)'
<1>1. \A d \in ActsOf(s) : PlacesAt(d, i)' <=> PlacesAt(d, i)
      BY DEF PlacesAt, Placing, Subject
<1>2. PlacedBy(s, i)' = PlacedBy(s, i)
  <2>1. PlacedBy(s, i)' = {c \in Commands : c \in ActsOf(s) /\ PlacesAt(c, i)'}
        BY DEF PlacedBy, ActsOf, LinesOf
  <2> QED BY <1>1, <2>1 DEF PlacedBy
<1>3. \A d \in Commands : Unplaced(s, i, d) => Unplaced(s, i, d)' /\ room'[d] = room[d]
  <2> SUFFICES ASSUME NEW d \in Commands, Unplaced(s, i, d)
               PROVE  Unplaced(s, i, d)' /\ room'[d] = room[d]
      OBVIOUS
  <2>1. d \in All /\ pc[d] # "idle" /\ PlacesAt(d, i) /\ d \notin ActsOf(s)
        BY DEF Unplaced, All
  <2>2. /\ pc'[d] # "idle" /\ verb'[d] = verb[d] /\ avatar'[d] = avatar[d] /\ room'[d] = room[d]
        BY <2>1
  <2>3. PlacesAt(d, i)'
        BY <2>1, <2>2 DEF PlacesAt, Placing, Subject
  <2> QED BY <2>1, <2>2, <2>3 DEF Unplaced, ActsOf, LinesOf
<1>4. CASE PlacedBy(s, i) = {}
      BY <1>2, <1>4 DEF ResidesIn
<1>5. CASE \E x \in All : LastOf(s, x, PlacedBy(s, i)) /\ \A y : LivesIn(i, y) <=> y = room[x]
  <2>1. PICK x \in All : LastOf(s, x, PlacedBy(s, i)) /\ \A y : LivesIn(i, y) <=> y = room[x]
        BY <1>5
  <2>2. x \in ActsOf(s)
        BY <2>1 DEF LastOf, PlacedBy
  <2>3. room'[x] = room[x]
        BY <2>2
  <2>4. \A y : LivesIn(i, y)' <=> y = room'[x]
        BY <2>1, <2>3 DEF LivesIn
  <2>5. LastOf(s, x, PlacedBy(s, i))'
        BY <1>2, <2>1 DEF LastOf
  <2> QED BY <2>4, <2>5 DEF ResidesIn
<1>6. CASE /\ \E d \in Commands : Unplaced(s, i, d)
           /\ \A y : LivesIn(i, y) => \E d \in Commands : Unplaced(s, i, d) /\ y = room[d]
  <2>1. \E d \in Commands : Unplaced(s, i, d)'
        BY <1>3, <1>6
  <2>2. ASSUME NEW y, LivesIn(i, y)' PROVE \E d \in Commands : Unplaced(s, i, d)' /\ y = room'[d]
    <3>1. LivesIn(i, y)
          BY <2>2 DEF LivesIn
    <3> QED BY <1>3, <1>6, <3>1
  <2> QED BY <2>1, <2>2 DEF ResidesIn
<1> QED BY <1>4, <1>5, <1>6 DEF ResidesIn

-----------------------------------------------------------------------------
\* The steps.

LEMMA SettlingKept ==
    ASSUME NEW d \in All, Settling(d), UNCHANGED <<verb, room, avatar, todo, db>>
    PROVE  Settling(d)'
<1>1. Touching(d)' = Touching(d)
      BY DEF Touching, Subject
<1> QED BY <1>1 DEF Settling, Undo, LivesIn, Subject

LEMMA ResidencePlain ==
    ASSUME MirrorInv, ResidenceInv, NEW c \in All,
           NEW p \in {"staged", "promote", "keys", "done", "dead"},
           UNCHANGED <<bundle, args, todo, db>>, pc' = [pc EXCEPT ![c] = p],
           p = "staged" => pc[c] = "idle",
           p = "promote" => pc[c] = "promote" \/ (pc[c] = "bridge" /\ todo[c] = <<>>)
    PROVE  ResidenceInv'
<1> USE DEF args
<1>1. pc'[c] = p /\ \A d \in All \ {c} : pc'[d] = pc[d]
      BY DEF MirrorInv, TypeOK
<1>2. \A s, i : ResidesIn(s, i) => ResidesIn(s, i)'
      BY <1>1, ResidesKept
<1>3. Rooted'
      BY DEF ResidenceInv, Rooted
<1>4. \A d \in All : /\ Placing(d)' = Placing(d) /\ Subject(d)' = Subject(d)
                     /\ \A i : PlacesAt(d, i)' = PlacesAt(d, i)
      BY DEF Placing, Subject, PlacesAt
<1>5. ASSUME NEW d \in All, Placing(d), pc'[d] = "bridge" PROVE Settling(d)'
  <2>1. Settling(d)
        BY <1>1, <1>5 DEF ResidenceInv
  <2> QED BY <2>1, SettlingKept
<1>6. ASSUME NEW d \in All, Placing(d), pc'[d] \in {"promote", "write"}
      PROVE  LivesIn(Subject(d), room[d])
  <2>1. CASE pc[d] \in {"promote", "write"}
        BY <1>6, <2>1 DEF ResidenceInv
  <2>2. CASE pc[d] \notin {"promote", "write"}
    <3>1. d = c /\ pc[c] = "bridge" /\ todo[c] = <<>>
          BY <1>1, <1>6, <2>2
    <3>2. Settling(c)
          BY <1>6, <3>1 DEF ResidenceInv
    <3> QED BY <3>1, <3>2 DEF Settling, Will
  <2> QED BY <2>1, <2>2
<1>7. ASSUME NEW d \in Commands, pc'[d] = "write", NEW i \in Avatars, ~PlacesAt(d, i)
      PROVE  ResidesIn(seen[d], i)'
  <2>1. ResidesIn(seen[d], i)
        BY <1>1, <1>7 DEF ResidenceInv, All
  <2> QED BY <1>2, <2>1
<1>8. bundle # <<>> => \A i \in Avatars : ResidesIn(bundle, i)'
      BY <1>2 DEF ResidenceInv
<1>9. \A d \in All : LivesIn(Subject(d), room[d])' = LivesIn(Subject(d), room[d])
      BY DEF LivesIn, Subject
<1> QED BY <1>3, <1>4, <1>5, <1>6, <1>7, <1>8, <1>9 DEF ResidenceInv, Avatars, All

LEMMA ResidenceSame ==
    ASSUME ResidenceInv, UNCHANGED <<bundle, args, todo, db, pc>>
    PROVE  ResidenceInv'
<1> USE DEF args
<1>1. \A s, i : ResidesIn(s, i) => ResidesIn(s, i)'
      BY ResidesKept
<1>2. \A d \in All : Settling(d) => Settling(d)'
      BY SettlingKept
<1>3. \A d \in All : /\ Placing(d)' = Placing(d) /\ Subject(d)' = Subject(d)
                     /\ \A i : PlacesAt(d, i)' = PlacesAt(d, i)
                     /\ LivesIn(Subject(d), room[d])' = LivesIn(Subject(d), room[d])
      BY DEF Placing, Subject, PlacesAt, LivesIn
<1>4. Rooted'
      BY DEF ResidenceInv, Rooted
<1> QED BY <1>1, <1>2, <1>3, <1>4 DEF ResidenceInv, Avatars, All

LEMMA ResidenceStart ==
    ASSUME MirrorInv, ResidenceInv, NEW c \in Commands, StartAny(c)
    PROVE  ResidenceInv'
<1> DEFINE Chosen(v, m, r, a) ==
             /\ Start(c, v, m, r, a)
             /\ v \in {"inscribe", "inscribe-via", "move"} => r \in Known("room", {"add-room"})
           Started == \E v, m, r, a : Chosen(v, m, r, a)
<1>0. Started
  <2>1. CASE StartAddRoom(c)
        BY <2>1 DEF StartAddRoom
  <2>2. CASE StartInscribe(c)
        BY <2>2 DEF StartInscribe
  <2>3. CASE StartMove(c)
        BY <2>3 DEF StartMove
  <2>4. CASE StartRename(c)
    <3>1. Chosen("rename-mythos", FALSE, None, None)
          BY <2>4 DEF StartRename
    <3> HIDE DEF Chosen
    <3> QED BY <3>1
  <2> HIDE DEF Started
  <2> QED BY <2>1, <2>2, <2>3, <2>4 DEF StartAny
<1>1. PICK v, m, r, a : Chosen(v, m, r, a)
      BY <1>0
<1>2. /\ c \in All /\ c # Mint /\ pc[c] = "idle"
      /\ verb' = [verb EXCEPT ![c] = v] /\ seen' = [seen EXCEPT ![c] = bundle]
      /\ room' = [room EXCEPT ![c] = r] /\ avatar' = [avatar EXCEPT ![c] = a]
      /\ pc' = [pc EXCEPT ![c] = "staged"] /\ UNCHANGED <<bundle, todo, db>>
      BY <1>1, VaultCommandsAssumption DEF Start, CanStart, Goto, All
<1>3. /\ pc'[c] = "staged" /\ verb'[c] = v /\ room'[c] = r
      /\ \A d \in All \ {c} : /\ pc'[d] = pc[d] /\ verb'[d] = verb[d] /\ seen'[d] = seen[d]
                              /\ room'[d] = room[d] /\ avatar'[d] = avatar[d]
      BY <1>2 DEF MirrorInv, TypeOK
<1>4. ASSUME NEW s, LinesOf(s) \subseteq cas, NEW i, ResidesIn(s, i) PROVE ResidesIn(s, i)'
  <2>1. c \notin ActsOf(s)
        BY <1>2, <1>4, FpFields DEF MirrorInv, VaultInv, Fresh, ActsOf, Action
  <2>2. \A d \in ActsOf(s) : verb'[d] = verb[d] /\ avatar'[d] = avatar[d] /\ room'[d] = room[d]
        BY <1>3, <2>1 DEF ActsOf
  <2> QED BY <1>2, <1>3, <1>4, <2>2, ResidesKept
<1>5. Rooted'
      BY <1>2 DEF ResidenceInv, Rooted
<1>6. ASSUME NEW d \in All, Placing(d)' PROVE room'[d] \in Fps /\ room'[d].kind = "room"
  <2>1. CASE d = c
    <3>1. r \in Known("room", {"add-room"})
          BY <1>1, <1>3, <1>6, <2>1 DEF Placing
    <3>2. PICK e \in Commands : r = Fp("room", e)
          BY <3>1 DEF Known
    <3>3. r \in Fps /\ r.kind = "room"
          BY <3>2, FpTyped, FpFields DEF Kinds, All
    <3> QED BY <1>3, <2>1, <3>3
  <2>2. CASE d # c
        BY <1>3, <1>6, <2>2 DEF ResidenceInv, Placing
  <2> QED BY <2>1, <2>2
<1>7. bundle' # <<>> => \A i \in Avatars : ResidesIn(bundle, i)'
      BY <1>2, <1>4 DEF ResidenceInv, MirrorInv, VaultInv, BundleResolves
<1>8. ASSUME NEW d \in Commands, pc'[d] = "write", NEW i \in Avatars, ~PlacesAt(d, i)'
      PROVE  ResidesIn(seen[d], i)'
  <2>1. d # c /\ d \in All
        BY <1>3, <1>8 DEF All
  <2>2. ~PlacesAt(d, i)
        BY <1>3, <1>8, <2>1 DEF PlacesAt, Placing, Subject
  <2>3. ResidesIn(seen[d], i) /\ LinesOf(seen[d]) \subseteq cas /\ seen'[d] = seen[d]
        BY <1>3, <1>8, <2>1, <2>2 DEF ResidenceInv, MirrorInv, VaultInv, ReadStored
  <2> QED BY <1>4, <2>3
<1>9. ASSUME NEW d \in All, Placing(d)', pc'[d] \in {"bridge", "promote", "write"}
      PROVE  /\ pc'[d] = "bridge" => Settling(d)'
             /\ pc'[d] \in {"promote", "write"} => LivesIn(Subject(d), room[d])'
  <2>1. d # c /\ pc[d] = pc'[d] /\ UNCHANGED <<verb[d], room[d], avatar[d]>>
        BY <1>3, <1>9
  <2>2. Placing(d) /\ Subject(d)' = Subject(d) /\ Undo(d)' = Undo(d) /\ Touching(d)' = Touching(d)
        BY <1>9, <2>1 DEF Placing, Subject, Undo, Touching
  <2>3. Settling(d) => Settling(d)'
        BY <1>2, <2>1, <2>2 DEF Settling, LivesIn
  <2> QED BY <1>2, <1>9, <2>1, <2>2, <2>3 DEF ResidenceInv, LivesIn
<1> QED BY <1>5, <1>6, <1>7, <1>8, <1>9 DEF ResidenceInv, Avatars

LEMMA ResidenceOpen ==
    ASSUME MirrorInv, ResidenceInv, NEW c \in All, OpenStore(c)
    PROVE  ResidenceInv'
<1> USE DEF args
<1>1. PICK f \in Sources(c), offl \in BOOLEAN :
         Passes(c, f) /\ todo' = [todo EXCEPT ![c] = Script(c, f, offl)]
      BY DEF OpenStore
<1>2. /\ pc[c] = "staged" /\ pc' = [pc EXCEPT ![c] = "bridge"]
      /\ UNCHANGED <<bundle, args, db>>
      BY DEF OpenStore, Goto, files
<1>3. /\ pc \in [All -> Steps] /\ room[c] \in Opt /\ avatar[c] \in Opt
      /\ todo \in [All -> Seq(Queries \X (Fps \cup {None}) \X (Fps \cup {None}))]
      /\ f \in Opt
      BY <1>1 DEF MirrorInv, TypeOK, Graph, Opt, Sources, Homes
<1>4. /\ pc'[c] = "bridge" /\ todo'[c] = Script(c, f, offl)
      /\ \A d \in All \ {c} : pc'[d] = pc[d] /\ todo'[d] = todo[d]
      BY <1>1, <1>2, <1>3
<1>5. \A s, i : ResidesIn(s, i) => ResidesIn(s, i)'
      BY <1>2, <1>4, ResidesKept
<1>6. \A d \in All : /\ Placing(d)' = Placing(d) /\ Subject(d)' = Subject(d)
                     /\ \A i : PlacesAt(d, i)' = PlacesAt(d, i)
                     /\ Undo(d)' = Undo(d) /\ Touching(d)' = Touching(d)
                     /\ LivesIn(Subject(d), room[d])' = LivesIn(Subject(d), room[d])
      BY <1>2 DEF Placing, Subject, PlacesAt, Undo, Touching, LivesIn
<1>7. Rooted'
      BY <1>2 DEF ResidenceInv, Rooted
<1>8. ASSUME Placing(c) PROVE Settling(c)'
  <2> DEFINE s == Script(c, f, offl)
  <2>1. /\ s \in Seq(Touching(c))
        /\ verb[c] = "move" => (s = <<>> /\ f = room[c]) \/ Will(s, "live", "unlive")
        /\ verb[c] # "move" => /\ Will(s, "live", "drop") /\ NodeFirst(s, Subject(c))
                               /\ NodeAgain(s, Subject(c)) /\ Giving(s)
        BY <1>3, <1>8, ScriptSettles
  <2>2. <<Palace, room[c]>> \in db.contains
        BY <1>1, <1>8 DEF Passes, Placing
  <2>3. room[c] \in db.nodes
        BY <2>2 DEF ResidenceInv, Rooted
  <2>4. ASSUME verb[c] = "move" PROVE <<avatar[c], f>> \in db.lives /\ avatar[c] \in db.nodes
    <3>1. f \in Homes(avatar[c])
          BY <1>1, <2>4 DEF Passes, Sources
    <3> QED BY <3>1 DEF Homes, ResidenceInv, Rooted
  <2> HIDE DEF s
  <2>5. todo'[c] = s
        BY <1>4 DEF s
  <2>6. \/ Will(s, "live", Undo(c))
        \/ Clear(s, Undo(c)) /\ LivesIn(Subject(c), room[c])
    <3>1. CASE verb[c] # "move"
          BY <2>1, <3>1 DEF Undo
    <3>2. CASE verb[c] = "move" /\ Will(s, "live", "unlive")
          BY <3>2 DEF Undo
    <3>3. CASE verb[c] = "move" /\ s = <<>> /\ f = room[c]
          BY <2>4, <3>3 DEF Clear, LivesIn, Subject
    <3> QED BY <2>1, <3>1, <3>2, <3>3
  <2> QED BY <1>2, <1>6, <2>1, <2>3, <2>4, <2>5, <2>6 DEF Settling, LivesIn
<1>9. ASSUME NEW d \in All, d # c, Placing(d), pc'[d] = "bridge" PROVE Settling(d)'
  <2>1. Settling(d)
        BY <1>4, <1>9 DEF ResidenceInv
  <2> QED BY <1>2, <1>4, <1>6, <1>9, <2>1 DEF Settling, LivesIn
<1>10. ASSUME NEW d \in All, Placing(d), pc'[d] \in {"promote", "write"}
       PROVE  LivesIn(Subject(d), room[d])'
       BY <1>4, <1>6, <1>10 DEF ResidenceInv
<1>11. bundle' # <<>> => \A i \in Avatars : ResidesIn(bundle, i)'
       BY <1>2, <1>5 DEF ResidenceInv
<1>12. ASSUME NEW d \in Commands, pc'[d] = "write", NEW i \in Avatars, ~PlacesAt(d, i)
       PROVE  ResidesIn(seen[d], i)'
       BY <1>2, <1>4, <1>5, <1>12 DEF ResidenceInv, All
<1>13. \A d \in All : Placing(d) => room'[d] \in Fps /\ room'[d].kind = "room"
       BY <1>2 DEF ResidenceInv
<1> QED BY <1>6, <1>7, <1>8, <1>9, <1>10, <1>11, <1>12, <1>13 DEF ResidenceInv, Avatars, All

\* A query of a command that places touches its own avatar alone.
LEMMA TouchesOwn ==
    ASSUME MirrorInv, HeadInv, ResidenceInv, NEW c \in All, BridgeQuery(c), pc[c] = "bridge",
           todo[c] # <<>>, NEW i, ~PlacesAt(c, i)
    PROVE  \A y : <<i, y>> \in db'.lives <=> <<i, y>> \in db.lives
<1> DEFINE q == Head(todo[c])[1]
<1>1. db'.lives = IF q = "live" THEN Joined(db.lives, X(c), Y(c))
                  ELSE IF q = "unlive" THEN db.lives \ {<<X(c), Y(c)>>}
                  ELSE IF q = "drop" THEN {e \in db.lives : e[1] # Fp("inscription", c)}
                  ELSE db.lives
      BY PlaceQueries DEF MirrorInv, TypeOK
<1>2. /\ q \in {"live", "unlive", "drop"} => Placing(c)
      /\ q = "drop" => verb[c] # "move"
      BY PlaceNames
<1>3. CASE q \notin {"live", "unlive", "drop"}
      BY <1>1, <1>3
<1>4. CASE q \in {"live", "unlive"}
  <2>1. Placing(c) /\ Settling(c)
        BY <1>2, <1>4 DEF ResidenceInv
  <2>2. Head(todo[c]) \in Touching(c)
        BY <2>1, TailOf DEF Settling
  <2>3. X(c) = Subject(c) /\ X(c) # i
        BY <1>4, <2>1, <2>2 DEF Touching, X, PlacesAt
  <2> HIDE DEF q
  <2> QED BY <1>1, <1>4, <2>3 DEF Joined
<1>5. CASE q = "drop"
  <2>1. i # Fp("inscription", c)
        BY <1>2, <1>5 DEF PlacesAt, Subject
  <2> HIDE DEF q
  <2> QED BY <1>1, <1>5, <2>1
<1> QED BY <1>3, <1>4, <1>5

\* A query keeps edges between nodes.
LEMMA RootedQuery ==
    ASSUME MirrorInv, HeadInv, ResidenceInv, NEW c \in All, BridgeQuery(c), pc[c] = "bridge",
           todo[c] # <<>>
    PROVE  Rooted'
<1> DEFINE q == Head(todo[c])[1]
           i == Fp("inscription", c)
<1>1. /\ db'.nodes = IF q = "node" THEN db.nodes \cup {X(c)}
                     ELSE IF q = "chain" THEN db.nodes \cup {Predecessor(c)}
                     ELSE IF q = "drop" THEN db.nodes \ {i} ELSE db.nodes
      /\ db'.lives = IF q = "live" THEN Joined(db.lives, X(c), Y(c))
                     ELSE IF q = "unlive" THEN db.lives \ {<<X(c), Y(c)>>}
                     ELSE IF q = "drop" THEN {e \in db.lives : e[1] # i} ELSE db.lives
      /\ db'.contains = IF q = "contain" THEN Joined(db.contains, X(c), Y(c))
                        ELSE IF q = "drop" THEN {e \in db.contains : e[2] # i}
                        ELSE db.contains
      BY PlaceQueries DEF MirrorInv, TypeOK
<1>2. Rooted
      BY DEF ResidenceInv
<1>3. CASE q = "live"
  <2>1. Placing(c)
        BY <1>3, PlaceNames
  <2>2. Settling(c) /\ room[c].kind = "room"
        BY <2>1 DEF ResidenceInv
  <2>3. Head(todo[c]) \in Touching(c)
        BY <2>2, TailOf DEF Settling
  <2>4. Y(c) = room[c]
        BY <1>3, <2>3 DEF Touching, Y
  <2> HIDE DEF q, i
  <2>5. db'.nodes = db.nodes /\ db'.contains = db.contains /\ db'.lives = Joined(db.lives, X(c), Y(c))
        BY <1>1, <1>3
  <2> QED BY <1>2, <2>2, <2>4, <2>5 DEF Rooted, Joined
<1>4. CASE q = "drop"
  <2> HIDE DEF q
  <2>1. i.kind = "inscription"
        BY FpFields
  <2> HIDE DEF i
  <2>2. db'.nodes = db.nodes \ {i} /\ db'.contains = {e \in db.contains : e[2] # i}
        /\ db'.lives = {e \in db.lives : e[1] # i}
        BY <1>1, <1>4
  <2>3. \A e \in db'.lives : e[2] # i
        BY <1>2, <2>1, <2>2 DEF Rooted
  <2> QED BY <1>2, <2>2, <2>3 DEF Rooted
<1>5. CASE q = "contain"
  <2> HIDE DEF q, i
  <2>1. db'.nodes = db.nodes /\ db'.contains = Joined(db.contains, X(c), Y(c)) /\ db'.lives = db.lives
        BY <1>1, <1>5
  <2> QED BY <1>2, <2>1 DEF Rooted, Joined
<1>6. CASE q \notin {"live", "drop", "contain"}
  <2> HIDE DEF q, i
  <2>1. db.nodes \subseteq db'.nodes /\ db'.contains = db.contains /\ db'.lives \subseteq db.lives
        BY <1>1, <1>6
  <2> QED BY <1>2, <2>1 DEF Rooted
<1> QED BY <1>3, <1>4, <1>5, <1>6

\* The rest of the script still takes the avatar to its room.
LEMMA SettlingQuery ==
    ASSUME MirrorInv, HeadInv, ResidenceInv, NEW c \in All, BridgeQuery(c), pc[c] = "bridge",
           todo[c] # <<>>, todo' = [todo EXCEPT ![c] = Tail(todo[c])],
           UNCHANGED <<verb, room, avatar>>, Placing(c)
    PROVE  /\ Settling(c)'
           /\ Head(todo[c])[1] = "live" => LivesIn(Subject(c), room[c])'
<1> DEFINE s == todo[c]
           q == Head(s)[1]
           i == Subject(c)
           r == room[c]
           S == Touching(c)
           m == Fp("inscription", c)
<1>1. /\ db'.nodes = IF q = "node" THEN db.nodes \cup {X(c)}
                     ELSE IF q = "chain" THEN db.nodes \cup {Predecessor(c)}
                     ELSE IF q = "drop" THEN db.nodes \ {m} ELSE db.nodes
      /\ db'.lives = IF q = "live" THEN Joined(db.lives, X(c), Y(c))
                     ELSE IF q = "unlive" THEN db.lives \ {<<X(c), Y(c)>>}
                     ELSE IF q = "drop" THEN {e \in db.lives : e[1] # m} ELSE db.lives
      BY PlaceQueries DEF MirrorInv, TypeOK
<1>2. /\ q = "drop" => verb[c] # "move"
      /\ q = "unlive" => verb[c] = "move"
      BY PlaceNames
<1>3. Settling(c) /\ room[c].kind = "room"
      BY DEF ResidenceInv
<1>4. s \in Seq(S) /\ Head(s) \in S /\ Head(s) = s[1] /\ Tail(s) \in Seq(S) /\ 1 \in DOMAIN s
      BY <1>3, TailOf DEF Settling
<1>5. q = "live" => X(c) = i /\ Y(c) = r
      BY <1>4 DEF Touching, X, Y
<1>6. todo'[c] = Tail(s)
      BY DEF MirrorInv, TypeOK
<1>7. /\ \A u : Clear(s, u) => Clear(Tail(s), u) /\ q # u
      /\ \A n, u : Will(s, n, u) => Will(Tail(s), n, u) \/ (q = n /\ Clear(Tail(s), u))
  <2>1. \A u : Clear(s, u) => q # u
        BY <1>4 DEF Clear
  <2> QED BY <1>4, <2>1, ClearTail, WillTail
<1>8. /\ NodeFirst(s, i) => s[1] = Node(i) \/ (q # "live" /\ NodeFirst(Tail(s), i))
      /\ NodeAgain(s, i) => NodeAgain(Tail(s), i) /\ (q = "drop" => NodeFirst(Tail(s), i))
      /\ Giving(s) => Giving(Tail(s))
      BY <1>4, NodeTail
<1>9. m.kind = "inscription" /\ (verb[c] # "move" => i = m)
      BY FpFields DEF Subject
<1>10. /\ r \in db.nodes
       /\ Will(s, "live", Undo(c)) \/ (Clear(s, Undo(c)) /\ <<i, r>> \in db.lives)
       /\ verb[c] = "move" => i \in db.nodes
       /\ verb[c] # "move" => (i \in db.nodes \/ NodeFirst(s, i)) /\ NodeAgain(s, i) /\ Giving(s)
       BY <1>3 DEF Settling, LivesIn, Subject
<1>11. s[1] = Node(i) => q = "node" /\ X(c) = i
       BY <1>4 DEF Node, X
<1>12. Undo(c) = IF verb[c] = "move" THEN "unlive" ELSE "drop"
       BY DEF Undo
<1>13. Undo(c)' = Undo(c) /\ Touching(c)' = S /\ Subject(c)' = i /\ i = (IF verb[c] = "move" THEN avatar[c] ELSE m)
       BY DEF Undo, Touching, Subject
<1> HIDE DEF s, q, i, r, S, m
<1>14. r \in db'.nodes
       BY <1>1, <1>3, <1>9, <1>10 DEF r
<1>15. q = "live" => <<i, r>> \in db'.lives
  <2> HAVE q = "live"
  <2>1. i \in db.nodes
        BY <1>8, <1>10, <1>11
  <2> QED BY <1>1, <1>5, <1>10, <2>1 DEF Joined
<1>16. Will(Tail(s), "live", Undo(c)) \/ (Clear(Tail(s), Undo(c)) /\ <<i, r>> \in db'.lives)
  <2>1. CASE Will(s, "live", Undo(c))
        BY <1>7, <1>15, <2>1
  <2>2. CASE Clear(s, Undo(c)) /\ <<i, r>> \in db.lives
    <3>1. Clear(Tail(s), Undo(c)) /\ q # Undo(c)
          BY <1>7, <2>2
    <3>2. q # "unlive" /\ q # "drop"
          BY <1>2, <1>12, <3>1
    <3>3. db'.lives = db.lives \/ q = "live"
          BY <1>1, <3>2
    <3> QED BY <1>15, <2>2, <3>1, <3>3
  <2> QED BY <1>10, <2>1, <2>2
<1>17. verb[c] = "move" => i \in db'.nodes
       BY <1>1, <1>2, <1>10
<1>18. ASSUME verb[c] # "move"
       PROVE  (i \in db'.nodes \/ NodeFirst(Tail(s), i)) /\ NodeAgain(Tail(s), i) /\ Giving(Tail(s))
  <2>1. NodeAgain(Tail(s), i) /\ Giving(Tail(s))
        BY <1>8, <1>10, <1>18
  <2>2. CASE q = "drop"
        BY <1>8, <1>10, <1>18, <2>1, <2>2
  <2>3. CASE q # "drop"
    <3>1. db.nodes \subseteq db'.nodes /\ (q = "node" => X(c) \in db'.nodes)
          BY <1>1, <2>3
    <3> QED BY <1>8, <1>10, <1>11, <1>18, <2>1, <3>1
  <2> QED BY <2>2, <2>3
<1>19. Settling(c)'
       BY <1>4, <1>6, <1>13, <1>14, <1>16, <1>17, <1>18 DEF Settling, LivesIn, r
<1>20. Head(todo[c])[1] = "live" => LivesIn(Subject(c), room[c])'
       BY <1>13, <1>15 DEF LivesIn, q, r, s
<1> QED BY <1>19, <1>20

\* While a command places, its avatar is nowhere but in its room.
LEMMA OnlyThere ==
    ASSUME MirrorInv, HeadInv, HomeInv, HomeInv', ResidenceInv, NEW c \in All, BridgeQuery(c),
           pc[c] = "bridge", pc' = pc, todo[c] # <<>>,
           todo' = [todo EXCEPT ![c] = Tail(todo[c])],
           UNCHANGED <<verb, room, avatar>>, Placing(c),
           Head(todo[c])[1] \in {"live", "unlive", "drop"},
           NEW y, LivesIn(Subject(c), y)'
    PROVE  y = room[c]
<1> DEFINE q == Head(todo[c])[1]
<1>1. CASE verb[c] # "move"
  <2>1. Places(c)'
        BY <1>1 DEF HomeInv, Housing
  <2> QED BY <1>1, <2>1 DEF Places, LivesIn, Subject
<1>2. CASE verb[c] = "move" /\ q = "live"
  <2>1. LivesIn(Subject(c), room[c])'
        BY <1>2, SettlingQuery
  <2> QED BY <2>1 DEF HomeInv, SingleHome, LivesIn
<1>3. CASE verb[c] = "move" /\ q = "unlive"
  <2>1. Moves(c)
        BY <1>3 DEF HomeInv, Housing
  <2>2. todo[c] \in Seq(Touching(c))
        BY DEF ResidenceInv, Settling
  <2>3. Head(todo[c]) = todo[c][1]
        BY <2>2, TailOf
  <2>4. db'.lives = db.lives \ {<<X(c), Y(c)>>}
    <3>1. db \in Graph
          BY DEF MirrorInv, TypeOK
    <3> QED BY <1>3, <3>1, PlaceQueries
  <2>5. ASSUME Settles(todo[c], 1) \/ todo[c][1] = Live(avatar[c], room[c]) PROVE FALSE
    <3>1. ~Clear(todo[c], "live")
      <4>1. Settling(c)
            BY DEF ResidenceInv
      <4>2. Clear(todo[c], "unlive") => FALSE
            BY <1>3, <2>2, <2>3, TailOf DEF Clear
      <4> QED BY <1>3, <4>1, <4>2 DEF Settling, Will, Clear, Undo
    <3>2. DOMAIN todo[c] = 1..Len(todo[c])
          BY <2>2, TailOf
    <3>3. ~Settles(todo[c], 1)
          BY <3>1, <3>2 DEF Settles, Clear
    <3>4. todo[c][1] # Live(avatar[c], room[c])
          BY <1>3, <2>3 DEF Live
    <3> QED BY <2>5, <3>3, <3>4
  <2>6. /\ todo[c][1] = Unlive(avatar[c], from[c])
        /\ \A r : <<avatar[c], r>> \in db.lives => r = from[c]
        BY <2>1, <2>5 DEF Moves
  <2>7. X(c) = avatar[c] /\ Y(c) = from[c]
        BY <2>3, <2>6 DEF Unlive, X, Y
  <2> QED BY <1>3, <2>4, <2>6, <2>7 DEF LivesIn, Subject
<1>4. q = "drop" => verb[c] # "move"
      BY PlaceNames
<1> QED BY <1>1, <1>2, <1>3, <1>4

LEMMA ResidenceQuery ==
    ASSUME MirrorInv, SerialInv, HeadInv, HomeInv, HomeInv', ResidenceInv, NEW c \in All,
           BridgeQuery(c)
    PROVE  ResidenceInv'
<1> USE DEF args
<1>1. /\ pc[c] = "bridge" /\ todo[c] # <<>>
      /\ todo' = [todo EXCEPT ![c] = Tail(todo[c])]
      /\ UNCHANGED <<bundle, pc, args>>
      BY DEF files, BridgeQuery, Runs, CreateNode, CreateContains,
             CreateLivesIn, DeleteLivesIn, DropInscription, CreatePredecessor, DeleteHead,
             CreateHead, SetHeadColumn, ForgetHeads, CreateTriple, CreateKnowledge,
             AppendLog, MirrorAqueduct, CreateAqueduct, CreateEnd, Strengthen
<1>2. \A d \in All : Running(d) => d = c
      BY <1>1 DEF SerialInv, Alone, Running
<1>3. ASSUME NEW d \in All, pc[d] \in {"promote", "write", "bridge"}, d # c PROVE FALSE
      BY <1>2, <1>3 DEF Running
<1>4. Rooted'
      BY <1>1, RootedQuery
<1>5. Placing(c) => Settling(c)'
      BY <1>1, SettlingQuery
<1>6. ASSUME bundle # <<>>, NEW i \in Avatars PROVE ResidesIn(bundle, i)'
  <2>1. c \in Commands /\ c \notin ActsOf(bundle)
    <3>1. c # Mint
          BY <1>1, <1>6 DEF SerialInv, Minting
    <3>2. c \in Commands /\ Reads(c)
          BY <1>1, <3>1 DEF SerialInv, All, Running
    <3> QED BY <1>1, <3>2, FpFields DEF Reads, ActsOf, Action
  <2>2. ResidesIn(bundle, i)
        BY <1>6 DEF ResidenceInv
  <2>3. ASSUME \A y : <<i, y>> \in db'.lives <=> <<i, y>> \in db.lives
        PROVE  ResidesIn(bundle, i)'
    <3>1. PICK t : t = bundle
          OBVIOUS
    <3>2. ResidesIn(t, i)'
          BY <1>1, <2>2, <2>3, <3>1, ResidesKept
    <3> QED BY <1>1, <3>1, <3>2
  <2>4. CASE ~PlacesAt(c, i)
        BY <1>1, <2>3, <2>4, TouchesOwn
  <2>5. CASE PlacesAt(c, i) /\ Head(todo[c])[1] \in {"live", "unlive", "drop"}
    <3>1. Placing(c) /\ Subject(c) = i
          BY <2>5 DEF PlacesAt
    <3>2. \A y : LivesIn(i, y)' => y = room[c]
      <4>1. Subject(c)' = i
            BY <1>1, <3>1 DEF Subject
      <4> QED BY <1>1, <2>5, <3>1, <4>1, OnlyThere DEF LivesIn
    <3>3. Unplaced(bundle, i, c)'
          BY <1>1, <2>1, <2>5 DEF Unplaced, PlacesAt, Placing, Subject, ActsOf, LinesOf
    <3> QED BY <1>1, <2>1, <3>2, <3>3 DEF ResidesIn
  <2>6. CASE Head(todo[c])[1] \notin {"live", "unlive", "drop"}
    <3>1. db'.lives = db.lives
      <4>1. db \in Graph
            BY DEF MirrorInv, TypeOK
      <4> QED BY <2>6, <4>1, PlaceQueries
    <3> QED BY <2>3, <3>1
  <2> QED BY <2>4, <2>5, <2>6
<1>7. \A d \in All : Placing(d)' = Placing(d)
      BY <1>1 DEF Placing
<1>8. \A d \in All : Placing(d) => room'[d] \in Fps /\ room'[d].kind = "room"
      BY <1>1 DEF ResidenceInv
<1> QED BY <1>1, <1>3, <1>4, <1>5, <1>6, <1>7, <1>8 DEF ResidenceInv, Avatars, All

LEMMA ResidenceSkip ==
    ASSUME MirrorInv, ResidenceInv, NEW c \in All, SkipAqueduct(c)
    PROVE  ResidenceInv'
<1> USE DEF args
<1>1. /\ pc[c] = "bridge" /\ verb[c] \in {"inscribe", "inscribe-via"} /\ todo[c] # <<>>
      /\ AqueductCall(Head(todo[c]))
      /\ todo' = [todo EXCEPT ![c] = MythosNode(c)]
      /\ UNCHANGED <<bundle, pc, args, db>>
      BY DEF SkipAqueduct, GivesUpAqueduct, files, AqueductCall, X
<1>2. todo'[c] = MythosNode(c) /\ \A d \in All \ {c} : todo'[d] = todo[d]
      BY <1>1 DEF MirrorInv, TypeOK
<1>3. \A s, i : ResidesIn(s, i) => ResidesIn(s, i)'
      BY <1>1, ResidesKept
<1>4. \A d \in All : /\ Placing(d)' = Placing(d) /\ Subject(d)' = Subject(d)
                     /\ \A i : PlacesAt(d, i)' = PlacesAt(d, i)
                     /\ Undo(d)' = Undo(d) /\ Touching(d)' = Touching(d)
                     /\ LivesIn(Subject(d), room[d])' = LivesIn(Subject(d), room[d])
      BY <1>1 DEF Placing, Subject, PlacesAt, Undo, Touching, LivesIn
<1>5. Settling(c) /\ Rooted
      BY <1>1 DEF ResidenceInv, Placing
<1>6. LivesIn(Subject(c), room[c])
  <2>1. todo[c] \in Seq(Touching(c)) /\ Giving(todo[c])
        BY <1>1, <1>5 DEF Settling
  <2>2. DOMAIN todo[c] = 1..Len(todo[c]) /\ Len(todo[c]) \in Nat \ {0} /\ Head(todo[c]) = todo[c][1]
        BY <1>1, <2>1, TailOf
  <2>3. ASSUME NEW k \in DOMAIN todo[c] PROVE todo[c][k][1] # "live"
    <3>1. CASE k = 1
          BY <1>1, <2>2, <3>1 DEF AqueductCall
    <3>2. CASE k # 1
      <4>1. 1 \in DOMAIN todo[c] /\ 1 < k
            BY <2>2, <2>3, <3>2
      <4> QED BY <1>1, <2>1, <2>2, <2>3, <4>1 DEF Giving
    <3> QED BY <3>1, <3>2
  <2> QED BY <1>5, <2>3 DEF Settling, Will
<1>7. /\ MythosNode(c) \in Seq(Touching(c)) /\ \A k \in DOMAIN MythosNode(c) : MythosNode(c)[k][1] = "node"
  <2>1. Node(Fp("mythos", c)) \in Touching(c)
    <3>1. Fp("mythos", c) \in Opt
          BY FpTyped DEF Opt, Kinds
    <3> QED BY <3>1 DEF Node, Touching, Queries, Opt
  <2>2. MythosNode(c) = <<>> \/ MythosNode(c) = <<Node(Fp("mythos", c))>>
        BY DEF MythosNode
  <2>3. CASE MythosNode(c) = <<>>
        BY <2>3
  <2>4. CASE MythosNode(c) = <<Node(Fp("mythos", c))>>
    <3> DEFINE n == Node(Fp("mythos", c))
    <3>1. n \in Touching(c) /\ n[1] = "node"
          BY <2>1 DEF Node
    <3> HIDE DEF n
    <3>2. MythosNode(c) = <<n>>
          BY <2>4 DEF n
    <3> QED BY <3>1, <3>2
  <2> QED BY <2>2, <2>3, <2>4
<1>8. Settling(c)'
  <2> DEFINE s == MythosNode(c)
  <2> HIDE DEF s
  <2>1. \A k \in DOMAIN s : s[k][1] = "node"
        BY <1>7 DEF s
  <2>2. Clear(s, Undo(c)) /\ NodeAgain(s, Subject(c)) /\ Giving(s)
        BY <2>1 DEF Clear, Undo, NodeAgain, Giving
  <2>3. Subject(c) \in db.nodes
        BY <1>5, <1>6 DEF LivesIn, Rooted
  <2>4. todo'[c] = s /\ s \in Seq(Touching(c))
        BY <1>2, <1>7 DEF s
  <2>5. room[c] \in db.nodes /\ verb[c] # "move"
        BY <1>1, <1>5 DEF Settling
  <2> QED BY <1>1, <1>4, <1>6, <2>2, <2>3, <2>4, <2>5 DEF Settling, LivesIn
<1>9. ASSUME NEW d \in All, Placing(d), pc'[d] = "bridge" PROVE Settling(d)'
  <2>1. CASE d = c
        BY <1>8, <2>1
  <2>2. CASE d # c
    <3>1. Settling(d)
          BY <1>1, <1>9 DEF ResidenceInv
    <3> QED BY <1>1, <1>2, <1>4, <1>9, <2>2, <3>1 DEF Settling, LivesIn
  <2> QED BY <2>1, <2>2
<1>10. Rooted'
       BY <1>1, <1>5 DEF Rooted
<1>11. \A d \in All : Placing(d) => room'[d] \in Fps /\ room'[d].kind = "room"
       BY <1>1 DEF ResidenceInv
<1>12. ASSUME NEW d \in Commands, pc'[d] = "write", NEW i \in Avatars, ~PlacesAt(d, i)
       PROVE  ResidesIn(seen[d], i)'
  <2>1. ResidesIn(seen[d], i) /\ seen' = seen
        BY <1>1, <1>12 DEF ResidenceInv
  <2> QED BY <1>3, <2>1
<1>13. bundle' # <<>> => \A i \in Avatars : ResidesIn(bundle, i)'
       BY <1>1, <1>3 DEF ResidenceInv
<1>14. ASSUME NEW d \in All, Placing(d), pc'[d] \in {"promote", "write"}
       PROVE  LivesIn(Subject(d), room[d])'
       BY <1>1, <1>4, <1>14 DEF ResidenceInv
<1> QED BY <1>4, <1>9, <1>10, <1>11, <1>12, <1>13, <1>14 DEF ResidenceInv, Avatars, All

LEMMA ResidenceTruncate ==
    ASSUME MirrorInv, SerialInv, ResidenceInv, NEW c \in All, TruncateBundle(c)
    PROVE  ResidenceInv'
<1> USE DEF args
<1>0. /\ c \in Commands /\ pc[c] = "promote" /\ bundle' = <<>>
      /\ pc' = [pc EXCEPT ![c] = "write"] /\ UNCHANGED <<args, todo, db>>
      BY DEF TruncateBundle, Unpromoted, Goto, All
<1>1. pc'[c] = "write" /\ \A d \in All \ {c} : pc'[d] = pc[d]
      BY <1>0 DEF MirrorInv, TypeOK
<1>2. \A s, i : ResidesIn(s, i) => ResidesIn(s, i)'
      BY <1>0, <1>1, ResidesKept
<1>3. \A d \in All : /\ Placing(d)' = Placing(d) /\ Subject(d)' = Subject(d)
                     /\ \A i : PlacesAt(d, i)' = PlacesAt(d, i)
                     /\ LivesIn(Subject(d), room[d])' = LivesIn(Subject(d), room[d])
      BY <1>0 DEF Placing, Subject, PlacesAt, LivesIn
<1>4. Rooted'
      BY <1>0 DEF ResidenceInv, Rooted
<1>5. \A i \in Avatars : ResidesIn(seen[c], i)
  <2>1. Running(c)
        BY <1>0 DEF Running
  <2>2. Reads(c)
        BY <1>0, <2>1 DEF SerialInv
  <2> QED BY <1>0, <2>2 DEF Reads, ResidenceInv
<1>6. ASSUME NEW d \in Commands, pc'[d] = "write", NEW i \in Avatars, ~PlacesAt(d, i)
      PROVE  ResidesIn(seen[d], i)'
  <2>1. ResidesIn(seen[d], i) /\ seen' = seen
        BY <1>0, <1>1, <1>5, <1>6 DEF ResidenceInv, All
  <2> QED BY <1>2, <2>1
<1>7. ASSUME NEW d \in All, Placing(d), pc'[d] = "bridge" PROVE Settling(d)'
  <2>1. Settling(d)
        BY <1>1, <1>7 DEF ResidenceInv
  <2> QED BY <1>0, <2>1, SettlingKept
<1>8. ASSUME NEW d \in All, Placing(d), pc'[d] \in {"promote", "write"}
      PROVE  LivesIn(Subject(d), room[d])'
      BY <1>0, <1>1, <1>3, <1>8 DEF ResidenceInv
<1>9. \A d \in All : Placing(d) => room'[d] \in Fps /\ room'[d].kind = "room"
      BY <1>0 DEF ResidenceInv
<1> QED BY <1>0, <1>3, <1>4, <1>6, <1>7, <1>8, <1>9 DEF ResidenceInv, Avatars, All

LEMMA ResidenceWrite ==
    ASSUME MirrorInv, SerialInv, HomeInv, ResidenceInv, NEW c \in All, WriteBundle(c)
    PROVE  ResidenceInv'
<1> USE DEF args
<1> DEFINE e == Envelopes(c)
           s == seen[c]
<1>0. /\ pc[c] = "write" /\ pc' = [pc EXCEPT ![c] = "done"]
      /\ UNCHANGED <<args, todo, db>>
      BY DEF WriteBundle, Unpromoted, Exit, Goto
<1>1. /\ c \in Commands /\ c # Mint /\ s \in Seq(Fps) /\ e \in Seq(Fps)
      /\ \A f \in LinesOf(e) : f.of = c
      /\ \A f \in LinesOf(s) : f.of # c
      /\ Action(c) \in LinesOf(e)
      /\ bundle' = s \o e
      BY WriteAppends DEF MirrorInv, Reads
<1>2. pc'[c] = "done" /\ \A d \in All \ {c} : pc'[d] = pc[d]
      BY <1>0 DEF MirrorInv, TypeOK
<1>3. \A x, i : ResidesIn(x, i) => ResidesIn(x, i)'
      BY <1>0, <1>2, ResidesKept
<1>4. \A d \in All : /\ Placing(d)' = Placing(d) /\ Subject(d)' = Subject(d)
                     /\ \A i : PlacesAt(d, i)' = PlacesAt(d, i)
                     /\ LivesIn(Subject(d), room[d])' = LivesIn(Subject(d), room[d])
      BY <1>0 DEF Placing, Subject, PlacesAt, LivesIn
<1>5. Rooted'
      BY <1>0 DEF ResidenceInv, Rooted
<1>6. ActsOf(s \o e) = ActsOf(s) \cup {c} /\ c \notin ActsOf(s)
      BY <1>1, ActsAppend
<1> HIDE DEF e
<1>7. ASSUME NEW i \in Avatars PROVE ResidesIn(s \o e, i)
  <2> DEFINE R == PlacedBy(s, i)
  <2>1. R \in SUBSET All /\ c \notin R
        BY <1>6 DEF PlacedBy, ActsOf
  <2>2. PlacedBy(s \o e, i) = IF PlacesAt(c, i) THEN R \cup {c} ELSE R
        BY <1>1, <1>6 DEF PlacedBy
  <2>3. /\ \A x : LastOf(s, x, R) => LastOf(s \o e, x, R)
        /\ LastOf(s \o e, c, R \cup {c})
        BY <1>1, <2>1, LastAppend
  <2>4. CASE PlacesAt(c, i)
    <3>1. Placing(c) /\ Subject(c) = i
          BY <2>4 DEF PlacesAt
    <3>2. LivesIn(i, room[c])
          BY <1>0, <3>1 DEF ResidenceInv
    <3>3. \A y : LivesIn(i, y) <=> y = room[c]
          BY <3>2 DEF HomeInv, SingleHome, LivesIn
    <3> QED BY <2>2, <2>3, <2>4, <3>3 DEF ResidesIn
  <2>5. CASE ~PlacesAt(c, i)
    <3>1. ResidesIn(s, i)
          BY <1>0, <1>1, <1>7, <2>5 DEF ResidenceInv
    <3>2. \A d \in Commands : Unplaced(s, i, d) => Unplaced(s \o e, i, d)
          BY <1>6, <2>5 DEF Unplaced
    <3> HIDE DEF R
    <3>3. PlacedBy(s \o e, i) = PlacedBy(s, i)
          BY <2>2, <2>5 DEF R
    <3>4. \A x : LastOf(s, x, PlacedBy(s, i)) => LastOf(s \o e, x, PlacedBy(s, i))
          BY <2>3 DEF R
    <3> HIDE DEF s
    <3> QED BY <3>1, <3>2, <3>3, <3>4 DEF ResidesIn
  <2> QED BY <2>4, <2>5
<1>8. \A i \in Avatars : ResidesIn(bundle, i)'
  <2>1. PICK t : t = s \o e
        OBVIOUS
  <2>2. \A i \in Avatars : ResidesIn(t, i)'
        BY <1>3, <1>7, <2>1
  <2> QED BY <1>1, <2>1, <2>2
<1>9. ASSUME NEW d \in Commands, pc'[d] = "write", NEW i \in Avatars, ~PlacesAt(d, i)
      PROVE  ResidesIn(seen[d], i)'
  <2>1. ResidesIn(seen[d], i) /\ seen' = seen
        BY <1>0, <1>2, <1>9 DEF ResidenceInv, All
  <2> QED BY <1>3, <2>1
<1>10. ASSUME NEW d \in All, Placing(d), pc'[d] = "bridge" PROVE Settling(d)'
  <2>1. Settling(d)
        BY <1>2, <1>10 DEF ResidenceInv
  <2> QED BY <1>0, <2>1, SettlingKept
<1>11. ASSUME NEW d \in All, Placing(d), pc'[d] \in {"promote", "write"}
       PROVE  LivesIn(Subject(d), room[d])'
       BY <1>0, <1>2, <1>4, <1>11 DEF ResidenceInv
<1>12. \A d \in All : Placing(d) => room'[d] \in Fps /\ room'[d].kind = "room"
       BY <1>0 DEF ResidenceInv
<1> QED BY <1>4, <1>5, <1>8, <1>9, <1>10, <1>11, <1>12 DEF ResidenceInv, Avatars, All

LEMMA ResidenceInstall ==
    ASSUME MirrorInv, ResidenceInv, InstallBundle
    PROVE  ResidenceInv'
<1> USE DEF args
<1>0. /\ Mint \in All /\ pc[Mint] = "promote" /\ bundle' = MintLines
      /\ pc' = [pc EXCEPT ![Mint] = "keys"] /\ UNCHANGED <<args, todo, db>>
      BY DEF InstallBundle, Unpromoted, Goto, All
<1>1. pc'[Mint] = "keys" /\ \A d \in All \ {Mint} : pc'[d] = pc[d]
      BY <1>0 DEF MirrorInv, TypeOK
<1>2. \A s, i : ResidesIn(s, i) => ResidesIn(s, i)'
      BY <1>0, <1>1, ResidesKept
<1>3. \A d \in All : /\ Placing(d)' = Placing(d) /\ Subject(d)' = Subject(d)
                     /\ \A i : PlacesAt(d, i)' = PlacesAt(d, i)
                     /\ LivesIn(Subject(d), room[d])' = LivesIn(Subject(d), room[d])
      BY <1>0 DEF Placing, Subject, PlacesAt, LivesIn
<1>4. Rooted'
      BY <1>0 DEF ResidenceInv, Rooted
<1>5. \A i \in Avatars : ResidesIn(bundle, i)'
  <2>1. \A i : PlacedBy(MintLines, i) = {}
        BY MintLinesActs, VaultCommandsAssumption DEF PlacedBy
  <2>2. \A i : ResidesIn(MintLines, i)
        BY <2>1 DEF ResidesIn
  <2>3. PICK t : t = MintLines
        OBVIOUS
  <2>4. \A i : ResidesIn(t, i)'
        BY <1>2, <2>2, <2>3
  <2> QED BY <1>0, <2>3, <2>4
<1>6. ASSUME NEW d \in Commands, pc'[d] = "write", NEW i \in Avatars, ~PlacesAt(d, i)
      PROVE  ResidesIn(seen[d], i)'
  <2>1. ResidesIn(seen[d], i) /\ seen' = seen
        BY <1>0, <1>1, <1>6 DEF ResidenceInv, All
  <2> QED BY <1>2, <2>1
<1>7. ASSUME NEW d \in All, Placing(d), pc'[d] = "bridge" PROVE Settling(d)'
  <2>1. Settling(d)
        BY <1>1, <1>7 DEF ResidenceInv
  <2> QED BY <1>0, <2>1, SettlingKept
<1>8. ASSUME NEW d \in All, Placing(d), pc'[d] \in {"promote", "write"}
      PROVE  LivesIn(Subject(d), room[d])'
      BY <1>0, <1>1, <1>3, <1>8 DEF ResidenceInv
<1>9. \A d \in All : Placing(d) => room'[d] \in Fps /\ room'[d].kind = "room"
      BY <1>0 DEF ResidenceInv
<1> QED BY <1>3, <1>4, <1>5, <1>6, <1>7, <1>8, <1>9 DEF ResidenceInv, Avatars, All

LEMMA ResidenceInit == Init => ResidenceInv
BY DEF Init, ResidenceInv, Rooted, Placing, All

LEMMA ResidenceStep ==
    ASSUME MirrorInv, SerialInv, HeadInv, HomeInv, HomeInv', ResidenceInv, [Next]_vars
    PROVE  ResidenceInv'
<1> USE DEF files, Goto, RollBack, Exit
<1>1. CASE UNCHANGED vars
      BY <1>1, ResidenceSame DEF vars
<1>2. CASE StartMint
  <2>1. /\ Mint \in All /\ pc[Mint] = "idle" /\ pc' = [pc EXCEPT ![Mint] = "staged"]
        /\ UNCHANGED <<bundle, args, todo, db>>
        BY <1>2 DEF StartMint, CanStart, All
  <2> QED BY <2>1, ResidencePlain
<1>3. CASE InstallBundle
      BY <1>3, ResidenceInstall
<1>4. CASE InstallKeys
  <2>1. /\ Mint \in All /\ pc' = [pc EXCEPT ![Mint] = "done"]
        /\ UNCHANGED <<bundle, args, todo, db>>
        BY <1>4 DEF InstallKeys, All
  <2> QED BY <2>1, ResidencePlain
<1>5. ASSUME NEW c \in All, CommandStep(c) PROVE ResidenceInv'
  <2>1. CASE \/ Refuse(c) \/ BridgeRefuses(c) \/ BridgeFails(c) \/ BridgeExits(c)
             \/ FileFails(c) \/ Die(c)
    <3>1. PICK p \in {"promote", "done", "dead"} :
            /\ pc' = [pc EXCEPT ![c] = p]
            /\ p = "promote" => pc[c] = "bridge" /\ todo[c] = <<>>
            /\ UNCHANGED <<bundle, args, todo, db>>
          BY <2>1 DEF Refuse, BridgeRefuses, BridgeFails, BridgeExits, FileFails, Die
    <3> QED BY <3>1, ResidencePlain
  <2>2. CASE StartAny(c)
    <3>1. c \in Commands
          BY <1>5, <2>2 DEF StartAny, StartAddRoom, StartInscribe, StartMove, StartRename, Start, All
    <3> QED BY <2>2, <3>1, ResidenceStart
  <2>3. CASE OpenStore(c)
        BY <1>5, <2>3, ResidenceOpen
  <2>4. CASE BridgeQuery(c)
        BY <1>5, <2>4, ResidenceQuery
  <2>5. CASE SkipAqueduct(c)
        BY <1>5, <2>5, ResidenceSkip
  <2>6. CASE Promote(c)
    <3>1. UNCHANGED <<bundle, args, todo, db, pc>>
          BY <2>6 DEF Promote
    <3> QED BY <3>1, ResidenceSame
  <2>7. CASE TruncateBundle(c)
        BY <1>5, <2>7, ResidenceTruncate
  <2>8. CASE WriteBundle(c)
        BY <1>5, <2>8, ResidenceWrite
  <2> QED BY <1>5, <2>1, <2>2, <2>3, <2>4, <2>5, <2>6, <2>7, <2>8 DEF CommandStep
<1> QED BY <1>1, <1>2, <1>3, <1>4, <1>5 DEF Next

\* One command at a time: the graph has an avatar in the room of the last command of
\* the bundle that placed it, or where a command that did not reach the bundle was
\* taking it, and only such a command leaves it without a room.
THEOREM VaultResidenceRecorded == ASSUME MaxAlive = 1 PROVE Spec => []ResidenceRecorded
<1>1. MirrorInv /\ ResidenceInv => ResidenceRecorded
  <2> SUFFICES ASSUME MirrorInv, ResidenceInv, NEW i \in Avatars, Placements(i) # {}
               PROVE  LET Now == Homes(i)
                          Pending == {c \in Commands : Unrecorded(c) /\ (avatar[c] = i \/ i.of = c)}
                      IN  \/ Now = {room[Last(Placements(i))]}
                          \/ Pending # {} /\ Now \subseteq {room[c] : c \in Pending}
      BY DEF ResidenceRecorded, Avatars
  <2>1. \A c \in Commands : Recorded(c) <=> c \in ActsOf(bundle)
        BY DEF Recorded, ActsOf, All
  <2>2. Placements(i) = PlacedBy(bundle, i)
        BY <2>1 DEF Placements, PlacedBy, PlacesAt, Placing, Subject
  <2>3. \A r : r \in Homes(i) <=> LivesIn(i, r)
        BY DEF Homes, LivesIn, ResidenceInv, Rooted
  <2>4. ResidesIn(bundle, i)
    <3>1. bundle # <<>>
          BY <2>2 DEF PlacedBy, ActsOf, LinesOf
    <3> QED BY <3>1 DEF ResidenceInv
  <2>5. ASSUME NEW d \in Commands, Unplaced(bundle, i, d)
        PROVE  Unrecorded(d) /\ (avatar[d] = i \/ i.of = d)
        BY <2>1, <2>5, FpFields DEF Unplaced, Unrecorded, PlacesAt, Subject
  <2>6. CASE \E x \in All : LastOf(bundle, x, PlacedBy(bundle, i)) /\ \A y : LivesIn(i, y) <=> y = room[x]
    <3>1. PICK x \in All : LastOf(bundle, x, Placements(i)) /\ \A y : LivesIn(i, y) <=> y = room[x]
          BY <2>2, <2>6
    <3>2. Placements(i) \in SUBSET ActsOf(bundle) /\ bundle \in Seq(Fps)
          BY <2>2 DEF PlacedBy, MirrorInv, TypeOK
    <3>3. Last(Placements(i)) = x
          BY <3>1, <3>2, LastChosen
    <3>4. Homes(i) = {room[x]}
          BY <2>3, <3>1
    <3> QED BY <3>3, <3>4
  <2>7. CASE /\ \E d \in Commands : Unplaced(bundle, i, d)
             /\ \A y : LivesIn(i, y) => \E d \in Commands : Unplaced(bundle, i, d) /\ y = room[d]
        BY <2>3, <2>5, <2>7
  <2> QED BY <2>2, <2>4, <2>6, <2>7 DEF ResidesIn
<1>2. Spec => []ResidenceInv
      BY SerialInvariant, HeadInvariant, HomeInvariant, ResidenceInit, ResidenceStep,
         MirrorInvariant, PTL DEF Spec
<1> QED BY <1>1, <1>2, MirrorInvariant, PTL

-----------------------------------------------------------------------------
(* The verifier, with any number of commands at once.  However commands     *)
(* overwrite each other's lines, a line stays at the place its command has  *)
(* chosen when it read the bundle, behind every line it read.  The bundle   *)
(* may lose an action in this way, but what is the last timeline is the one *)
(* no remaining action has read.                                            *)

Headed(s) == Len(s) >= 6 /\ \A i \in 1 .. 6 : s[i] = MintLines[i]

\* Where the timeline of a command is in every bundle that has it.
PlaceOf(c, read, did) ==
    IF c = Mint THEN 6 ELSE Len(read[c]) + (IF did[c] = "move" THEN 2 ELSE 3)

InOrder(s, read, did) ==
    \A i \in DOMAIN s :
        /\ s[i].kind = "oracle" => i = 2
        /\ s[i].kind = "action" => i + 1 \in DOMAIN s /\ s[i + 1] = Fp("timeline", s[i].of)
        /\ s[i].kind = "timeline" => i = PlaceOf(s[i].of, read, did)

\* Lines that begin with the manifest of mint and are in their places.
Ordered(s, read, did) == s = <<>> \/ (Headed(s) /\ InOrder(s, read, did))

\* A command has read such lines, and follows actions whose timelines it read.
Follows(c) ==
    /\ Ordered(seen[c], seen, verb)
    /\ pc[c] \in Working \/ verb[c] # "mint" => c = Mint \/ seen[c] # <<>>
    /\ pc[c] = "write" => c # Mint
    /\ \A h \in parents[c] : h = Action(h.of) /\ Fp("timeline", h.of) \in LinesOf(seen[c])

OrderInv ==
    /\ Ordered(bundle, seen, verb)
    /\ seen[Mint] = <<>>
    /\ \A c \in All : Follows(c)

\* The places depend only on the commands that have lines.
LEMMA OrderKept ==
    ASSUME NEW s \in Seq(Fps), NEW read, NEW did, NEW read2, NEW did2,
           \A f \in LinesOf(s) : read2[f.of] = read[f.of] /\ did2[f.of] = did[f.of],
           Ordered(s, read, did)
    PROVE  Ordered(s, read2, did2)
<1>1. \A i \in DOMAIN s : PlaceOf(s[i].of, read2, did2) = PlaceOf(s[i].of, read, did)
      BY DEF PlaceOf, LinesOf
<1> QED BY <1>1 DEF Ordered, InOrder

LEMMA MintLinesOrdered == ASSUME NEW read, NEW did PROVE Ordered(MintLines, read, did)
<1>1. /\ Len(MintLines) = 6 /\ DOMAIN MintLines = 1 .. 6
      /\ MintLines[1] = Palace /\ MintLines[2] = Oracle /\ MintLines[3] = Genesis
      /\ MintLines[4] = Fp("registry", Mint) /\ MintLines[5] = Action(Mint)
      /\ MintLines[6] = Fp("timeline", Mint)
      BY DEF MintLines
<1>2. /\ Palace.kind = "palace" /\ Oracle.kind = "oracle" /\ Genesis.kind = "mythos"
      /\ Fp("registry", Mint).kind = "registry"
      /\ Action(Mint).kind = "action" /\ Action(Mint).of = Mint
      /\ Fp("timeline", Mint).kind = "timeline" /\ Fp("timeline", Mint).of = Mint
      BY FpFields DEF Palace, Oracle, Genesis, Action
<1>3. \A i \in 1 .. 6 : i \in {1, 2, 3, 4, 5, 6}
      OBVIOUS
<1>4. ASSUME NEW i \in 1 .. 6
      PROVE  /\ MintLines[i].kind = "oracle" => i = 2
             /\ MintLines[i].kind = "action" => /\ i + 1 \in 1 .. 6
                                                /\ MintLines[i + 1] = Fp("timeline", MintLines[i].of)
             /\ MintLines[i].kind = "timeline" => i = 6 /\ MintLines[i].of = Mint
  <2>1. CASE i = 5
        BY <1>1, <1>2, <2>1
  <2>2. CASE i # 5
        BY <1>1, <1>2, <1>3, <2>2
  <2> QED BY <2>1, <2>2
<1>5. InOrder(MintLines, read, did)
      BY <1>1, <1>4 DEF InOrder, PlaceOf
<1> QED BY <1>1, <1>5 DEF Ordered, Headed

\* What a command other than mint adds: its timeline comes after its action.
LEMMA EnvelopesOrdered ==
    ASSUME NEW c \in All, verb[c] \in AllVerbs \ {"mint"}, own[c] \in BOOLEAN
    PROVE  \A i \in 1 .. Len(Envelopes(c)) :
              LET f == Envelopes(c)[i]
              IN  /\ f.kind # "oracle"
                  /\ f.kind = "action" => /\ i + 1 \in 1 .. Len(Envelopes(c))
                                          /\ Envelopes(c)[i + 1] = Fp("timeline", f.of)
                  /\ f.kind = "timeline" => i = (IF verb[c] = "move" THEN 2 ELSE 3)
<1> DEFINE Of(k) == Fp(k, c)
<1>0. /\ \A k : Of(k).kind = k /\ Of(k).of = c /\ Of(k) = Fp(k, Of(k).of)
      /\ \A k \in Kinds : Of(k) \in Fps
      BY FpTyped, FpFields DEF Of
<1> HIDE DEF Of
<1>1. CASE verb[c] = "move"
  <2>1. Envelopes(c) = <<Of("action"), Of("timeline")>>
        BY <1>1 DEF Envelopes, Of
  <2> QED BY <1>0, <1>1, <2>1
<1>2. CASE verb[c] = "rename-mythos"
  <2>1. Envelopes(c) = <<Of("mythos"), Of("action"), Of("timeline")>>
        BY <1>2 DEF Envelopes, Of
  <2> QED BY <1>0, <1>2, <2>1
<1>3. CASE verb[c] \in {"add-room", "inscribe", "inscribe-via"}
  <2>1. PICK k \in {"room", "inscription"} :
           Envelopes(c) = <<Of(k), Of("action"), Of("timeline")>>
                          \o (IF own[c] THEN <<Of("mythos")>> ELSE <<>>)
        BY <1>3 DEF Envelopes, Of
  <2> DEFINE s == <<Of(k), Of("action"), Of("timeline")>>
             t == IF own[c] THEN <<Of("mythos")>> ELSE <<>>
  <2>2. s \in Seq(Fps) /\ Len(s) = 3 /\ s[1] = Of(k) /\ s[2] = Of("action")
        /\ s[3] = Of("timeline")
        BY <1>0 DEF Kinds
  <2>3. t \in Seq(Fps) /\ Len(t) \in {0, 1} /\ (Len(t) = 1 => t[1] = Of("mythos"))
        BY <1>0 DEF Kinds
  <2> HIDE DEF s, t
  <2>4. /\ Len(s \o t) = 3 + Len(t)
        /\ \A i \in 1 .. 3 + Len(t) : (s \o t)[i] = IF i <= 3 THEN s[i] ELSE t[i - 3]
    <3>1. /\ Len(s \o t) = Len(s) + Len(t)
          /\ \A i \in 1 .. Len(s) + Len(t) :
                (s \o t)[i] = IF i <= Len(s) THEN s[i] ELSE t[i - Len(s)]
          BY <2>2, <2>3, ConcatProperties
    <3> QED BY <2>2, <3>1
  <2>5. Envelopes(c) = s \o t
        BY <2>1 DEF s, t
  <2>6. /\ Len(Envelopes(c)) \in {3, 4}
        /\ Envelopes(c)[1] = Of(k) /\ Envelopes(c)[2] = Of("action")
        /\ Envelopes(c)[3] = Of("timeline")
        /\ Len(Envelopes(c)) = 4 => Envelopes(c)[4] = Of("mythos")
        BY <2>2, <2>3, <2>4, <2>5
  <2> DEFINE e == Envelopes(c)
  <2> HIDE DEF e
  <2>7. /\ Len(e) \in {3, 4} /\ e[1] = Of(k) /\ e[2] = Of("action") /\ e[3] = Of("timeline")
        /\ Len(e) = 4 => e[4] = Of("mythos")
        BY <2>6 DEF e
  <2>8. ASSUME NEW i \in 1 .. Len(e)
        PROVE  /\ e[i].kind # "oracle"
               /\ e[i].kind = "action" => i + 1 \in 1 .. Len(e) /\ e[i + 1] = Fp("timeline", e[i].of)
               /\ e[i].kind = "timeline" => i = 3
    <3>1. i = 1 \/ i = 2 \/ i = 3 \/ (i = 4 /\ Len(e) = 4)
      <4>1. CASE Len(e) = 3
            BY <4>1
      <4>2. CASE Len(e) = 4
            BY <4>2
      <4> QED BY <2>7, <4>1, <4>2
    <3>2. CASE i = 2
          BY <1>0, <2>7, <3>2
    <3>3. CASE i # 2
          BY <1>0, <2>7, <3>1, <3>3
    <3> QED BY <3>2, <3>3
  <2>9. verb[c] # "move"
        BY <1>3
  <2> QED BY <2>8, <2>9 DEF e
<1>4. verb[c] \in {"move", "rename-mythos", "add-room", "inscribe", "inscribe-via"}
      BY DEF AllVerbs
<1> QED BY <1>1, <1>2, <1>3, <1>4

\* A command that read lines in order adds its own in order.
LEMMA OrderAppends ==
    ASSUME NEW s \in Seq(Fps), NEW e \in Seq(Fps), NEW c \in All, c # Mint,
           NEW read, NEW did, read[c] = s, s # <<>>, Ordered(s, read, did),
           \A i \in 1 .. Len(e) :
              /\ e[i].of = c /\ e[i].kind # "oracle"
              /\ e[i].kind = "action" => i + 1 \in 1 .. Len(e) /\ e[i + 1] = Fp("timeline", c)
              /\ e[i].kind = "timeline" => i = (IF did[c] = "move" THEN 2 ELSE 3)
    PROVE  s \o e \in Seq(Fps) /\ Headed(s \o e) /\ InOrder(s \o e, read, did)
<1> DEFINE u == s \o e
<1>1. /\ u \in Seq(Fps) /\ Len(u) = Len(s) + Len(e)
      /\ \A i \in 1 .. Len(s) + Len(e) : u[i] = IF i <= Len(s) THEN s[i] ELSE e[i - Len(s)]
      BY ConcatProperties
<1> HIDE DEF u
<1>2. /\ DOMAIN u = 1 .. Len(s) + Len(e) /\ DOMAIN s = 1 .. Len(s)
      /\ Len(s) \in Nat /\ Len(e) \in Nat
      BY <1>1
<1>3. Headed(s) /\ InOrder(s, read, did)
      BY DEF Ordered
<1>4. Headed(u)
      BY <1>1, <1>2, <1>3 DEF Headed
<1>5. ASSUME NEW i \in 1 .. Len(s) + Len(e)
      PROVE  /\ u[i].kind = "oracle" => i = 2
             /\ u[i].kind = "action" => /\ i + 1 \in 1 .. Len(s) + Len(e)
                                        /\ u[i + 1] = Fp("timeline", u[i].of)
             /\ u[i].kind = "timeline" => i = PlaceOf(u[i].of, read, did)
  <2>1. CASE i <= Len(s)
    <3>1. u[i] = s[i] /\ i \in DOMAIN s
          BY <1>1, <1>2, <2>1
    <3>2. i + 1 \in DOMAIN s => u[i + 1] = s[i + 1]
          BY <1>1, <1>2
    <3> QED BY <1>2, <1>3, <3>1, <3>2 DEF InOrder
  <2>2. CASE i > Len(s)
    <3>1. PICK j \in 1 .. Len(e) : j = i - Len(s)
          BY <1>2, <2>2
    <3>2. u[i] = e[j] /\ i = Len(s) + j
          BY <1>1, <1>2, <2>2, <3>1
    <3>3. j + 1 \in 1 .. Len(e) => u[i + 1] = e[j + 1] /\ i + 1 \in 1 .. Len(s) + Len(e)
          BY <1>1, <1>2, <3>2
    <3>4. e[j].kind = "timeline" => i = PlaceOf(e[j].of, read, did)
          BY <3>2 DEF PlaceOf
    <3>5. e[j].kind = "action" => /\ i + 1 \in 1 .. Len(s) + Len(e)
                                  /\ u[i + 1] = Fp("timeline", c)
          BY <3>3
    <3>6. e[j].kind # "oracle" /\ e[j].of = c
          OBVIOUS
    <3> QED BY <3>2, <3>4, <3>5, <3>6
  <2> QED BY <1>2, <2>1, <2>2
<1> QED BY <1>1, <1>2, <1>4, <1>5 DEF InOrder, u

\* Lines in order written over lines in order are in order.
LEMMA OrderOverlays ==
    ASSUME NEW s \in Seq(Fps), NEW t \in Seq(Fps), NEW read, NEW did,
           Headed(s), InOrder(s, read, did), Ordered(t, read, did)
    PROVE  Ordered(Overlay(s, t), read, did)
<1> DEFINE u == Overlay(s, t)
<1>1. /\ u \in Seq(Fps)
      /\ Len(u) = IF Len(t) > Len(s) THEN Len(t) ELSE Len(s)
      /\ \A i \in 1 .. Len(u) : u[i] = IF i <= Len(s) THEN s[i] ELSE t[i]
      BY OverlayAt
<1> HIDE DEF u
<1>2. /\ DOMAIN u = 1 .. Len(u) /\ DOMAIN s = 1 .. Len(s) /\ DOMAIN t = 1 .. Len(t)
      /\ Len(s) \in Nat /\ Len(t) \in Nat
      BY <1>1
<1>3. Headed(u)
      BY <1>1, <1>2 DEF Headed
<1>4. ASSUME NEW i \in 1 .. Len(u)
      PROVE  /\ u[i].kind = "oracle" => i = 2
             /\ u[i].kind = "action" => /\ i + 1 \in 1 .. Len(u)
                                        /\ u[i + 1] = Fp("timeline", u[i].of)
             /\ u[i].kind = "timeline" => i = PlaceOf(u[i].of, read, did)
  <2>1. CASE i <= Len(s)
    <3>1. u[i] = s[i] /\ i \in DOMAIN s
          BY <1>1, <1>2, <2>1
    <3>2. i + 1 \in DOMAIN s => i + 1 \in 1 .. Len(u) /\ u[i + 1] = s[i + 1]
          BY <1>1, <1>2
    <3> QED BY <3>1, <3>2 DEF InOrder
  <2>2. CASE i > Len(s)
    <3>1. u[i] = t[i] /\ i \in DOMAIN t
          BY <1>1, <1>2, <2>2
    <3>2. InOrder(t, read, did)
          BY <3>1, <1>2 DEF Ordered
    <3>3. i + 1 \in DOMAIN t => i + 1 \in 1 .. Len(u) /\ u[i + 1] = t[i + 1]
          BY <1>1, <1>2, <2>2
    <3> QED BY <3>1, <3>2, <3>3 DEF InOrder
  <2> QED BY <1>2, <2>1, <2>2
<1> QED BY <1>2, <1>3, <1>4 DEF Ordered, InOrder, u

-----------------------------------------------------------------------------
\* Every step keeps the order.

LEMMA OrderRewrite ==
    ASSUME OrderInv, pc \in [All -> Steps], NEW c \in All, NEW p \in Steps,
           Ordered(bundle', seen, verb), UNCHANGED args,
           pc' = [pc EXCEPT ![c] = p],
           p \in Working => pc[c] \in Working \/ c = Mint,
           p = "write" => c # Mint
    PROVE  OrderInv'
<1>1. UNCHANGED <<seen, verb, parents>>
      BY DEF args
<1>2. ASSUME NEW d \in All
      PROVE  /\ pc'[d] \in Working \/ verb[d] # "mint" => d = Mint \/ seen[d] # <<>>
             /\ pc'[d] = "write" => d # Mint
      BY DEF OrderInv, Follows
<1>3. \A d \in All : Follows(d)'
      BY <1>1, <1>2 DEF OrderInv, Follows
<1>4. Ordered(bundle, seen, verb)'
      BY <1>1
<1> QED BY <1>1, <1>3, <1>4 DEF OrderInv

LEMMA OrderQuiet ==
    ASSUME OrderInv, pc \in [All -> Steps], NEW c \in All, NEW p \in Steps \ {"write"},
           UNCHANGED <<bundle, args>>,
           pc' = [pc EXCEPT ![c] = p],
           p \in Working => pc[c] \in Working \/ c = Mint
    PROVE  OrderInv'
<1>1. Ordered(bundle', seen, verb)
      BY DEF OrderInv
<1> QED BY <1>1, OrderRewrite

LEMMA OrderSilent ==
    ASSUME OrderInv, UNCHANGED <<bundle, args, pc>>
    PROVE  OrderInv'
<1>1. UNCHANGED <<bundle, pc, seen, verb, parents>>
      BY DEF args
<1>2. \A d \in All : Follows(d)'
      BY <1>1 DEF OrderInv, Follows
<1> QED BY <1>1, <1>2 DEF OrderInv

\* The head is the action of a stored timeline among the lines.
LEMMA HeadsRead ==
    ASSUME NEW s \in Seq(Fps), LinesOf(s) \subseteq cas, Headed(s), NEW h \in Heads(s)
    PROVE  h = Action(h.of) /\ Fp("timeline", h.of) \in LinesOf(s)
<1> DEFINE Stamps == {i \in DOMAIN s : s[i].kind = "timeline" /\ s[i] \in cas}
           Final == {i \in Stamps : \A j \in Stamps : j <= i}
<1>1. s[6] = Fp("timeline", Mint) /\ 6 \in DOMAIN s
      BY DEF Headed, MintLines
<1>2. 6 \in Stamps
      BY <1>1, FpFields DEF LinesOf
<1>3. Heads(s) = {Action(s[i].of) : i \in Final}
      BY <1>2 DEF Heads
<1>4. PICK i \in Stamps : h = Action(s[i].of)
      BY <1>3
<1>5. s[i] \in Fps /\ s[i].kind = "timeline" /\ s[i] \in LinesOf(s)
      BY <1>4 DEF LinesOf
<1>6. s[i] = Fp("timeline", s[i].of)
      BY <1>5 DEF Fps, Fp
<1>7. h.of = s[i].of
      BY <1>4, FpFields DEF Action
<1> QED BY <1>4, <1>5, <1>6, <1>7

LEMMA OrderStart ==
    ASSUME VaultInv, OrderInv, NEW c \in Commands, NEW v \in AllVerbs \ {"mint"}, NEW m \in BOOLEAN,
           NEW r, NEW a, Start(c, v, m, r, a)
    PROVE  OrderInv'
<1>0. /\ c \in All /\ c # Mint /\ pc[c] = "idle" /\ bundle # <<>>
      /\ cas' = cas /\ bundle' = bundle
      /\ verb' = [verb EXCEPT ![c] = v]
      /\ seen' = [seen EXCEPT ![c] = bundle]
      /\ parents' = [parents EXCEPT ![c] = Heads(bundle)]
      /\ pc' = [pc EXCEPT ![c] = "staged"]
      BY VaultCommandsAssumption DEF Start, CanStart, Goto, All
<1>1. FilesTyped /\ LinesOf(bundle) \subseteq cas /\ \A d \in All : LinesOf(seen[d]) \subseteq cas
      BY DEF VaultInv, BundleResolves, ReadStored
<1>2. \A f \in cas : f.of \in All /\ f.of # c
      BY <1>0 DEF VaultInv, Fresh, FilesTyped, Fps
<1>3. ASSUME NEW s \in Seq(Fps), LinesOf(s) \subseteq cas, Ordered(s, seen, verb)
      PROVE  Ordered(s, seen', verb')
  <2>1. \A f \in LinesOf(s) : seen'[f.of] = seen[f.of] /\ verb'[f.of] = verb[f.of]
        BY <1>0, <1>1, <1>2, <1>3 DEF FilesTyped
  <2> QED BY <1>3, <2>1, OrderKept
<1>4. Ordered(bundle, seen', verb')
      BY <1>1, <1>3 DEF OrderInv, FilesTyped
<1>5. ASSUME NEW d \in All, d # c PROVE Follows(d)'
  <2>1. /\ seen'[d] = seen[d] /\ verb'[d] = verb[d] /\ pc'[d] = pc[d] /\ parents'[d] = parents[d]
        BY <1>0, <1>1, <1>5 DEF FilesTyped
  <2>2. Follows(d)
        BY DEF OrderInv
  <2>3. Ordered(seen[d], seen', verb')
        BY <1>1, <1>3, <2>2 DEF Follows, FilesTyped
  <2>4. LinesOf(seen'[d]) = LinesOf(seen[d])
        BY <2>1
  <2> QED BY <2>1, <2>2, <2>3, <2>4 DEF Follows
<1>6. Follows(c)'
  <2>1. /\ seen'[c] = bundle /\ pc'[c] = "staged" /\ parents'[c] = Heads(bundle)
        BY <1>0, <1>1 DEF FilesTyped
  <2>2. bundle \in Seq(Fps) /\ Headed(bundle)
        BY <1>0, <1>1 DEF OrderInv, Ordered, FilesTyped
  <2>3. \A h \in Heads(bundle) : h = Action(h.of) /\ Fp("timeline", h.of) \in LinesOf(bundle)
        BY <1>1, <2>2, HeadsRead
  <2> QED BY <1>0, <1>4, <2>1, <2>3 DEF Follows
<1>7. seen'[Mint] = <<>>
      BY <1>0, <1>1 DEF OrderInv, FilesTyped, All
<1> QED BY <1>0, <1>4, <1>5, <1>6, <1>7 DEF OrderInv

LEMMA OrderWrite ==
    ASSUME VaultInv, OrderInv, NEW c \in All, WriteBundle(c)
    PROVE  OrderInv'
<1> DEFINE e == Envelopes(c)
           s == seen[c]
<1>0. /\ pc[c] = "write" /\ bundle' = Overlay(s \o e, bundle)
      /\ pc' = [pc EXCEPT ![c] = "done"] /\ UNCHANGED args
      BY DEF WriteBundle, Unpromoted, Exit, Goto
<1>1. c # Mint /\ s # <<>> /\ Ordered(s, seen, verb) /\ verb[c] # "mint"
      BY <1>0 DEF OrderInv, Follows, VaultInv, Control, Working
<1>2. FilesTyped /\ verb[c] \in AllVerbs \ {"mint"} /\ own[c] \in BOOLEAN
      /\ s \in Seq(Fps) /\ bundle \in Seq(Fps)
      BY <1>1 DEF VaultInv, FilesTyped
<1>3. /\ e \in Seq(Fps)
      /\ \A i \in 1 .. Len(e) :
            /\ e[i].of = c /\ e[i].kind # "oracle"
            /\ e[i].kind = "action" => i + 1 \in 1 .. Len(e) /\ e[i + 1] = Fp("timeline", c)
            /\ e[i].kind = "timeline" => i = (IF verb[c] = "move" THEN 2 ELSE 3)
  <2>1. e \in Seq(Fps) /\ \A i \in 1 .. Len(e) : e[i].of = c
        BY <1>2, EnvelopesTyped
  <2>2. \A i \in 1 .. Len(e) :
            /\ e[i].kind # "oracle"
            /\ e[i].kind = "action" => i + 1 \in 1 .. Len(e) /\ e[i + 1] = Fp("timeline", e[i].of)
            /\ e[i].kind = "timeline" => i = (IF verb[c] = "move" THEN 2 ELSE 3)
        BY <1>2, EnvelopesOrdered
  <2> HIDE DEF e
  <2> QED BY <2>1, <2>2
<1> HIDE DEF e
<1>4. s \o e \in Seq(Fps) /\ Headed(s \o e) /\ InOrder(s \o e, seen, verb)
      BY <1>1, <1>2, <1>3, OrderAppends
<1>5. Ordered(bundle', seen, verb)
  <2>1. Ordered(bundle, seen, verb)
        BY DEF OrderInv
  <2> HIDE DEF s
  <2> QED BY <1>0, <1>2, <1>4, <2>1, OrderOverlays
<1> QED BY <1>0, <1>2, <1>5, OrderRewrite DEF Steps, Working, FilesTyped

LEMMA OrderInit == Init => OrderInv
BY DEF Init, OrderInv, Follows, Ordered, LinesOf, Working, All

LEMMA OrderStep == VaultInv /\ OrderInv /\ [Next]_vars => OrderInv'
<1> SUFFICES ASSUME VaultInv, OrderInv, [Next]_vars PROVE OrderInv'
    OBVIOUS
<1>0. pc \in [All -> Steps] /\ Mint \in All
      BY DEF VaultInv, FilesTyped, All
<1>1. CASE UNCHANGED vars
      BY <1>1, OrderSilent DEF vars, files
<1>2. CASE StartMint
  <2>1. pc' = [pc EXCEPT ![Mint] = "staged"] /\ UNCHANGED <<bundle, args>>
        BY <1>2 DEF StartMint, Goto
  <2> QED BY <1>0, <2>1, OrderQuiet DEF Steps
<1>3. CASE InstallBundle
  <2>1. /\ bundle' = MintLines /\ pc' = [pc EXCEPT ![Mint] = "keys"] /\ UNCHANGED args
        BY <1>3 DEF InstallBundle, Unpromoted, Goto
  <2>2. Ordered(bundle', seen, verb)
        BY <2>1, MintLinesOrdered
  <2> QED BY <1>0, <2>1, <2>2, OrderRewrite DEF Steps
<1>4. CASE InstallKeys
  <2>1. pc' = [pc EXCEPT ![Mint] = "done"] /\ UNCHANGED <<bundle, args>>
        BY <1>4 DEF InstallKeys, RollBack, Exit, Goto
  <2> QED BY <1>0, <2>1, OrderQuiet DEF Steps
<1>5. ASSUME NEW c \in All, CommandStep(c) PROVE OrderInv'
  <2> USE DEF files
  <2>1. CASE Refuse(c) \/ BridgeRefuses(c) \/ BridgeFails(c) \/ FileFails(c)
    <3>1. pc' = [pc EXCEPT ![c] = "done"] /\ UNCHANGED <<bundle, args>>
          BY <2>1 DEF Refuse, BridgeRefuses, BridgeFails, FileFails, RollBack, Exit, Goto
    <3> QED BY <1>0, <3>1, OrderQuiet DEF Steps, Working
  <2>2. CASE StartAny(c)
    <3>1. PICK v \in Verbs, m \in BOOLEAN, r \in Fps \cup {None}, a \in Fps \cup {None} :
             Start(c, v, m, r, a)
          BY <2>2 DEF StartAny, StartAddRoom, StartInscribe, StartMove, StartRename,
                       Known, Fps, Fp, Kinds, All
    <3>2. v \in AllVerbs \ {"mint"} /\ c \in Commands
          BY <3>1, VaultVerbsAssumption DEF Start, All
    <3> QED BY <3>1, <3>2, OrderStart
  <2>3. CASE OpenStore(c)
    <3>1. pc[c] = "staged" /\ pc' = [pc EXCEPT ![c] = "bridge"] /\ UNCHANGED <<bundle, args>>
          BY <2>3 DEF OpenStore, Goto
    <3> QED BY <1>0, <3>1, OrderQuiet DEF Steps, Working
  <2>4. CASE BridgeQuery(c) \/ SkipAqueduct(c)
    <3>1. UNCHANGED <<bundle, args, pc>>
          BY <2>4 DEF BridgeQuery, SkipAqueduct, Runs, CreateNode, CreateContains,
             CreateLivesIn, DeleteLivesIn, DropInscription, CreatePredecessor, DeleteHead,
             CreateHead, SetHeadColumn, ForgetHeads, CreateTriple, CreateKnowledge,
             AppendLog, MirrorAqueduct, CreateAqueduct, CreateEnd, Strengthen
    <3> QED BY <3>1, OrderSilent
  <2>5. CASE BridgeExits(c)
    <3>1. PICK p \in {"done", "promote"} :
             pc[c] = "bridge" /\ pc' = [pc EXCEPT ![c] = p] /\ UNCHANGED <<bundle, args>>
          BY <2>5 DEF BridgeExits, RollBack, Exit, Goto
    <3> QED BY <1>0, <3>1, OrderQuiet DEF Steps, Working
  <2>6. CASE Promote(c)
    <3>1. UNCHANGED <<bundle, args, pc>>
          BY <2>6 DEF Promote
    <3> QED BY <3>1, OrderSilent
  <2>7. CASE TruncateBundle(c)
    <3>1. /\ pc[c] = "promote" /\ c # Mint /\ bundle' = <<>>
          /\ pc' = [pc EXCEPT ![c] = "write"] /\ UNCHANGED args
          BY <2>7 DEF TruncateBundle, Unpromoted, Goto
    <3>2. Ordered(bundle', seen, verb)
          BY <3>1 DEF Ordered
    <3> QED BY <1>0, <3>1, <3>2, OrderRewrite DEF Steps, Working
  <2>8. CASE WriteBundle(c)
        BY <2>8, OrderWrite
  <2>9. CASE Die(c)
    <3>1. pc' = [pc EXCEPT ![c] = "dead"] /\ UNCHANGED <<bundle, args>>
          BY <2>9 DEF Die, Goto
    <3> QED BY <1>0, <3>1, OrderQuiet DEF Steps, Working
  <2> QED BY <1>5, <2>1, <2>2, <2>3, <2>4, <2>5, <2>6, <2>7, <2>8, <2>9 DEF CommandStep
<1> QED BY <1>1, <1>2, <1>3, <1>4, <1>5 DEF Next

LEMMA OrderInvariant == Spec => [](VaultInv /\ OrderInv)
<1>1. Init => VaultInv /\ OrderInv
      BY VaultInit, OrderInit
<1>2. VaultInv /\ OrderInv /\ [Next]_vars => (VaultInv /\ OrderInv)'
      BY VaultStep, OrderStep
<1> QED BY <1>1, <1>2, PTL DEF Spec

-----------------------------------------------------------------------------
\* The walk of mythos-chain.zig.  A recursive definition has a value when some
\* table satisfies its equation; the predecessor of a renamed mythos is always
\* the mint's, so a table of two levels does.

WalkPlaces == (0 .. DepthLimit) \X Fps \X Opt

\* What the walk finds at a place when w says what it finds further on.
FindsAt(w, depth, f, first) ==
    LET m == MythosFields(f)
    IN  IF depth = DepthLimit \/ f \notin cas THEN "unresolvable_predecessor"
        ELSE IF m.genesis /\ first # None THEN "multiple_genesis"
        ELSE IF m.predecessor = None
             THEN IF m.genesis THEN "ok" ELSE "unresolvable_predecessor"
             ELSE w[<<depth + 1, m.predecessor, IF m.genesis THEN f ELSE first>>]

IsTable(w) == w = [at \in WalkPlaces |-> FindsAt(w, at[1], at[2], at[3])]

Shallow ==
    /\ \A f \in Fps : MythosFields(f) \in {[genesis |-> TRUE, predecessor |-> None],
                                          [genesis |-> FALSE, predecessor |-> Genesis]}
    /\ MythosFields(Genesis).predecessor = None
    /\ DepthLimit \in Nat /\ DepthLimit > 1

LEMMA WalkIsTable == ASSUME NEW w, IsTable(w) PROVE IsTable(Walk)
<1>1. Walk = CHOOSE v : IsTable(v)
      BY DEF IsTable, Walk, WalkPlaces, Opt, FindsAt
<1>2. IsTable(CHOOSE v : IsTable(v))
      OBVIOUS
<1> QED BY <1>1, <1>2

LEMMA WalkDefined == ASSUME Shallow PROVE IsTable(Walk)
<1> DEFINE AtRoot(depth, first) ==
               IF depth = DepthLimit \/ Genesis \notin cas THEN "unresolvable_predecessor"
               ELSE IF first # None THEN "multiple_genesis" ELSE "ok"
           Finds(depth, f, first) ==
               IF depth = DepthLimit \/ f \notin cas THEN "unresolvable_predecessor"
               ELSE IF MythosFields(f).genesis
                    THEN IF first # None THEN "multiple_genesis" ELSE "ok"
                    ELSE AtRoot(depth + 1, first)
           w == [at \in WalkPlaces |-> Finds(at[1], at[2], at[3])]
<1>1. Genesis \in Fps /\ MythosFields(Genesis).genesis
      BY FpTyped, VerifyAssumption DEF Genesis, Kinds, All, Shallow
<1>2. \A depth \in 0 .. DepthLimit, first \in Opt :
         w[<<depth, Genesis, first>>] = AtRoot(depth, first)
  <2>1. \A depth \in 0 .. DepthLimit, first \in Opt : Finds(depth, Genesis, first) = AtRoot(depth, first)
        BY <1>1
  <2> HIDE DEF Finds
  <2> QED BY <1>1, <2>1 DEF WalkPlaces
<1> HIDE DEF w
<1>3. ASSUME NEW depth \in 0 .. DepthLimit, NEW f \in Fps, NEW first \in Opt
      PROVE  Finds(depth, f, first) = FindsAt(w, depth, f, first)
  <2>1. CASE depth = DepthLimit \/ f \notin cas
        BY <2>1 DEF FindsAt
  <2>2. CASE depth # DepthLimit /\ f \in cas /\ MythosFields(f).genesis
    <3>1. MythosFields(f).predecessor = None
          BY <2>2 DEF Shallow
    <3> QED BY <2>2, <3>1 DEF FindsAt
  <2>3. CASE depth # DepthLimit /\ f \in cas /\ ~ MythosFields(f).genesis
    <3>1. MythosFields(f).predecessor = Genesis /\ Genesis # None
          BY <2>3, <1>1, VerifyAssumption DEF Shallow
    <3>2. depth + 1 \in 0 .. DepthLimit
          BY <2>3 DEF Shallow
    <3>3. w[<<depth + 1, Genesis, first>>] = AtRoot(depth + 1, first)
          BY <1>2, <3>2
    <3> HIDE DEF AtRoot
    <3> QED BY <2>3, <3>1, <3>3 DEF FindsAt
  <2> QED BY <2>1, <2>2, <2>3
<1> HIDE DEF Finds
<1>4. \A at \in WalkPlaces : Finds(at[1], at[2], at[3]) = FindsAt(w, at[1], at[2], at[3])
  <2>1. \A at \in WalkPlaces : at[1] \in 0 .. DepthLimit /\ at[2] \in Fps /\ at[3] \in Opt
        BY DEF WalkPlaces
  <2> QED BY <1>3, <2>1
<1>5. w = [at \in WalkPlaces |-> Finds(at[1], at[2], at[3])]
      BY DEF w
<1>6. [at \in WalkPlaces |-> Finds(at[1], at[2], at[3])] = [at \in WalkPlaces |-> FindsAt(w, at[1], at[2], at[3])]
      BY <1>4
<1>7. IsTable(w)
      BY <1>5, <1>6 DEF IsTable
<1> QED BY <1>7, WalkIsTable

LEMMA WalkSteps ==
    ASSUME Shallow, NEW depth \in 0 .. DepthLimit, NEW f \in Fps, NEW first \in Opt
    PROVE  Walk[<<depth, f, first>>] = FindsAt(Walk, depth, f, first)
<1>1. <<depth, f, first>> \in WalkPlaces
      BY DEF WalkPlaces
<1>2. Walk = [at \in WalkPlaces |-> FindsAt(Walk, at[1], at[2], at[3])]
      BY WalkDefined DEF IsTable
<1> HIDE DEF WalkPlaces, FindsAt
<1> QED BY <1>1, <1>2

\* From a stored mythos the walk ends at the one genesis.
LEMMA WalkEnds ==
    ASSUME Shallow, Genesis \in cas, NEW f \in Fps, f \in cas
    PROVE  WalkToGenesis(f) = "ok"
<1>1. Genesis \in Fps /\ None \in Opt /\ MythosFields(Genesis) = [genesis |-> TRUE, predecessor |-> None]
      BY FpTyped, VerifyAssumption DEF Genesis, Kinds, All, Shallow, Opt
<1>2. 0 \in 0 .. DepthLimit /\ 1 \in 0 .. DepthLimit /\ DepthLimit # 0 /\ DepthLimit # 1
      BY DEF Shallow
<1>3. Walk[<<1, Genesis, None>>] = "ok"
  <2>1. Walk[<<1, Genesis, None>>] = FindsAt(Walk, 1, Genesis, None)
        BY <1>1, <1>2, WalkSteps
  <2> QED BY <1>1, <1>2, <2>1 DEF FindsAt
<1>4. Walk[<<0, f, None>>] = FindsAt(Walk, 0, f, None)
      BY <1>1, <1>2, WalkSteps
<1>5. CASE MythosFields(f) = [genesis |-> TRUE, predecessor |-> None]
      BY <1>2, <1>4, <1>5 DEF FindsAt, WalkToGenesis
<1>6. CASE MythosFields(f) = [genesis |-> FALSE, predecessor |-> Genesis]
  <2>1. Genesis # None
        BY <1>1, VerifyAssumption
  <2>2. FindsAt(Walk, 0, f, None) = Walk[<<0 + 1, Genesis, None>>]
        BY <1>2, <1>6, <2>1 DEF FindsAt
  <2>3. 0 + 1 = 1
        OBVIOUS
  <2> QED BY <1>3, <1>4, <2>2, <2>3 DEF WalkToGenesis
<1> QED BY <1>5, <1>6 DEF Shallow

-----------------------------------------------------------------------------
\* What the verifier checks.

LEMMA ChainsShallow == ASSUME VaultInv, OrderInv PROVE Shallow
<1>1. verb \in [All -> AllVerbs] /\ seen \in [All -> Seq(Fps)] /\ verb[Mint] = "mint" /\ Mint \in All
      BY DEF VaultInv, FilesTyped, Control, All
<1>2. ASSUME NEW f \in Fps
      PROVE  MythosFields(f) \in {[genesis |-> TRUE, predecessor |-> None],
                                  [genesis |-> FALSE, predecessor |-> Genesis]}
  <2>1. f.of \in All
        BY DEF Fps
  <2>2. CASE verb[f.of] # "rename-mythos"
        BY <2>2 DEF MythosFields
  <2>3. CASE verb[f.of] = "rename-mythos"
    <3>1. seen[f.of] # <<>> /\ Ordered(seen[f.of], seen, verb)
          BY <1>1, <2>1, <2>3 DEF OrderInv, Follows
    <3>2. Len(seen[f.of]) >= 6 /\ seen[f.of][3] = MintLines[3] /\ Len(seen[f.of]) \in Nat
          BY <1>1, <2>1, <3>1 DEF Ordered, Headed
    <3>3. Predecessor(f.of) = Genesis
          BY <3>2 DEF Predecessor, MintLines
    <3> QED BY <2>3, <3>3 DEF MythosFields
  <2> QED BY <2>2, <2>3
<1>3. MythosFields(Genesis).predecessor = None
      BY <1>1, FpFields DEF MythosFields, Genesis
<1>4. DepthLimit \in Nat /\ DepthLimit > 1
  <2>1. IsFiniteSet(All)
        BY VerifyAssumption, FS_AddElement DEF All
  <2>2. Cardinality(All) \in Nat /\ Cardinality(All) # 0
        BY <1>1, <2>1, FS_CardinalityType, FS_EmptySet
  <2> QED BY <2>2 DEF DepthLimit
<1> QED BY <1>2, <1>3, <1>4 DEF Shallow

\* The scanners see the kind of an envelope.
LEMMA TypesOfKinds ==
    ASSUME NEW f \in Fps
    PROVE  /\ EnvelopeType(f) = "action" <=> f.kind = "action"
           /\ EnvelopeType(f) = "timeline" <=> f.kind = "timeline"
           /\ EnvelopeType(f) = "agent" <=> f.kind = "oracle"
<1>1. f.kind \in Kinds
      BY DEF Fps
<1>2. CASE f.kind = "oracle"
      BY <1>2 DEF EnvelopeType
<1>3. CASE f.kind \in {"palace", "room"}
  <2>1. EnvelopeType(f) = "field"
        BY <1>3 DEF EnvelopeType
  <2> QED BY <1>3, <2>1
<1>4. CASE f.kind \notin {"oracle", "palace", "room"}
  <2>1. EnvelopeType(f) = f.kind
        BY <1>4 DEF EnvelopeType
  <2> QED BY <1>1, <1>4, <2>1 DEF Kinds
<1> QED BY <1>2, <1>3, <1>4

LEMMA ScannedLines ==
    ASSUME bundle \in Seq(Fps), LinesOf(bundle) \subseteq cas
    PROVE  /\ Scanned("action") = {i \in DOMAIN bundle : bundle[i].kind = "action"}
           /\ Scanned("timeline") = {i \in DOMAIN bundle : bundle[i].kind = "timeline"}
           /\ Scanned("agent") = {i \in DOMAIN bundle : bundle[i].kind = "oracle"}
<1>1. \A i \in DOMAIN bundle : bundle[i] \in Fps /\ bundle[i] \in cas
      BY DEF LinesOf
<1> QED BY <1>1, TypesOfKinds DEF Scanned

LEMMA HeadsFollowed ==
    ASSUME VaultInv, OrderInv, bundle # <<>>
    PROVE  HeadsAreLeaves
<1> SUFFICES ASSUME NEW P \in Scanned("timeline"), \A j \in Scanned("timeline") : j <= P,
                    NEW h \in HeadHashes(bundle[P])
             PROVE  h \in cas /\ EnvelopeType(h) = "action" /\ h \notin ReferencedAsParent
    BY DEF HeadsAreLeaves, LastLine
<1> DEFINE t == bundle[P].of
<1>1. /\ bundle \in Seq(Fps) /\ seen \in [All -> Seq(Fps)] /\ seen[Mint] = <<>>
      /\ LinesOf(bundle) \subseteq cas /\ InOrder(bundle, seen, verb)
      BY DEF VaultInv, FilesTyped, BundleResolves, OrderInv, Ordered
<1>2. /\ P \in DOMAIN bundle /\ bundle[P] \in Fps /\ bundle[P] \in cas
      /\ bundle[P].kind = "timeline" /\ t \in All
  <2>1. P \in DOMAIN bundle /\ bundle[P].kind = "timeline"
        BY <1>1, ScannedLines
  <2>2. bundle[P] \in Fps /\ bundle[P] \in cas
        BY <1>1, <2>1 DEF LinesOf
  <2> QED BY <2>1, <2>2 DEF Fps
<1>3. h = Action(t) /\ h.kind = "action" /\ h.of = t
      BY FpFields DEF HeadHashes, Action
<1>4. h \in cas
      BY <1>2, <1>3 DEF VaultInv, CasClosed, References
<1>5. P = PlaceOf(t, seen, verb)
      BY <1>1, <1>2 DEF InOrder
<1>6. ASSUME NEW i \in Scanned("action"), h \in ParentHashes(bundle[i])
      PROVE  FALSE
  <2> DEFINE a == bundle[i].of
  <2>1. /\ i \in DOMAIN bundle /\ bundle[i] \in Fps /\ bundle[i].kind = "action" /\ a \in All
    <3>1. i \in DOMAIN bundle /\ bundle[i].kind = "action"
          BY <1>1, ScannedLines
    <3>2. bundle[i] \in Fps
          BY <1>1, <3>1
    <3> QED BY <3>1, <3>2 DEF Fps
  <2>2. i + 1 \in DOMAIN bundle /\ bundle[i + 1] = Fp("timeline", a)
        BY <1>1, <2>1 DEF InOrder
  <2>3. i + 1 \in Scanned("timeline") /\ i + 1 = PlaceOf(a, seen, verb)
    <3>1. bundle[i + 1].kind = "timeline" /\ bundle[i + 1].of = a
          BY <2>2, FpFields
    <3> QED BY <1>1, <2>2, <3>1, ScannedLines DEF InOrder
  <2>4. Follows(a) /\ h \in parents[a]
        BY <1>6, <2>1 DEF OrderInv, ParentHashes
  <2>5. Fp("timeline", t) \in LinesOf(seen[a])
        BY <1>3, <2>4 DEF Follows
  <2>6. PICK k \in DOMAIN seen[a] : seen[a][k] = Fp("timeline", t)
        BY <2>5 DEF LinesOf
  <2>7. a # Mint
        BY <1>1, <2>6
  <2>8. k = PlaceOf(t, seen, verb)
    <3>1. InOrder(seen[a], seen, verb)
          BY <2>4, <2>6 DEF Follows, Ordered
    <3> QED BY <2>6, <3>1, FpFields DEF InOrder
  <2>9. k <= Len(seen[a]) /\ Len(seen[a]) \in Nat
        BY <1>1, <2>1, <2>6
  <2>10. PlaceOf(a, seen, verb) > Len(seen[a])
    <3>1. PlaceOf(a, seen, verb) = Len(seen[a]) + 2 \/ PlaceOf(a, seen, verb) = Len(seen[a]) + 3
          BY <2>7 DEF PlaceOf
    <3> QED BY <2>9, <3>1
  <2>11. i + 1 <= P /\ i + 1 \in Nat /\ P \in Nat
        BY <1>1, <1>2, <2>2, <2>3
  <2>12. i + 1 > Len(seen[a]) /\ P <= Len(seen[a])
        BY <1>5, <2>3, <2>8, <2>9, <2>10
  <2> QED BY <2>9, <2>11, <2>12
<1>7. h \notin ReferencedAsParent
      BY <1>6 DEF ReferencedAsParent, Actions, At
<1> QED BY <1>3, <1>4, <1>7 DEF EnvelopeType

LEMMA VerdictAccepts ==
    ASSUME VaultInv, OrderInv, bundle # <<>>, HasRoom
    PROVE  Verdict = 0
<1>1. /\ bundle \in Seq(Fps) /\ LinesOf(bundle) \subseteq cas
      /\ Headed(bundle) /\ InOrder(bundle, seen, verb)
      BY DEF VaultInv, FilesTyped, BundleResolves, OrderInv, Ordered
<1>2. /\ bundle[1] = Palace /\ bundle[3] = Genesis
      /\ 1 \in DOMAIN bundle /\ 3 \in DOMAIN bundle
      BY <1>1 DEF Headed, MintLines
<1>3. bundle[1] \in cas /\ Genesis \in cas
      BY <1>1, <1>2 DEF LinesOf
<1>4. IsPalace
      BY <1>2, <1>3, FpFields DEF IsPalace, FieldKind, EnvelopeType, Palace
<1>5. SoleAgent
  <2>1. Scanned("agent") \subseteq {2}
    <3>1. ASSUME NEW i \in Scanned("agent") PROVE i = 2
      <4>1. i \in DOMAIN bundle /\ bundle[i].kind = "oracle"
            BY <1>1, ScannedLines
      <4> QED BY <1>1, <4>1 DEF InOrder
    <3> QED BY <3>1
  <2>2. IsFiniteSet({2}) /\ Cardinality({2}) = 1
        BY FS_Singleton
  <2>3. Cardinality(Scanned("agent")) <= Cardinality({2})
        BY <2>1, <2>2, FS_Subset
  <2> QED BY <2>2, <2>3 DEF SoleAgent
<1>6. ParentsResolve
  <2>1. ASSUME NEW i \in Scanned("action") PROVE ParentHashes(bundle[i]) \subseteq cas
    <3>1. bundle[i] \in cas /\ bundle[i].kind = "action"
          BY <1>1, ScannedLines DEF LinesOf
    <3> QED BY <3>1 DEF VaultInv, CasClosed, References, ParentHashes
  <2> QED BY <2>1 DEF ParentsResolve, ReferencedAsParent, Actions, At
<1>7. ChainResolves
  <2>1. ASSUME NEW m \in LastLine(Scanned("mythos")) PROVE WalkToGenesis(m) = "ok"
    <3>1. m \in Fps /\ m \in cas
          BY <1>1 DEF LastLine, Scanned, LinesOf
    <3> QED BY <1>3, <3>1, WalkEnds, ChainsShallow
  <2> QED BY <2>1 DEF ChainResolves
<1>8. HeadsAreLeaves
      BY HeadsFollowed
<1>9. ActorsProven
      BY DEF ActorsProven, Actor
<1> QED BY <1>3, <1>4, <1>5, <1>6, <1>7, <1>8, <1>9 DEF Verdict

\* `palace verify` accepts the bundle at every instant at which it names a
\* stored room (verify.zig's exit code is 0), with any number of commands
\* running, overwriting each other's lines, failing and dying.
THEOREM VaultVerifyAccepts == Spec => []VerifyAccepts
<1>1. VaultInv /\ OrderInv => VerifyAccepts
      BY VerdictAccepts DEF VerifyAccepts
<1> QED BY <1>1, OrderInvariant, PTL
=============================================================================
