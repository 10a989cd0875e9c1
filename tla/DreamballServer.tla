-------------------------- MODULE DreamballServer --------------------------
(***************************************************************************)
(* dreamball-server (dreamball-server/src): an HTTP server over a          *)
(* directory of DreamBalls and one instance of dreamball.wasm.             *)
(*                                                                         *)
(* JavaScript runs a handler until its next await, so a handler is two or  *)
(* three uninterrupted parts: up to `await getWasm()`, from there to the   *)
(* answer, and for /embed one part for each answer of the provider.  The   *)
(* part after getWasm() writes the envelope, its JSON rendering and, for a *)
(* mint, the secret key: no other handler runs in between, but any of the  *)
(* writes may fail and the process may die at any of them.                 *)
(*                                                                         *)
(* An envelope is what the routes tell apart: its revision, name, guilds   *)
(* and stage.  Clients present the key of the DreamBall they grow; with    *)
(* any other body of the right form the server does the same, and the      *)
(* envelope it stores does not verify.                                     *)
(***************************************************************************)
EXTENDS Naturals, FiniteSets

CONSTANTS
    Slots,         \* bound: requests in progress at the same time
    MaxRequests,   \* bound: requests
    Balls,         \* fingerprints: base58 of the identity
    Stored,        \* the DreamBalls an earlier process has minted
    Names,         \* names a DreamBall can be given
    None, Torn,    \* no file; a file cut off in the middle of its write
    ArenaSize,     \* buffers the arena of dreamball.wasm has room for
    Providers,     \* providers of text-embed/1 the environment makes available
    MaxPolls,      \* MAX_POLL_ATTEMPTS
    MaxFaults      \* bound: writes that fail, and deaths of the process

ASSUME ServerBallsAssumption == Stored \subseteq Balls
ASSUME ServerProvidersAssumption == Providers \subseteq {"mock", "runpod"}
ASSUME ServerBoundsAssumption ==
    /\ Slots \in Nat /\ MaxRequests \in Nat /\ ArenaSize \in Nat
    /\ MaxPolls \in Nat \ {0} /\ MaxFaults \in Nat

VARIABLES
    ball, json, key,  \* the files <fp>.ball, <fp>.ball.json, <fp>.key
    up,               \* the process: "down", "binding" the capability, "listening"
    bound,            \* _bound: the provider of text-embed/1, or None
    wasm,             \* initPromise: "none", "loading", "ready" or "failed"
    arena,            \* buffers in use since the last reset()
    query,            \* per request: what it asks
    pc,               \* per request: where its handler is
    made,             \* per request: what it read, then what it is storing
    polls,            \* per request: attempts of pollUntilDone
    answer,           \* the last answer, until the next request
    believed,         \* per DreamBall: what its clients know it to be
    overlapped,       \* DreamBalls two requests have updated at the same time
    torn,             \* DreamBalls whose last update was cut short
    sent, faults

files   == <<ball, json, key>>
process == <<up, bound, wasm, arena>>
ghosts  == <<believed, overlapped, torn>>
vars    == <<files, process, query, pc, made, polls, answer, ghosts, sent, faults>>

Requests == 1 .. Slots

Envelopes ==
    [rev : Nat, name : Names \cup {None}, guilds : SUBSET Balls,
     stage : {"seed", "dreamball"}]

\* valid: the body passes what the route itself checks.
Queries ==
    [route : {"mint"}, name : Names \cup {None}]
        \cup [route : {"grow"}, fp : Balls, name : Names \cup {None}, promote : BOOLEAN,
              valid : {TRUE}]
        \cup [route : {"grow"}, fp : Balls, name : {None}, promote : {FALSE}, valid : {FALSE}]
        \cup [route : {"join"}, fp : Balls, guild : Balls, valid : BOOLEAN]
        \cup [route : {"show", "verify", "transmit", "unlock"}, fp : Balls]
        \cup [route : {"list", "seal"}]
        \cup [route : {"embed"}, valid : BOOLEAN]

\* What a handler has loaded to update.
Loaded ==
    [fp : Balls, env : Envelopes \cup {Torn}, guild : Envelopes \cup {None, Torn}]

Answers == {"200", "200 not verified", "400", "404", "413 or 415", "422", "500", "503",
            "out of memory"}

ASSUME ServerNoneAssumption ==
    /\ None # Torn /\ {None, Torn} \cap Envelopes = {}
    /\ None \notin Loaded \cup Queries \cup Answers

Updates(q) == q.route \in {"grow", "join"}

-----------------------------------------------------------------------------
\* dreamball.wasm: what its exports return and the buffers they leave behind.

Minted(q) == [rev |-> 0, name |-> q.name, guilds |-> {}, stage |-> "seed"]

\* Mutant of Grown: a promoted DreamBall goes back to seed.
GrownDemoted(e, q) ==
    [e EXCEPT !.rev = @ + 1, !.name = IF q.name = None THEN @ ELSE q.name,
              !.stage = IF q.promote THEN "dreamball" ELSE "seed"]

Grown(e, q) ==
    [e EXCEPT !.rev = @ + 1, !.name = IF q.name = None THEN @ ELSE q.name,
              !.stage = IF q.promote THEN "dreamball" ELSE @]

Joined(e, q) ==
    [e EXCEPT !.rev = @ + 1, !.guilds = @ \cup {q.guild}, !.stage = "dreamball"]

Outcome(e, q) ==
    CASE q.route = "mint" -> Minted(q)
      [] q.route = "grow" -> Grown(e, q)
      [] OTHER            -> Joined(e, q)

\* Buffers: what the handler copies in, and what the export allocates.
CopiedIn(q) ==
    CASE q.route = "mint" -> IF q.name = None THEN 0 ELSE 1
      [] q.route = "grow" -> IF q.name = None THEN 2 ELSE 3
      [] q.route = "join" -> 3
      [] OTHER            -> 1

Allocated(q) ==
    CASE q.route = "mint"   -> 2
      [] q.route = "grow"   -> 3
      [] q.route = "join"   -> 4
      [] OTHER              -> 0

\* parseBall: the envelope copied in, the decoded DreamBall and its JSON.
ParseBuffers == 3

\* verifyBall takes a sealed file or a tagged envelope: -1 for anything else,
\* and the signatures of what this server stores verify.
VerifyBall(form) == IF form = "cbor" THEN 2 ELSE 0 - 1

-----------------------------------------------------------------------------
Init ==
    /\ believed = [f \in Balls |-> IF f \in Stored THEN Minted([name |-> None]) ELSE None]
    /\ ball = believed /\ json = believed
    /\ key = [f \in Balls |-> f \in Stored]
    /\ up = "down" /\ bound = None /\ wasm = "none" /\ arena = 0
    /\ query = [r \in Requests |-> None] /\ pc = [r \in Requests |-> "idle"]
    /\ made = [r \in Requests |-> None] /\ polls = [r \in Requests |-> 0]
    /\ answer = None
    /\ overlapped = {} /\ torn = {} /\ sent = 0 /\ faults = 0

Storing == {"ball", "json", "key"}
Active  == {"arrived", "wasm", "runsync", "poll", "status"} \cup Storing

\* No handler is between its await and its answer.
Quiet == \A r \in Requests : pc[r] \notin Storing

Goes(r, place) == pc' = [pc EXCEPT ![r] = place]

Answer(r, s) ==
    /\ Goes(r, "idle")
    /\ answer' = s
    /\ query' = [query EXCEPT ![r] = None]
    /\ made' = [made EXCEPT ![r] = None]
    /\ polls' = [polls EXCEPT ![r] = 0]

Unused(f) == ball[f] = None /\ json[f] = None
Minting == {r \in Requests : pc[r] \in {"arrived", "wasm", "ball"} /\ query[r].route = "mint"}

\* Another request has loaded the DreamBall and not stored it yet.
Updating(f, r) ==
    \E d \in Requests \ {r} :
        pc[d] = "wasm" /\ Updates(query[d]) /\ query[d].fp = f

-----------------------------------------------------------------------------
\* The process.

Start ==
    /\ up = "down"
    /\ up' = "binding"
    /\ UNCHANGED <<files, bound, wasm, arena, query, pc, made, polls, answer, ghosts, sent, faults>>

\* resolveTextEmbed() at boot: the first available provider, or exit(1).
Bind ==
    /\ up = "binding"
    /\ IF Providers = {} THEN up' = "down" /\ UNCHANGED bound
       ELSE /\ up' = "listening"
            /\ bound' = IF "mock" \in Providers THEN "mock" ELSE "runpod"
    /\ UNCHANGED <<files, wasm, arena, query, pc, made, polls, answer, ghosts, sent, faults>>

\* A client sends a request, with the key of the DreamBall it updates.  There
\* are as many mints as there are fingerprints left.
Arrive(r, q) ==
    /\ up = "listening"
    /\ sent < MaxRequests /\ sent' = sent + 1
    /\ pc[r] = "idle" /\ \A d \in Requests : d < r => pc[d] # "idle"
    /\ Updates(q) => believed[q.fp] # None
    /\ q.route = "mint" => Cardinality(Minting) < Cardinality({f \in Balls : Unused(f)})
    /\ query' = [query EXCEPT ![r] = q]
    /\ Goes(r, "arrived")
    /\ answer' = None
    /\ UNCHANGED <<files, process, made, polls, ghosts, faults>>

\* instantiate() reads, compiles and instantiates; its promise is kept, also
\* when it was rejected.
Instantiate ==
    /\ wasm = "loading"
    /\ wasm' \in {"ready", "failed"}
    /\ UNCHANGED <<files, up, bound, arena, query, pc, made, polls, answer, ghosts, sent, faults>>

\* The process dies.  A file it was writing may be cut off.
Cut(file, place) ==
    [f \in Balls |-> IF \E r \in Requests : pc[r] = place /\ made[r].fp = f
                     THEN Torn ELSE file[f]]

Halted == {made[r].fp : r \in {d \in Requests : pc[d] \in Storing}}

Crash ==
    /\ faults < MaxFaults /\ faults' = faults + 1
    /\ up # "down" /\ up' = "down"
    /\ bound' = None /\ wasm' = "none" /\ arena' = 0
    /\ ball' \in {ball, Cut(ball, "ball")}
    /\ json' \in {json, Cut(json, "json")}
    /\ query' = [r \in Requests |-> None] /\ pc' = [r \in Requests |-> "idle"]
    /\ made' = [r \in Requests |-> None] /\ polls' = [r \in Requests |-> 0]
    /\ torn' = torn \cup Halted
    /\ answer' = None
    /\ UNCHANGED <<key, believed, overlapped, sent>>

-----------------------------------------------------------------------------
\* Handlers, up to their first await.

\* The handler calls getWasm() and waits.
AwaitWasm(r, read) ==
    /\ Goes(r, "wasm")
    /\ made' = [made EXCEPT ![r] = read]
    /\ wasm' = IF wasm = "none" THEN "loading" ELSE wasm
    /\ UNCHANGED <<files, up, bound, arena, query, polls, answer, believed, torn, sent, faults>>

Replies(r, s) ==
    /\ Answer(r, s)
    /\ UNCHANGED <<files, process, ghosts, sent, faults>>

Called(r, route) ==
    /\ pc[r] = "arrived" /\ Quiet
    /\ query[r].route = route

Mint(r) ==
    /\ Called(r, "mint")
    /\ AwaitWasm(r, None)
    /\ UNCHANGED overlapped

\* loadEnvelopeBytes before the await, for the guild of a join as well.  A key of
\* another length is refused; base58Decode throws at a character it does not know.
LoadForUpdate(r) ==
    LET q == query[r]
    IN  /\ Called(r, "grow") \/ Called(r, "join")
        /\ IF ball[q.fp] = None \/ (q.route = "join" /\ ball[q.guild] = None)
           THEN Replies(r, "404")
           ELSE IF ~ q.valid THEN \E s \in {"400", "500"} : Replies(r, s)
           ELSE /\ AwaitWasm(r, [fp |-> q.fp, env |-> ball[q.fp],
                                 guild |-> IF q.route = "join" THEN ball[q.guild] ELSE None])
                /\ overlapped' = IF Updating(q.fp, r) THEN overlapped \cup {q.fp} ELSE overlapped

\* loadDreamBall: the JSON rendering, whatever the envelope next to it is.
Loads(r, f) == IF json[f] = None THEN "404" ELSE IF json[f] = Torn THEN "500" ELSE "200"

Verify(r) ==
    /\ Called(r, "verify")
    /\ IF Loads(r, query[r].fp) # "200" THEN Replies(r, Loads(r, query[r].fp))
       ELSE AwaitWasm(r, [fp |-> query[r].fp, form |-> "json"]) /\ UNCHANGED overlapped

Show(r) == Called(r, "show") /\ Replies(r, Loads(r, query[r].fp))

\* One rendering that does not parse fails the whole listing.
List(r) ==
    /\ Called(r, "list")
    /\ Replies(r, IF \E f \in Balls : json[f] = Torn THEN "500" ELSE "200")

\* The routes that run the dreamball executable, synchronously: it may be
\* missing, and the file it is handed may fail to be written.  The tool it transmits and the relic it unlocks are handed over as
\* JSON, which it does not decode; a relic it has sealed is binary, which the
\* route does not parse.
Subprocess(r) ==
    /\ \/ Called(r, "transmit") \/ Called(r, "unlock")
       \/ Called(r, "seal")
    /\ IF query[r].route = "seal" THEN \E s \in {"422", "500", "503"} : Replies(r, s)
       ELSE IF Loads(r, query[r].fp) # "200" THEN Replies(r, Loads(r, query[r].fp))
       ELSE \E s \in {"422", "500", "503"} : Replies(r, s)

\* With a binding resolveTextEmbed() returns it; the mock answers at once.
Embed(r) ==
    /\ Called(r, "embed")
    /\ IF ~ query[r].valid THEN Replies(r, "413 or 415")
       ELSE IF bound = "mock" THEN Replies(r, "200")
       ELSE /\ Goes(r, "runsync")
            /\ UNCHANGED <<files, process, query, made, polls, answer, ghosts, sent, faults>>

\* What the provider says of the job: done, failed or unusable, not yet.
RunSync(r) ==
    /\ pc[r] = "runsync" /\ Quiet
    /\ \/ \E s \in {"200", "500"} : Replies(r, s)
       \/ /\ Goes(r, "poll")
          /\ UNCHANGED <<files, process, query, made, polls, answer, ghosts, sent, faults>>

\* pollUntilDone: wait, then ask; after the last attempt it times out.
\* Mutant of Exhausted: one attempt too many.
ExhaustedLate(n) == n > MaxPolls

Exhausted(n) == n >= MaxPolls

Wait(r) ==
    /\ pc[r] = "poll" /\ Quiet
    /\ IF Exhausted(polls[r]) THEN Replies(r, "500")
       ELSE /\ Goes(r, "status")
            /\ UNCHANGED <<files, process, query, made, polls, answer, ghosts, sent, faults>>

\* The loop goes on when the status is not ok.
PollStatus(r) ==
    /\ pc[r] = "status" /\ Quiet
    /\ \/ \E s \in {"200", "500"} : Replies(r, s)
       \/ /\ polls' = [polls EXCEPT ![r] = @ + 1]
          /\ Goes(r, "poll")
          /\ UNCHANGED <<files, process, query, made, answer, ghosts, sent, faults>>

-----------------------------------------------------------------------------
\* Handlers, after `await getWasm()`.

\* reset() first; Mutant: not.
ResetForgotten == arena

Reset == 0

Used(q) == Reset + CopiedIn(q) + Allocated(q)
Fits(n) == n <= ArenaSize

\* Mutant of NoInstance: it waits for another attempt, which nobody makes.
NoInstanceWaits(r) ==
    /\ pc[r] = "wasm" /\ wasm = "failed" /\ Quiet
    /\ UNCHANGED vars

\* The promise was rejected, for this request or an earlier one.
NoInstance(r) ==
    /\ pc[r] = "wasm" /\ wasm = "failed" /\ Quiet
    /\ Replies(r, "500")

VerifyResumed(r) ==
    /\ pc[r] = "wasm" /\ wasm = "ready" /\ Quiet /\ query[r].route = "verify"
    /\ arena' = IF Fits(Used(query[r])) THEN Used(query[r]) ELSE ArenaSize
    /\ Answer(r, IF ~ Fits(Used(query[r])) THEN "out of memory"
                 ELSE IF VerifyBall(made[r].form) = 2 THEN "200" ELSE "200 not verified")
    /\ UNCHANGED <<files, up, bound, wasm, ghosts, sent, faults>>

Broken(m) == m # None /\ (m.env = Torn \/ m.guild = Torn)

\* The export, then reset() and parseBall for the JSON of the result.
UpdateResumed(r) ==
    LET q == query[r]
    IN  /\ pc[r] = "wasm" /\ wasm = "ready" /\ Quiet /\ q.route # "verify"
        /\ IF ~ Fits(Used(q)) \/ ~ Fits(Reset + ParseBuffers)
           THEN Answer(r, "out of memory") /\ arena' = ArenaSize
           ELSE IF Broken(made[r])
           THEN Answer(r, "500") /\ arena' = Reset + CopiedIn(q)
           ELSE /\ arena' = ParseBuffers
                /\ Goes(r, "ball") /\ UNCHANGED <<query, polls, answer>>
                /\ IF q.route = "mint"
                   THEN \E f \in Balls : Unused(f) /\ made' = [made EXCEPT ![r] = [fp |-> f, env |-> Minted(q), guild |-> None]]
                   ELSE made' = [made EXCEPT ![r].env = Outcome(@, q)]
        /\ UNCHANGED <<files, up, bound, wasm, ghosts, sent, faults>>

\* storeDreamBall and storeSecretKey.
StoreBall(r) ==
    /\ pc[r] = "ball"
    /\ ball' = [ball EXCEPT ![made[r].fp] = made[r].env]
    /\ Goes(r, "json")
    /\ UNCHANGED <<json, key, process, query, made, polls, answer, ghosts, sent, faults>>

Stands(r) ==
    /\ Answer(r, "200")
    /\ believed' = [believed EXCEPT ![made[r].fp] = made[r].env]
    /\ torn' = torn \ {made[r].fp}

\* Mutant of Rendered: the rendering of the envelope that was loaded.
RenderedStale(f, e) == IF json[f] = None THEN e ELSE json[f]

Rendered(f, e) == e

\* Mutant of AfterJson: a mint answers before its key is stored.
AfterJsonEarly(r) == "done"

AfterJson(r) == IF query[r].route = "mint" THEN "key" ELSE "done"

StoreJson(r) ==
    /\ pc[r] = "json"
    /\ json' = [json EXCEPT ![made[r].fp] = Rendered(made[r].fp, made[r].env)]
    /\ IF AfterJson(r) = "key"
       THEN Goes(r, "key") /\ UNCHANGED <<query, made, polls, answer, believed, torn>>
       ELSE Stands(r)
    /\ UNCHANGED <<ball, key, process, overlapped, sent, faults>>

StoreKey(r) ==
    /\ pc[r] = "key"
    /\ key' = [key EXCEPT ![made[r].fp] = TRUE]
    /\ Stands(r)
    /\ UNCHANGED <<ball, json, process, overlapped, sent, faults>>

\* The write throws, before or after the file was truncated.
StoreFails(r) ==
    /\ faults < MaxFaults /\ faults' = faults + 1
    /\ pc[r] \in Storing
    /\ ball' \in {ball, Cut(ball, "ball")}
    /\ json' \in {json, Cut(json, "json")}
    /\ Answer(r, "500")
    /\ torn' = torn \cup {made[r].fp}
    /\ UNCHANGED <<key, process, believed, overlapped, sent>>

-----------------------------------------------------------------------------
Handler(r) ==
    \/ Mint(r) \/ LoadForUpdate(r) \/ Verify(r) \/ Show(r) \/ List(r) \/ Subprocess(r)
    \/ Embed(r) \/ RunSync(r) \/ Wait(r) \/ PollStatus(r)
    \/ NoInstance(r) \/ VerifyResumed(r) \/ UpdateResumed(r)
    \/ StoreBall(r) \/ StoreJson(r) \/ StoreKey(r)

Next ==
    \/ Start \/ Bind \/ Instantiate \/ Crash
    \/ \E r \in Requests, q \in Queries : Arrive(r, q)
    \/ \E r \in Requests : Handler(r) \/ StoreFails(r)

\* The event loop turns, and the provider answers or its connection fails.
Fairness == WF_vars(Instantiate) /\ \A r \in Requests : WF_vars(Handler(r))

Spec == Init /\ [][Next]_vars /\ Fairness

-----------------------------------------------------------------------------
\* Properties.

\* Every variable keeps its type.
TypeOK ==
    /\ ball \in [Balls -> Envelopes \cup {None, Torn}]
    /\ json \in [Balls -> Envelopes \cup {None, Torn}]
    /\ key \in [Balls -> BOOLEAN]
    /\ up \in {"down", "binding", "listening"} /\ bound \in {None, "mock", "runpod"}
    /\ wasm \in {"none", "loading", "ready", "failed"} /\ arena \in 0 .. ArenaSize
    /\ query \in [Requests -> Queries \cup {None}]
    /\ pc \in [Requests -> Active \cup {"idle"}]
    /\ polls \in [Requests -> 0 .. MaxPolls]
    /\ answer \in Answers \cup {None}
    /\ believed \in [Balls -> Envelopes \cup {None}]
    /\ overlapped \in SUBSET Balls /\ torn \in SUBSET Balls
    /\ sent \in 0 .. MaxRequests /\ faults \in 0 .. MaxFaults

\* The envelope, its cached rendering and what the last answer told agree, but
\* for the DreamBall a handler is storing and those whose last update was cut
\* short: no handler sees, and no failure of another DreamBall leaves, a
\* rendering of some other revision.
FilesAgree ==
    \A f \in Balls \ (torn \cup Halted) : json[f] = ball[f] /\ ball[f] = believed[f]

\* Of a DreamBall a client was told of, the server has the key and a file for the
\* envelope, whatever fails or dies afterwards.  The file may be torn where the
\* last update was cut short: FilesAgree says when it is not.
MintsKept == \A f \in Balls : believed[f] # None => ball[f] # None /\ key[f]

\* "revision" is monotonic and updates accumulate (docs/PROTOCOL.md): what a
\* client was told a DreamBall has become is grown further, never replaced, by
\* updates that did not overlap.
GrowthsKept ==
    [][\A f \in Balls \ overlapped' :
          believed[f] # None /\ believed'[f] # believed[f] =>
              /\ believed'[f].rev > believed[f].rev
              /\ believed[f].guilds \subseteq believed'[f].guilds
              /\ believed[f].stage = "dreamball" => believed'[f].stage = "dreamball"]_vars

\* No request runs out of the arena because of what another one left in it.
ArenaSuffices == answer # "out of memory"

\* Every request is answered unless the process dies: an instantiation that
\* fails, a job that never ends and a write that throws all end in an answer.
RequestsAnswered ==
    \A r \in Requests : (pc[r] \in Active) ~> (pc[r] = "idle")

\* "ok=true means Ed25519 verified or no signature present" (routes/verify.ts:42):
\* so a DreamBall the server minted and grew with its own key verifies.
VerifyTruthful == answer # "200 not verified"

=============================================================================
