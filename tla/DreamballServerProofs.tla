----------------------- MODULE DreamballServerProofs -----------------------
(***************************************************************************)
(* Proofs about DreamballServer: its type invariant, that what it stored    *)
(* and what it told its clients agree, and that a mint it confirmed is kept *)
(* with its key, for any number of requests, DreamBalls and faults; that    *)
(* updates that do not overlap are kept; and that the arena suffices.       *)
(***************************************************************************)
EXTENDS DreamballServer, TLAPS

ProcessType ==
    /\ up \in {"down", "binding", "listening"} /\ bound \in {None, "mock", "runpod"}
    /\ wasm \in {"none", "loading", "ready", "failed"} /\ arena \in 0 .. ArenaSize
    /\ answer \in Answers \cup {None}
    /\ overlapped \in SUBSET Balls
    /\ sent \in 0 .. MaxRequests /\ faults \in 0 .. MaxFaults

FilesType ==
    /\ ball \in [Balls -> Envelopes \cup {None, Torn}]
    /\ json \in [Balls -> Envelopes \cup {None, Torn}]
    /\ key \in [Balls -> BOOLEAN]
    /\ believed \in [Balls -> Envelopes \cup {None}]
    /\ torn \in SUBSET Balls

RequestsType ==
    /\ query \in [Requests -> Queries \cup {None}]
    /\ pc \in [Requests -> Active \cup {"idle"}]
    /\ polls \in [Requests -> 0 .. MaxPolls]
    /\ made = [r \in Requests |-> made[r]]

\* A request at a place of its handler: the DreamBall it updates is one a client
\* knows, and what it has stored so far is what it holds.
Ready(place, q, m, n, b, j, known) ==
    /\ place # "idle" => q \in Queries
    /\ place = "arrived" /\ Updates(q) => known[q.fp] # None
    /\ place = "wasm" =>
          /\ q.route \in {"mint", "grow", "join", "verify"}
          /\ Updates(q) => m \in Loaded /\ m.fp = q.fp /\ known[q.fp] # None
    /\ place \in Storing =>
          /\ m \in Loaded /\ m.env \in Envelopes
          /\ q.route # "mint" => known[m.fp] # None
    /\ place \in {"json", "key"} => b[m.fp] = m.env
    /\ place = "key" => j[m.fp] = m.env
    /\ place = "status" => n < MaxPolls

RequestsInv ==
    /\ \A r \in Requests : Ready(pc[r], query[r], made[r], polls[r], ball, json, believed)
    /\ \A r, d \in Requests : pc[r] \in Storing /\ pc[d] \in Storing => r = d

SInv ==
    /\ ProcessType /\ FilesType /\ RequestsType
    /\ RequestsInv /\ FilesAgree /\ MintsKept

-----------------------------------------------------------------------------
\* A query of one of the routes that update has the fields its handler reads.
LEMMA QueryFields ==
    ASSUME NEW q \in Queries
    PROVE  /\ q.route \in {"mint", "grow"} => q.name \in Names \cup {None}
           /\ q.route \in {"grow", "join"} => q.fp \in Balls
           /\ q.route = "join" => q.guild \in Balls
           /\ q # None
BY ServerNoneAssumption DEF Queries

\* An envelope with new fields is an envelope.
LEMMA EnvelopeFields ==
    ASSUME NEW e \in Envelopes, NEW v \in Nat, NEW n \in Names \cup {None}, NEW g \in SUBSET Balls,
           NEW s \in {"seed", "dreamball"}
    PROVE  /\ [e EXCEPT !.rev = v, !.name = n, !.stage = s] \in Envelopes
           /\ [e EXCEPT !.rev = v, !.guilds = g, !.stage = s] \in Envelopes
<1>1. [e EXCEPT !.rev = v, !.name = n, !.stage = s] \in Envelopes
  BY DEF Envelopes
<1>2. [e EXCEPT !.rev = v, !.guilds = g, !.stage = s] \in Envelopes
  BY DEF Envelopes
<1> QED
  BY <1>1, <1>2

\* What the exports of dreamball.wasm return are envelopes.
LEMMA OutcomeType ==
    ASSUME NEW q \in Queries, NEW e \in Envelopes, q.route \in {"grow", "join"}
    PROVE  Outcome(e, q) \in Envelopes
<1>1. CASE q.route = "grow"
  <2>1. q.name \in Names \cup {None}
    BY <1>1, QueryFields
  <2>2. /\ e.rev + 1 \in Nat /\ (IF q.name = None THEN e.name ELSE q.name) \in Names \cup {None}
        /\ (IF q.promote THEN "dreamball" ELSE e.stage) \in {"seed", "dreamball"}
    BY <2>1 DEF Envelopes
  <2>3. Grown(e, q) \in Envelopes
    BY <2>2, EnvelopeFields DEF Grown
  <2> QED
    BY <1>1, <2>3 DEF Outcome
<1>2. CASE q.route = "join"
  <2>1. q.guild \in Balls
    BY <1>2, QueryFields
  <2>2. e.rev + 1 \in Nat /\ e.guilds \cup {q.guild} \in SUBSET Balls
    BY <2>1 DEF Envelopes
  <2>3. Joined(e, q) \in Envelopes
    BY <2>2, EnvelopeFields DEF Joined
  <2> QED
    BY <1>2, <2>3 DEF Outcome
<1> QED
  BY <1>1, <1>2

\* A new DreamBall is an envelope.
LEMMA MintedType ==
    ASSUME NEW q, q.name \in Names \cup {None}
    PROVE  Minted(q) \in Envelopes
BY DEF Minted, Envelopes

\* A function changed at one place to what it was is unchanged.
LEMMA SameAt ==
    ASSUME NEW S, NEW f, f = [x \in S |-> f[x]], NEW r \in S
    PROVE  f = [f EXCEPT ![r] = f[r]]
OBVIOUS

\* The processes and requests that stand still keep what holds of them when
\* nothing they rely on is taken away.
LEMMA ReadyKept ==
    ASSUME NEW place, NEW q, NEW m, NEW n, Ready(place, q, m, n, ball, json, believed), FilesType,
           \A f \in Balls : believed[f] # None => believed'[f] # None,
           place \in Storing => UNCHANGED <<ball, json>>
    PROVE  Ready(place, q, m, n, ball', json', believed')
<1>1. q \in Queries /\ Updates(q) => q.fp \in Balls
  BY QueryFields DEF Updates
<1>2. m \in Loaded => m.fp \in Balls
  BY DEF Loaded
<1> QED
  BY <1>1, <1>2 DEF Ready, Storing

-----------------------------------------------------------------------------
\* A handler that is not storing moves on, and leaves the files alone.
LEMMA MoveStep ==
    ASSUME SInv, NEW r \in Requests, NEW place \in Active \cup {"idle"},
           NEW q \in Queries \cup {None}, NEW m, NEW n \in 0 .. MaxPolls,
           pc[r] \notin Storing, place \in Storing => Quiet,
           UNCHANGED <<files, believed, torn>>, ProcessType',
           pc' = [pc EXCEPT ![r] = place], query' = [query EXCEPT ![r] = q],
           made' = [made EXCEPT ![r] = m], polls' = [polls EXCEPT ![r] = n],
           Ready(place, q, m, n, ball, json, believed)
    PROVE  SInv'
<1>1. /\ FilesType /\ RequestsType /\ RequestsInv /\ FilesAgree /\ MintsKept
      /\ UNCHANGED <<ball, json, key, believed, torn>>
  BY DEF SInv, files
<1>2. /\ pc'[r] = place /\ query'[r] = q /\ made'[r] = m /\ polls'[r] = n
      /\ \A d \in Requests \ {r} : /\ pc'[d] = pc[d] /\ query'[d] = query[d]
                                   /\ made'[d] = made[d] /\ polls'[d] = polls[d]
  BY <1>1 DEF RequestsType
<1>3. FilesType'
  BY <1>1 DEF FilesType
<1>4. RequestsType'
  BY <1>1 DEF RequestsType
<1>5. ASSUME NEW d \in Requests
      PROVE  Ready(pc'[d], query'[d], made'[d], polls'[d], ball', json', believed')
  <2>1. Ready(pc'[d], query'[d], made'[d], polls'[d], ball, json, believed)
    BY <1>1, <1>2 DEF RequestsInv
  <2> QED
    BY <2>1, <1>1
<1>6. \A d, e \in Requests : pc'[d] \in Storing /\ pc'[e] \in Storing => d = e
  BY <1>1, <1>2 DEF RequestsInv, Quiet
<1>7. Halted \subseteq Halted'
  BY <1>2 DEF Halted
<1>8. FilesAgree' /\ MintsKept'
  BY <1>1, <1>7 DEF FilesAgree, MintsKept
<1> QED
  BY <1>3, <1>4, <1>5, <1>6, <1>8 DEF SInv, RequestsInv

\* It answers without having stored anything.
LEMMA AnswerStep ==
    ASSUME SInv, NEW r \in Requests, NEW s, s \in Answers, pc[r] \notin Storing, Answer(r, s),
           UNCHANGED <<files, up, bound, wasm, ghosts, sent, faults>>, arena' \in 0 .. ArenaSize
    PROVE  SInv'
<1>1. UNCHANGED <<files, believed, torn>>
  BY DEF files, ghosts
<1>2. ProcessType'
  BY DEF SInv, ProcessType, Answer, ghosts
<1>3. Ready("idle", None, None, 0, ball, json, believed)
  BY DEF Ready, Storing
<1>4. 0 \in 0 .. MaxPolls /\ "idle" \notin Storing
  BY ServerBoundsAssumption DEF Storing
<1>5. /\ pc' = [pc EXCEPT ![r] = "idle"] /\ query' = [query EXCEPT ![r] = None]
      /\ made' = [made EXCEPT ![r] = None] /\ polls' = [polls EXCEPT ![r] = 0]
  BY DEF Answer, Goes
<1> QED
  BY <1>1, <1>2, <1>3, <1>4, <1>5, MoveStep

\* A handler that has changed nothing at all answers.
LEMMA ReplyStep ==
    ASSUME SInv, NEW r \in Requests, NEW s, s \in Answers, pc[r] \notin Storing, Replies(r, s)
    PROVE  SInv'
<1>1. /\ UNCHANGED <<files, up, bound, wasm, ghosts, sent, faults>> /\ arena' \in 0 .. ArenaSize
      /\ Answer(r, s)
  BY DEF Replies, process, SInv, ProcessType
<1> QED
  BY <1>1, AnswerStep

\* It goes to another place and keeps what it holds.
LEMMA GoStep ==
    ASSUME SInv, NEW r \in Requests, NEW place \in Active, NEW n \in 0 .. MaxPolls,
           pc[r] \notin Storing, place \notin Storing, UNCHANGED <<files, ghosts>>, ProcessType',
           Goes(r, place), UNCHANGED <<query, made>>, polls' = [polls EXCEPT ![r] = n],
           Ready(place, query[r], made[r], n, ball, json, believed)
    PROVE  SInv'
<1>1. RequestsType /\ UNCHANGED <<believed, torn>> /\ pc' = [pc EXCEPT ![r] = place]
  BY DEF SInv, ghosts, Goes
<1>2. query = [d \in Requests |-> query[d]] /\ made = [d \in Requests |-> made[d]]
      /\ query[r] \in Queries \cup {None}
  BY <1>1 DEF RequestsType
<1>3. query' = [query EXCEPT ![r] = query[r]] /\ made' = [made EXCEPT ![r] = made[r]]
  BY <1>2, SameAt
<1> QED
  BY <1>1, <1>2, <1>3, MoveStep

\* It waits for the module.
LEMMA AwaitStep ==
    ASSUME SInv, NEW r \in Requests, NEW m, pc[r] = "arrived", AwaitWasm(r, m),
           overlapped' \in SUBSET Balls, query[r].route \in {"mint", "grow", "join", "verify"},
           Updates(query[r]) => m \in Loaded /\ m.fp = query[r].fp
    PROVE  SInv'
<1>1. RequestsType /\ pc' = [pc EXCEPT ![r] = "wasm"] /\ made' = [made EXCEPT ![r] = m]
      /\ UNCHANGED <<files, query, polls, believed, torn>>
      /\ Ready(pc[r], query[r], made[r], polls[r], ball, json, believed)
  BY DEF SInv, AwaitWasm, Goes, RequestsInv
<1>2. query = [d \in Requests |-> query[d]] /\ polls = [d \in Requests |-> polls[d]]
      /\ query[r] \in Queries \cup {None} /\ polls[r] \in 0 .. MaxPolls
  BY <1>1 DEF RequestsType
<1>3. query' = [query EXCEPT ![r] = query[r]] /\ polls' = [polls EXCEPT ![r] = polls[r]]
  BY <1>1, <1>2, SameAt
<1>4. ProcessType'
  BY DEF SInv, ProcessType, AwaitWasm
<1>5. Ready("wasm", query[r], m, polls[r], ball, json, believed)
  BY <1>1 DEF Ready, Storing
<1>6. "wasm" \in Active /\ "wasm" \notin Storing /\ pc[r] \notin Storing
  BY DEF Active, Storing
<1> QED
  BY <1>1, <1>2, <1>3, <1>4, <1>5, <1>6, MoveStep

-----------------------------------------------------------------------------
\* The process starts, binds its provider and instantiates the module.
LEMMA ProcessStep ==
    ASSUME SInv, ProcessType', UNCHANGED <<files, query, pc, made, polls, believed, torn>>
    PROVE  SInv'
<1>1. UNCHANGED <<ball, json, key>>
  BY DEF files
<1>2. FilesType' /\ RequestsType'
  BY <1>1 DEF SInv, FilesType, RequestsType
<1>3. RequestsInv'
  BY <1>1 DEF SInv, RequestsInv
<1>4. FilesAgree' /\ MintsKept'
  BY <1>1 DEF SInv, FilesAgree, MintsKept, Halted
<1> QED
  BY <1>2, <1>3, <1>4 DEF SInv

\* A request arrives at an idle place.
LEMMA ArriveStep ==
    ASSUME SInv, NEW r \in Requests, NEW q \in Queries, Arrive(r, q)
    PROVE  SInv'
<1>1. RequestsType /\ pc[r] = "idle" /\ UNCHANGED <<files, process, made, polls, believed, torn, overlapped, faults>>
      /\ pc' = [pc EXCEPT ![r] = "arrived"] /\ query' = [query EXCEPT ![r] = q]
      /\ (Updates(q) => believed[q.fp] # None) /\ sent < MaxRequests /\ sent' = sent + 1 /\ answer' = None
  BY DEF SInv, Arrive, ghosts, Goes
<1>2. made' = [made EXCEPT ![r] = made[r]] /\ polls' = [polls EXCEPT ![r] = polls[r]]
      /\ polls[r] \in 0 .. MaxPolls
  BY <1>1, SameAt DEF RequestsType
<1>3. ProcessType'
  BY <1>1, ServerBoundsAssumption DEF SInv, ProcessType, process
<1>4. Ready("arrived", q, made[r], polls[r], ball, json, believed)
  BY <1>1 DEF Ready, Storing
<1>5. "arrived" \in Active /\ "arrived" \notin Storing /\ pc[r] \notin Storing
  BY <1>1 DEF Active, Storing
<1> QED
  BY <1>1, <1>2, <1>3, <1>4, <1>5, MoveStep

\* A handler whose request has arrived is not storing.
LEMMA CalledFacts ==
    ASSUME SInv, NEW r \in Requests, NEW route, Called(r, route)
    PROVE  /\ pc[r] = "arrived" /\ pc[r] \notin Storing /\ query[r] \in Queries
           /\ query[r].route = route
           /\ Updates(query[r]) => believed[query[r].fp] # None /\ query[r].fp \in Balls
<1>1. pc[r] = "arrived" /\ query[r].route = route /\ Ready(pc[r], query[r], made[r], polls[r], ball, json, believed)
  BY DEF Called, SInv, RequestsInv
<1>2. query[r] \in Queries /\ (Updates(query[r]) => believed[query[r].fp] # None)
  BY <1>1 DEF Ready
<1>3. pc[r] \notin Storing
  BY <1>1 DEF Storing
<1> QED
  BY <1>1, <1>2, <1>3, QueryFields DEF Updates

\* The answers, by name.
LEMMA AnswerNames ==
    /\ {"200", "200 not verified", "400", "404", "413 or 415", "422", "500", "503"} \subseteq Answers
    /\ "out of memory" \in Answers
BY DEF Answers

\* A mint waits for the module; it has loaded nothing.
LEMMA MintStep ==
    ASSUME SInv, NEW r \in Requests, Mint(r)
    PROVE  SInv'
<1>1. Called(r, "mint") /\ AwaitWasm(r, None) /\ UNCHANGED overlapped
  BY DEF Mint
<1>2. pc[r] = "arrived" /\ query[r].route = "mint" /\ ~ Updates(query[r]) /\ overlapped' \in SUBSET Balls
  BY <1>1, CalledFacts DEF Updates, SInv, ProcessType
<1> QED
  BY <1>1, <1>2, AwaitStep

\* grow and join load an envelope that is there, cut off or not.
LEMMA LoadStep ==
    ASSUME SInv, NEW r \in Requests, LoadForUpdate(r)
    PROVE  SInv'
<1> DEFINE q == query[r]
           m == [fp |-> q.fp, env |-> ball[q.fp], guild |-> IF q.route = "join" THEN ball[q.guild] ELSE None]
<1>1. /\ pc[r] = "arrived" /\ pc[r] \notin Storing /\ q \in Queries /\ q.route \in {"grow", "join"}
      /\ q.fp \in Balls
  BY CalledFacts DEF LoadForUpdate, Updates
<1>2. CASE ball[q.fp] = None \/ (q.route = "join" /\ ball[q.guild] = None)
  BY <1>1, <1>2, ReplyStep, AnswerNames DEF LoadForUpdate
<1>3. CASE ~ (ball[q.fp] = None \/ (q.route = "join" /\ ball[q.guild] = None)) /\ ~ q.valid
  BY <1>1, <1>3, ReplyStep, AnswerNames DEF LoadForUpdate
<1>4. CASE ~ (ball[q.fp] = None \/ (q.route = "join" /\ ball[q.guild] = None)) /\ q.valid
  <2>1. /\ AwaitWasm(r, m)
        /\ overlapped' = IF Updating(q.fp, r) THEN overlapped \cup {q.fp} ELSE overlapped
    BY <1>4 DEF LoadForUpdate
  <2>2. overlapped' \in SUBSET Balls
    BY <1>1, <2>1 DEF SInv, ProcessType
  <2>3. ball[q.fp] \in Envelopes \cup {Torn}
    BY <1>1, <1>4 DEF SInv, FilesType
  <2>4. (IF q.route = "join" THEN ball[q.guild] ELSE None) \in Envelopes \cup {None, Torn}
    BY <1>1, QueryFields DEF SInv, FilesType
  <2>5. m \in Loaded /\ m.fp = q.fp
    BY <1>1, <2>3, <2>4 DEF Loaded
  <2> HIDE DEF m
  <2> QED
    BY <1>1, <2>1, <2>2, <2>5, AwaitStep
<1> QED
  BY <1>2, <1>3, <1>4

\* A rendering that is missing or cut off ends in an answer.
LEMMA LoadsNames == ASSUME NEW r, NEW f PROVE Loads(r, f) \in Answers
BY AnswerNames DEF Loads

\* verify loads a rendering and waits for the module.
LEMMA VerifyStep ==
    ASSUME SInv, NEW r \in Requests, Verify(r)
    PROVE  SInv'
<1> DEFINE m == [fp |-> query[r].fp, form |-> "json"]
<1>1. pc[r] = "arrived" /\ pc[r] \notin Storing /\ query[r].route = "verify" /\ ~ Updates(query[r])
  BY CalledFacts DEF Verify, Updates
<1>2. CASE Loads(r, query[r].fp) # "200"
  BY <1>1, <1>2, ReplyStep, LoadsNames DEF Verify
<1>3. CASE Loads(r, query[r].fp) = "200"
  <2>1. AwaitWasm(r, m) /\ UNCHANGED overlapped
    BY <1>3 DEF Verify
  <2> HIDE DEF m
  <2>2. overlapped' \in SUBSET Balls
    BY <2>1 DEF SInv, ProcessType
  <2> QED
    BY <1>1, <2>1, <2>2, AwaitStep
<1> QED
  BY <1>2, <1>3

\* The routes that read, list or run the executable only answer.
LEMMA ReadSteps ==
    ASSUME SInv, NEW r \in Requests, Show(r) \/ List(r) \/ Subprocess(r) \/ NoInstance(r)
    PROVE  SInv'
<1>1. CASE Show(r)
  BY <1>1, CalledFacts, LoadsNames, ReplyStep DEF Show
<1>2. CASE List(r)
  <2>1. PICK s \in Answers : Replies(r, s)
    BY <1>2, AnswerNames DEF List
  <2> QED
    BY <1>2, <2>1, CalledFacts, ReplyStep DEF List
<1>3. CASE Subprocess(r)
  <2>1. pc[r] \notin Storing
    BY <1>3, CalledFacts DEF Subprocess
  <2>2. PICK s \in Answers : Replies(r, s)
    BY <1>3, AnswerNames, LoadsNames DEF Subprocess
  <2> QED
    BY <2>1, <2>2, ReplyStep
<1>4. CASE NoInstance(r)
  BY <1>4, AnswerNames, ReplyStep DEF NoInstance, Storing
<1> QED
  BY <1>1, <1>2, <1>3, <1>4

\* /embed, and the attempts of pollUntilDone.
LEMMA EmbedSteps ==
    ASSUME SInv, NEW r \in Requests, Embed(r) \/ RunSync(r) \/ Wait(r) \/ PollStatus(r)
    PROVE  SInv'
<1>1. /\ RequestsType /\ polls[r] \in 0 .. MaxPolls /\ polls = [d \in Requests |-> polls[d]]
      /\ Ready(pc[r], query[r], made[r], polls[r], ball, json, believed)
  BY DEF SInv, RequestsType, RequestsInv
<1>2. pc[r] \in {"arrived", "runsync", "poll", "status"} /\ pc[r] \notin Storing /\ query[r] \in Queries
  <2>1. pc[r] \in {"arrived", "runsync", "poll", "status"}
    BY DEF Embed, Called, RunSync, Wait, PollStatus
  <2>2. pc[r] \notin Storing /\ pc[r] # "idle"
    BY <2>1 DEF Storing
  <2> QED
    BY <1>1, <2>1, <2>2 DEF Ready
<1>3. ASSUME NEW s \in Answers, Replies(r, s)
      PROVE  SInv'
  BY <1>2, <1>3, ReplyStep
<1>4. ASSUME NEW place \in {"runsync", "poll", "status"}, NEW n \in 0 .. MaxPolls, Goes(r, place),
             polls' = [polls EXCEPT ![r] = n], place = "status" => n < MaxPolls,
             UNCHANGED <<files, process, query, made, answer, ghosts, sent, faults>>
      PROVE  SInv'
  <2>1. ProcessType' /\ UNCHANGED <<query, made>> /\ UNCHANGED <<files, ghosts>>
    BY <1>4 DEF SInv, ProcessType, process, ghosts
  <2>2. Ready(place, query[r], made[r], n, ball, json, believed)
    BY <1>2, <1>4 DEF Ready, Storing
  <2>3. place \in Active /\ place \notin Storing
    BY DEF Active, Storing
  <2> QED
    BY <1>2, <1>4, <2>1, <2>2, <2>3, GoStep
<1>5. polls = [polls EXCEPT ![r] = polls[r]]
  BY <1>1, SameAt
<1>6. CASE Embed(r)
  BY <1>1, <1>3, <1>4, <1>5, <1>6, AnswerNames DEF Embed
<1>7. CASE RunSync(r)
  BY <1>1, <1>3, <1>4, <1>5, <1>7, AnswerNames DEF RunSync
<1>8. CASE Wait(r)
  <2>1. ~ Exhausted(polls[r]) => polls[r] < MaxPolls
    BY <1>1, ServerBoundsAssumption DEF Exhausted
  <2> QED
    BY <1>1, <1>3, <1>4, <1>5, <1>8, <2>1, AnswerNames DEF Wait
<1>9. CASE PollStatus(r)
  <2>1. pc[r] = "status" /\ polls[r] + 1 \in 0 .. MaxPolls
    BY <1>1, <1>9, ServerBoundsAssumption DEF PollStatus, Ready
  <2>2. CASE \E s \in {"200", "500"} : Replies(r, s)
    BY <1>3, <2>2, AnswerNames
  <2>3. CASE /\ polls' = [polls EXCEPT ![r] = @ + 1] /\ Goes(r, "poll")
             /\ UNCHANGED <<files, process, query, made, answer, ghosts, sent, faults>>
    BY <1>4, <2>1, <2>3
  <2> QED
    BY <1>9, <2>2, <2>3 DEF PollStatus
<1> QED
  BY <1>6, <1>7, <1>8, <1>9

\* Buffers are counted in naturals.
LEMMA ArenaType ==
    ASSUME NEW q
    PROVE  /\ CopiedIn(q) \in Nat /\ Allocated(q) \in Nat /\ Reset = 0 /\ ParseBuffers = 3
           /\ Used(q) \in Nat /\ CopiedIn(q) <= Used(q)
BY DEF CopiedIn, Allocated, Reset, ParseBuffers, Used

\* verify answers with what the module says, and leaves what it copied in.
LEMMA VerifyResumedStep ==
    ASSUME SInv, NEW r \in Requests, VerifyResumed(r)
    PROVE  SInv'
<1>1. PICK s \in Answers : Answer(r, s)
  BY AnswerNames DEF VerifyResumed
<1>2. arena' \in 0 .. ArenaSize
  <2>1. arena' = IF Used(query[r]) <= ArenaSize THEN Used(query[r]) ELSE ArenaSize
    BY DEF VerifyResumed, Fits
  <2>2. Used(query[r]) \in Nat /\ ArenaSize \in Nat
    BY ArenaType, ServerBoundsAssumption
  <2> QED
    BY <2>1, <2>2
<1>3. pc[r] \notin Storing /\ UNCHANGED <<files, up, bound, wasm, ghosts, sent, faults>>
  BY DEF VerifyResumed, Storing
<1> QED
  BY <1>1, <1>2, <1>3, AnswerStep

\* What is to be stored is an envelope: a new one, or one grown or joined.
LEMMA UpdateResumedStep ==
    ASSUME SInv, NEW r \in Requests, UpdateResumed(r)
    PROVE  SInv'
<1> DEFINE q == query[r]
<1>1. /\ pc[r] = "wasm" /\ Quiet /\ q.route # "verify"
      /\ UNCHANGED <<files, up, bound, wasm, ghosts, sent, faults>>
  BY DEF UpdateResumed
<1>2. /\ q \in Queries /\ q.route \in {"mint", "grow", "join"} /\ pc[r] \notin Storing
      /\ q.route # "mint" => made[r] \in Loaded /\ made[r].fp = q.fp /\ believed[q.fp] # None
  BY <1>1 DEF SInv, RequestsInv, Ready, Updates, Storing
<1>3. CASE ~ Fits(Used(q)) \/ ~ Fits(Reset + ParseBuffers)
  <2>1. Answer(r, "out of memory") /\ arena' = ArenaSize
    BY <1>3 DEF UpdateResumed
  <2>2. arena' \in 0 .. ArenaSize
    <3>1. arena' = ArenaSize
      BY <2>1
    <3>2. ArenaSize \in Nat
      BY ServerBoundsAssumption
    <3> QED
      BY <3>1, <3>2
  <2>3. "out of memory" \in Answers
    BY AnswerNames
  <2> QED
    BY <1>1, <1>2, <2>1, <2>2, <2>3, AnswerStep
<1>4. CASE Fits(Used(q)) /\ Fits(Reset + ParseBuffers) /\ Broken(made[r])
  <2>1. Answer(r, "500") /\ arena' = Reset + CopiedIn(q)
    BY <1>4 DEF UpdateResumed
  <2>2. arena' \in 0 .. ArenaSize
    BY <1>4, <2>1, ArenaType, ServerBoundsAssumption DEF Fits
  <2> QED
    BY <1>1, <1>2, <2>1, <2>2, AnswerNames, AnswerStep
<1>5. CASE Fits(Used(q)) /\ Fits(Reset + ParseBuffers) /\ ~ Broken(made[r])
  <2>1. /\ arena' = ParseBuffers /\ Goes(r, "ball") /\ UNCHANGED <<query, polls, answer>>
        /\ IF q.route = "mint"
           THEN \E f \in Balls : made' = [made EXCEPT ![r] = [fp |-> f, env |-> Minted(q), guild |-> None]]
           ELSE made' = [made EXCEPT ![r].env = Outcome(@, q)]
    BY <1>5 DEF UpdateResumed
  <2>2. ProcessType' /\ UNCHANGED <<believed, torn>>
    BY <1>1, <1>5, <2>1, ArenaType, ServerBoundsAssumption DEF SInv, ProcessType, Fits, ghosts
  <2>3. PICK m : made' = [made EXCEPT ![r] = m] /\ m \in Loaded /\ m.env \in Envelopes
                 /\ (q.route # "mint" => believed[m.fp] # None)
    <3>1. CASE q.route = "mint"
      <4>1. PICK f \in Balls : made' = [made EXCEPT ![r] = [fp |-> f, env |-> Minted(q), guild |-> None]]
        BY <2>1, <3>1
      <4>2. Minted(q) \in Envelopes
        BY <1>2, <3>1, QueryFields, MintedType
      <4> DEFINE m == [fp |-> f, env |-> Minted(q), guild |-> None]
      <4>3. m \in Loaded /\ m.env = Minted(q) /\ made' = [made EXCEPT ![r] = m]
        BY <4>1, <4>2 DEF Loaded
      <4> HIDE DEF m
      <4> QED
        BY <3>1, <4>2, <4>3
    <3>2. CASE q.route # "mint"
      <4> DEFINE e == Outcome(made[r].env, q)
                 m == [made[r] EXCEPT !.env = e]
      <4>1. made[r] \in Loaded /\ made[r] # None /\ made[r].env \in Envelopes
        BY <1>2, <1>5, <3>2, ServerNoneAssumption DEF Broken, Loaded
      <4>2. e \in Envelopes
        BY <1>2, <3>2, <4>1, OutcomeType
      <4>3. made' = [made EXCEPT ![r].env = e]
        BY <2>1, <3>2
      <4> HIDE DEF e
      <4>4. m \in Loaded /\ m.env = e /\ m.fp = made[r].fp
        BY <4>1, <4>2 DEF Loaded
      <4>5. made' = [made EXCEPT ![r] = m]
        BY <4>3
      <4> QED
        BY <1>2, <3>2, <4>2, <4>4, <4>5
    <3> QED
      BY <3>1, <3>2
  <2>4. Ready("ball", q, m, polls[r], ball, json, believed)
    BY <1>2, <2>3 DEF Ready
  <2>5. /\ query' = [query EXCEPT ![r] = q] /\ polls' = [polls EXCEPT ![r] = polls[r]]
        /\ pc' = [pc EXCEPT ![r] = "ball"] /\ polls[r] \in 0 .. MaxPolls /\ "ball" \in Active
    BY <2>1, SameAt DEF SInv, RequestsType, Goes, Active, Storing
  <2> QED
    BY <1>1, <1>2, <2>2, <2>3, <2>4, <2>5, MoveStep
<1> QED
  BY <1>3, <1>4, <1>5

-----------------------------------------------------------------------------
\* A handler that stores is the only one, and its DreamBall the only one halted.
LEMMA StoringFacts ==
    ASSUME SInv, NEW r \in Requests, pc[r] \in Storing
    PROVE  /\ query[r] \in Queries /\ made[r] \in Loaded /\ made[r].fp \in Balls
           /\ made[r].env \in Envelopes /\ made[r].env # None
           /\ query[r].route # "mint" => believed[made[r].fp] # None
           /\ pc[r] \in {"json", "key"} => ball[made[r].fp] = made[r].env
           /\ pc[r] = "key" => json[made[r].fp] = made[r].env
           /\ \A d \in Requests : d # r => pc[d] \notin Storing
           /\ Halted = {made[r].fp}
<1>1. Ready(pc[r], query[r], made[r], polls[r], ball, json, believed)
  BY DEF SInv, RequestsInv
<1>2. /\ query[r] \in Queries /\ made[r] \in Loaded /\ made[r].env \in Envelopes
      /\ query[r].route # "mint" => believed[made[r].fp] # None
      /\ pc[r] \in {"json", "key"} => ball[made[r].fp] = made[r].env
      /\ pc[r] = "key" => json[made[r].fp] = made[r].env
  BY <1>1 DEF Ready, Storing
<1>3. \A d \in Requests : d # r => pc[d] \notin Storing
  BY DEF SInv, RequestsInv
<1>4. Halted = {made[r].fp}
  BY <1>3 DEF Halted
<1>5. made[r].fp \in Balls /\ made[r].env # None
  BY <1>2, ServerNoneAssumption DEF Loaded
<1> QED
  BY <1>2, <1>3, <1>4, <1>5

\* It goes on storing.
LEMMA StoreOnStep ==
    ASSUME SInv, NEW r \in Requests, pc[r] \in Storing, NEW place \in Storing,
           Goes(r, place), UNCHANGED <<key, process, query, made, polls, answer, ghosts, sent, faults>>,
           FilesType', \A f \in Balls : f # made[r].fp => ball'[f] = ball[f] /\ json'[f] = json[f],
           ball'[made[r].fp] # None,
           place \in {"json", "key"} => ball'[made[r].fp] = made[r].env,
           place = "key" => json'[made[r].fp] = made[r].env
    PROVE  SInv'
<1>1. /\ UNCHANGED <<believed, torn, key, query, made, polls>> /\ pc' = [pc EXCEPT ![r] = place]
      /\ RequestsType /\ RequestsInv /\ FilesAgree /\ MintsKept /\ ProcessType'
  BY DEF ghosts, process, Goes, SInv, ProcessType
<1>2. pc'[r] = place /\ \A d \in Requests : d # r => pc'[d] = pc[d] /\ pc[d] \notin Storing
  BY <1>1, StoringFacts DEF RequestsType
<1>3. RequestsType'
  BY <1>1 DEF RequestsType, Active
<1>4. ASSUME NEW d \in Requests
      PROVE  Ready(pc'[d], query'[d], made'[d], polls'[d], ball', json', believed')
  <2>1. CASE d = r
    <3>1. query[r] \in Queries /\ made[r] \in Loaded /\ made[r].env \in Envelopes
          /\ (query[r].route # "mint" => believed[made[r].fp] # None)
      BY StoringFacts
    <3> QED
      BY <1>1, <1>2, <2>1, <3>1 DEF Ready, Storing
  <2>2. CASE d # r
    <3>1. Ready(pc[d], query[d], made[d], polls[d], ball, json, believed) /\ pc[d] \notin Storing
      BY <1>1, <1>2, <2>2 DEF RequestsInv
    <3> QED
      BY <1>1, <1>2, <2>2, <3>1 DEF Ready, Storing
  <2> QED
    BY <2>1, <2>2
<1>5. RequestsInv'
  BY <1>2, <1>4 DEF RequestsInv
<1>6. Halted' = {made[r].fp} /\ Halted = {made[r].fp}
  <2>1. Halted' = {made[r].fp}
    BY <1>1, <1>2 DEF Halted
  <2> QED
    BY <2>1, StoringFacts
<1>7. FilesAgree'
  BY <1>1, <1>6 DEF FilesAgree
<1>8. MintsKept'
  BY <1>1 DEF MintsKept
<1> QED
  BY <1>1, <1>3, <1>5, <1>7, <1>8 DEF SInv

\* It has stored everything and answers: clients believe what the files say.
LEMMA StandsStep ==
    ASSUME SInv, NEW r \in Requests, pc[r] \in {"json", "key"}, Stands(r),
           UNCHANGED <<ball, process, overlapped, sent, faults>>, FilesType',
           \A f \in Balls : f # made[r].fp => json'[f] = json[f] /\ key'[f] = key[f],
           json'[made[r].fp] = made[r].env, key'[made[r].fp]
    PROVE  SInv'
<1> DEFINE fp == made[r].fp
           e  == made[r].env
<1>1. /\ RequestsType /\ RequestsInv /\ FilesAgree /\ MintsKept /\ pc[r] \in Storing
      /\ fp \in Balls /\ e # None /\ ball[fp] = e /\ Halted = {fp}
      /\ \A d \in Requests : d # r => pc[d] \notin Storing
  BY StoringFacts DEF SInv, Storing
<1>2. /\ pc' = [pc EXCEPT ![r] = "idle"] /\ answer' = "200"
      /\ query' = [query EXCEPT ![r] = None] /\ made' = [made EXCEPT ![r] = None]
      /\ polls' = [polls EXCEPT ![r] = 0]
      /\ believed' = [believed EXCEPT ![fp] = e] /\ torn' = torn \ {fp}
  BY DEF Stands, Answer, Goes
<1> HIDE DEF fp, e
<1>3. ProcessType'
  <2>1. answer' \in Answers
    BY <1>2, AnswerNames
  <2> QED
    BY <2>1 DEF SInv, ProcessType, process
<1>4. RequestsType'
  BY <1>1, <1>2, ServerBoundsAssumption DEF RequestsType
<1>5. /\ pc'[r] = "idle"
      /\ \A d \in Requests : d # r => /\ pc'[d] = pc[d] /\ query'[d] = query[d]
                                      /\ made'[d] = made[d] /\ polls'[d] = polls[d]
  BY <1>1, <1>2 DEF RequestsType
<1>6. /\ believed'[fp] = e /\ \A f \in Balls : f # fp => believed'[f] = believed[f]
  BY <1>1, <1>2 DEF SInv, FilesType
<1>7. ASSUME NEW d \in Requests
      PROVE  /\ Ready(pc'[d], query'[d], made'[d], polls'[d], ball', json', believed')
             /\ pc'[d] \notin Storing
  <2>1. CASE d = r
    BY <1>5, <2>1 DEF Ready, Storing
  <2>2. CASE d # r
    <3>1. Ready(pc[d], query[d], made[d], polls[d], ball, json, believed) /\ pc[d] \notin Storing
      BY <1>1, <2>2 DEF RequestsInv
    <3>2. FilesType /\ \A f \in Balls : believed[f] # None => believed'[f] # None
      BY <1>1, <1>6 DEF SInv
    <3> QED
      BY <1>5, <2>2, <3>1, <3>2, ReadyKept
  <2> QED
    BY <2>1, <2>2
<1>8. RequestsInv'
  BY <1>7 DEF RequestsInv
<1>9. Halted' = {}
  BY <1>7 DEF Halted
<1>10. json'[fp] = e /\ key'[fp] /\ \A f \in Balls : f # fp => json'[f] = json[f] /\ key'[f] = key[f]
  BY DEF fp, e
<1>11. FilesAgree'
  BY <1>1, <1>2, <1>6, <1>9, <1>10 DEF FilesAgree
<1>12. MintsKept'
  BY <1>1, <1>6, <1>10 DEF MintsKept
<1> QED
  BY <1>3, <1>4, <1>8, <1>11, <1>12 DEF SInv

\* The three writes of an update or a mint.
LEMMA StoreSteps ==
    ASSUME SInv, NEW r \in Requests, StoreBall(r) \/ StoreJson(r) \/ StoreKey(r)
    PROVE  SInv'
<1> DEFINE fp == made[r].fp
           e  == made[r].env
<1>1. pc[r] \in Storing /\ FilesType /\ MintsKept
  BY DEF StoreBall, StoreJson, StoreKey, Storing, SInv
<1>2. /\ fp \in Balls /\ e \in Envelopes /\ e # None
      /\ query[r].route # "mint" => believed[fp] # None
      /\ pc[r] \in {"json", "key"} => ball[fp] = e
      /\ pc[r] = "key" => json[fp] = e
  BY <1>1, StoringFacts
<1> HIDE DEF fp, e
<1>3. CASE StoreBall(r)
  <2>1. /\ ball' = [ball EXCEPT ![fp] = e] /\ Goes(r, "json")
        /\ UNCHANGED <<json, key, process, query, made, polls, answer, ghosts, sent, faults>>
    BY <1>3 DEF StoreBall, fp, e
  <2>2. FilesType' /\ ball'[fp] = e /\ \A f \in Balls : f # fp => ball'[f] = ball[f]
    BY <1>1, <1>2, <2>1 DEF FilesType, ghosts
  <2>3. "json" \in Storing
    BY DEF Storing
  <2> QED
    BY <1>1, <1>2, <2>1, <2>2, <2>3, StoreOnStep DEF fp, e
<1>4. CASE StoreJson(r)
  <2>1. /\ json' = [json EXCEPT ![fp] = e] /\ pc[r] = "json"
        /\ UNCHANGED <<ball, key, process, overlapped, sent, faults>>
        /\ IF query[r].route = "mint"
           THEN Goes(r, "key") /\ UNCHANGED <<query, made, polls, answer, believed, torn>>
           ELSE Stands(r)
    BY <1>4 DEF StoreJson, AfterJson, Rendered, fp, e
  <2>2. json'[fp] = e /\ \A f \in Balls : f # fp => json'[f] = json[f]
    BY <1>1, <1>2, <2>1 DEF FilesType
  <2>3. CASE query[r].route = "mint"
    <3>1. FilesType'
      BY <1>1, <1>2, <2>1, <2>3 DEF FilesType
    <3>2. "key" \in Storing
      BY DEF Storing
    <3> QED
      BY <1>1, <1>2, <2>1, <2>2, <2>3, <3>1, <3>2, StoreOnStep DEF fp, e, ghosts
  <2>4. CASE query[r].route # "mint"
    <3>1. believed' = [believed EXCEPT ![fp] = e] /\ torn' = torn \ {fp}
      BY <2>1, <2>4 DEF Stands, fp, e
    <3>2. FilesType'
      BY <1>1, <1>2, <2>1, <3>1 DEF FilesType
    <3>3. key[fp]
      BY <1>1, <1>2, <2>4 DEF MintsKept
    <3> QED
      BY <2>1, <2>2, <2>4, <3>2, <3>3, StandsStep DEF fp, e
  <2> QED
    BY <2>3, <2>4
<1>5. CASE StoreKey(r)
  <2>1. /\ key' = [key EXCEPT ![fp] = TRUE] /\ pc[r] = "key" /\ Stands(r)
        /\ UNCHANGED <<ball, json, process, overlapped, sent, faults>>
    BY <1>5 DEF StoreKey, fp
  <2>2. believed' = [believed EXCEPT ![fp] = e] /\ torn' = torn \ {fp}
    BY <2>1 DEF Stands, fp, e
  <2>3. FilesType' /\ key'[fp] /\ \A f \in Balls : f # fp => key'[f] = key[f]
    BY <1>1, <1>2, <2>1, <2>2 DEF FilesType
  <2> QED
    BY <1>2, <2>1, <2>3, StandsStep DEF fp, e
<1> QED
  BY <1>3, <1>4, <1>5

-----------------------------------------------------------------------------
\* A write that is cut short touches the DreamBall that was being stored.
LEMMA CutFile ==
    ASSUME NEW file \in [Balls -> Envelopes \cup {None, Torn}], NEW place \in Storing
    PROVE  /\ Cut(file, place) \in [Balls -> Envelopes \cup {None, Torn}]
           /\ \A f \in Balls : f \notin Halted => Cut(file, place)[f] = file[f]
           /\ \A f \in Balls : file[f] # None => Cut(file, place)[f] # None
BY ServerNoneAssumption DEF Cut, Halted

\* What a failing write and a death leave: the files of every other DreamBall,
\* and no file fewer.
LEMMA FilesCut ==
    ASSUME SInv, ball' \in {ball, Cut(ball, "ball")}, json' \in {json, Cut(json, "json")},
           UNCHANGED <<key, believed>>, torn' = torn \cup Halted
    PROVE  FilesType' /\ MintsKept'
           /\ \A f \in Balls \ torn' : json'[f] = ball'[f] /\ ball'[f] = believed'[f]
<1>1. FilesType /\ FilesAgree /\ MintsKept /\ RequestsInv /\ "ball" \in Storing /\ "json" \in Storing
  BY DEF SInv, Storing
<1>2. /\ ball' \in [Balls -> Envelopes \cup {None, Torn}]
      /\ \A f \in Balls : f \notin Halted => ball'[f] = ball[f]
      /\ \A f \in Balls : ball[f] # None => ball'[f] # None
  BY <1>1, CutFile DEF FilesType
<1>3. /\ json' \in [Balls -> Envelopes \cup {None, Torn}]
      /\ \A f \in Balls : f \notin Halted => json'[f] = json[f]
  BY <1>1, CutFile DEF FilesType
<1>4. Halted \subseteq Balls
  BY StoringFacts DEF Halted
<1>5. FilesType'
  BY <1>1, <1>2, <1>3, <1>4 DEF FilesType
<1>6. MintsKept'
  BY <1>1, <1>2 DEF MintsKept
<1>7. \A f \in Balls \ torn' : json'[f] = ball'[f] /\ ball'[f] = believed'[f]
  BY <1>1, <1>2, <1>3 DEF FilesAgree
<1> QED
  BY <1>5, <1>6, <1>7

\* The process dies.
LEMMA CrashStep ==
    ASSUME SInv, Crash
    PROVE  SInv'
<1>1. /\ FilesType' /\ MintsKept'
      /\ \A f \in Balls \ torn' : json'[f] = ball'[f] /\ ball'[f] = believed'[f]
  BY FilesCut DEF Crash
<1>2. ProcessType'
  <2>1. /\ faults < MaxFaults /\ faults' = faults + 1 /\ up' = "down" /\ bound' = None
        /\ wasm' = "none" /\ arena' = 0 /\ answer' = None /\ UNCHANGED <<overlapped, sent>>
    BY DEF Crash
  <2> QED
    BY <2>1, ServerBoundsAssumption DEF SInv, ProcessType
<1>3. /\ query' = [r \in Requests |-> None] /\ pc' = [r \in Requests |-> "idle"]
      /\ made' = [r \in Requests |-> None] /\ polls' = [r \in Requests |-> 0]
  BY DEF Crash
<1>4. RequestsType'
  BY <1>3, ServerBoundsAssumption DEF RequestsType
<1>5. RequestsInv'
  BY <1>3 DEF RequestsInv, Ready, Storing
<1>6. FilesAgree'
  BY <1>1 DEF FilesAgree
<1> QED
  BY <1>1, <1>2, <1>4, <1>5, <1>6 DEF SInv

\* A write throws and the handler answers 500.
LEMMA FailStep ==
    ASSUME SInv, NEW r \in Requests, StoreFails(r)
    PROVE  SInv'
<1>1. /\ pc[r] \in Storing /\ Answer(r, "500") /\ torn' = torn \cup {made[r].fp}
      /\ ball' \in {ball, Cut(ball, "ball")} /\ json' \in {json, Cut(json, "json")}
      /\ UNCHANGED <<key, process, believed, overlapped, sent>>
      /\ faults < MaxFaults /\ faults' = faults + 1
  BY DEF StoreFails
<1>2. /\ FilesType' /\ MintsKept'
      /\ \A f \in Balls \ torn' : json'[f] = ball'[f] /\ ball'[f] = believed'[f]
  BY <1>1, StoringFacts, FilesCut
<1>3. ProcessType'
  <2>1. answer' \in Answers
    BY <1>1, AnswerNames DEF Answer
  <2> QED
    BY <1>1, <2>1, ServerBoundsAssumption DEF SInv, ProcessType, process
<1>4. /\ pc' = [pc EXCEPT ![r] = "idle"] /\ query' = [query EXCEPT ![r] = None]
      /\ made' = [made EXCEPT ![r] = None] /\ polls' = [polls EXCEPT ![r] = 0]
  BY <1>1 DEF Answer, Goes
<1>5. RequestsType' /\ RequestsType
  BY <1>4, ServerBoundsAssumption DEF SInv, RequestsType
<1>6. /\ pc'[r] = "idle"
      /\ \A d \in Requests : d # r => /\ pc'[d] = pc[d] /\ query'[d] = query[d]
                                      /\ made'[d] = made[d] /\ polls'[d] = polls[d]
  BY <1>4, <1>5 DEF RequestsType
<1>7. ASSUME NEW d \in Requests
      PROVE  /\ Ready(pc'[d], query'[d], made'[d], polls'[d], ball', json', believed')
             /\ pc'[d] \notin Storing
  <2>1. CASE d = r
    BY <1>6, <2>1 DEF Ready, Storing
  <2>2. CASE d # r
    <3>1. Ready(pc[d], query[d], made[d], polls[d], ball, json, believed) /\ pc[d] \notin Storing
      BY <1>1, <2>2, StoringFacts DEF SInv, RequestsInv
    <3>2. FilesType /\ \A f \in Balls : believed[f] # None => believed'[f] # None
      BY <1>1 DEF SInv
    <3> QED
      BY <1>6, <2>2, <3>1, <3>2, ReadyKept
  <2> QED
    BY <2>1, <2>2
<1>8. RequestsInv'
  BY <1>7 DEF RequestsInv
<1>9. FilesAgree'
  BY <1>2 DEF FilesAgree
<1> QED
  BY <1>2, <1>3, <1>5, <1>8, <1>9 DEF SInv

\* Every step of the server preserves the invariant.
LEMMA ServerSteps ==
    ASSUME SInv, [Next]_vars
    PROVE  SInv'
<1>1. CASE Start
  <2>1. ProcessType' /\ UNCHANGED <<files, query, pc, made, polls, believed, torn>>
    BY <1>1 DEF Start, SInv, ProcessType, ghosts
  <2> QED
    BY <2>1, ProcessStep
<1>2. CASE Bind
  <2>1. ProcessType' /\ UNCHANGED <<files, query, pc, made, polls, believed, torn>>
    BY <1>2 DEF Bind, SInv, ProcessType, ghosts
  <2> QED
    BY <2>1, ProcessStep
<1>3. CASE Instantiate
  <2>1. ProcessType' /\ UNCHANGED <<files, query, pc, made, polls, believed, torn>>
    BY <1>3 DEF Instantiate, SInv, ProcessType, ghosts
  <2> QED
    BY <2>1, ProcessStep
<1>4. CASE Crash
  BY <1>4, CrashStep
<1>5. ASSUME NEW r \in Requests, NEW q \in Queries, Arrive(r, q)
      PROVE  SInv'
  BY <1>5, ArriveStep
<1>6. ASSUME NEW r \in Requests, Handler(r) \/ StoreFails(r)
      PROVE  SInv'
  BY <1>6, MintStep, LoadStep, VerifyStep, ReadSteps, EmbedSteps, VerifyResumedStep,
     UpdateResumedStep, StoreSteps, FailStep DEF Handler
<1>7. CASE UNCHANGED vars
  <2>1. ProcessType' /\ UNCHANGED <<files, query, pc, made, polls, believed, torn>>
    BY <1>7 DEF vars, SInv, ProcessType, process, ghosts
  <2> QED
    BY <2>1, ProcessStep
<1> QED
  BY <1>1, <1>2, <1>3, <1>4, <1>5, <1>6, <1>7 DEF Next

-----------------------------------------------------------------------------
\* One handler at a time stores; what it has stored so far is what it holds; and
\* the DreamBall of an update is one a client knows.
THEOREM ServerInvariant == Spec => []SInv
<1>1. Init => SInv
  <2> SUFFICES ASSUME Init PROVE SInv
    OBVIOUS
  <2>1. Minted([name |-> None]) \in Envelopes
    BY MintedType
  <2> DEFINE e == Minted([name |-> None])
  <2>2. e \in Envelopes /\ believed = [f \in Balls |-> IF f \in Stored THEN e ELSE None]
    BY <2>1 DEF Init
  <2> HIDE DEF e
  <2>3. FilesType /\ FilesAgree /\ MintsKept
    <3>1. ball = believed /\ json = believed /\ torn = {}
      BY DEF Init
    <3>2. believed \in [Balls -> Envelopes \cup {None}]
      BY <2>2
    <3>3. key = [f \in Balls |-> f \in Stored]
      BY DEF Init
    <3>4. key \in [Balls -> BOOLEAN]
      BY <3>3
    <3>5. FilesType
      BY <3>1, <3>2, <3>4 DEF FilesType
    <3>6. FilesAgree
      BY <3>1 DEF FilesAgree
    <3>7. \A f \in Balls : f \in Stored => key[f]
      BY <3>3
    <3>8. ASSUME NEW f \in Balls, believed[f] # None PROVE f \in Stored
      BY <2>2, <3>8
    <3>9. MintsKept
      BY <3>1, <3>7, <3>8 DEF MintsKept
    <3> QED
      BY <3>5, <3>6, <3>9
  <2>4. ProcessType
    BY ServerBoundsAssumption DEF Init, ProcessType
  <2>5. RequestsType
    BY ServerBoundsAssumption DEF Init, RequestsType
  <2>6. RequestsInv
    BY DEF Init, RequestsInv, Ready, Storing
  <2> QED
    BY <2>3, <2>4, <2>5, <2>6 DEF SInv
<1>2. SInv /\ [Next]_vars => SInv'
  BY ServerSteps
<1> QED
  BY <1>1, <1>2, PTL DEF Spec

\* Every variable keeps its type, whatever is asked and whatever fails.
THEOREM ServerTypeCorrect == Spec => []TypeOK
<1>1. SInv => TypeOK
  BY DEF SInv, TypeOK, ProcessType, FilesType, RequestsType
<1> QED
  BY <1>1, ServerInvariant, PTL

\* The envelope, its cached rendering and what the last answer told agree, but for
\* the DreamBall being stored and those whose last update was cut short.
THEOREM ServerFilesAgree == Spec => []FilesAgree
<1>1. SInv => FilesAgree
  BY DEF SInv
<1> QED
  BY <1>1, ServerInvariant, PTL

\* Of a DreamBall a client was told of, the server keeps a file and the key.
THEOREM ServerMintsKept == Spec => []MintsKept
<1>1. SInv => MintsKept
  BY DEF SInv
<1> QED
  BY <1>1, ServerInvariant, PTL

-----------------------------------------------------------------------------
(***************************************************************************)
(* Growths accumulate.  What a handler loads before its await may be stale *)
(* after it, but only if another request updated the same DreamBall in     *)
(* between, and then the DreamBall is overlapped.                          *)
(***************************************************************************)

\* e is b, or what updates have made of b.
Follows(e, b) ==
    /\ e.rev >= b.rev /\ b.guilds \subseteq e.guilds
    /\ b.stage = "dreamball" => e.stage = "dreamball"

\* A request has loaded f to update it and not answered yet.
Busy(place, q, f) == place \in {"wasm"} \cup Storing /\ Updates(q) /\ q.fp = f

\* Unless its DreamBall is overlapped, a handler holds the envelope on disk, then
\* one that follows what clients know; a mint is of a DreamBall nobody knows.
Growing(place, q, m, b, known, over) ==
    /\ place = "wasm" /\ Updates(q) => q.fp \in over \/ m.env = b[q.fp]
    /\ place \in Storing /\ q.route = "mint" => known[m.fp] = None
    /\ place \in Storing /\ q.route # "mint" =>
          /\ Updates(q) /\ m.fp = q.fp
          /\ m.fp \in over \/ (Follows(m.env, known[m.fp]) /\ m.env.rev > known[m.fp].rev)

\* The envelope on disk follows what clients know, unless it was cut off.
DiskFollows ==
    \A f \in Balls \ overlapped :
        believed[f] # None /\ ball[f] # Torn => Follows(ball[f], believed[f])

\* Two requests that update a DreamBall at the same time overlap.
OverlapSeen ==
    \A r, d \in Requests, f \in Balls :
        r # d /\ Busy(pc[r], query[r], f) /\ Busy(pc[d], query[d], f) => f \in overlapped

GrowthInv ==
    /\ DiskFollows /\ OverlapSeen
    /\ \A r \in Requests : Growing(pc[r], query[r], made[r], ball, believed, overlapped)

\* An update follows the envelope it was made of, and has a later revision.
LEMMA OutcomeFollows ==
    ASSUME NEW q \in Queries, q.route \in {"grow", "join"},
           NEW e \in Envelopes, NEW b \in Envelopes, Follows(e, b)
    PROVE  Follows(Outcome(e, q), b) /\ Outcome(e, q).rev > b.rev
<1>1. e.rev \in Nat /\ b.rev \in Nat
  BY DEF Envelopes
<1>2. CASE q.route = "grow"
  <2>1. /\ Outcome(e, q).rev = e.rev + 1 /\ Outcome(e, q).guilds = e.guilds
        /\ e.stage = "dreamball" => Outcome(e, q).stage = "dreamball"
    BY <1>2 DEF Outcome, Grown, Envelopes
  <2> QED
    BY <1>1, <2>1 DEF Follows
<1>3. CASE q.route = "join"
  <2>1. /\ Outcome(e, q).rev = e.rev + 1 /\ e.guilds \subseteq Outcome(e, q).guilds
        /\ Outcome(e, q).stage = "dreamball"
    BY <1>3 DEF Outcome, Joined, Envelopes
  <2> QED
    BY <1>1, <2>1 DEF Follows
<1> QED
  BY <1>2, <1>3

\* A step of one handler: the others keep their places, and what they hold is
\* what is on disk unless their DreamBall is overlapped.
LEMMA GrowthMoves ==
    ASSUME SInv, GrowthInv, NEW r \in Requests, overlapped \subseteq overlapped', DiskFollows',
           \A d \in Requests \ {r} :
               /\ pc'[d] = pc[d] /\ query'[d] = query[d] /\ made'[d] = made[d]
               /\ pc[d] = "wasm" /\ Updates(query[d]) =>
                     query[d].fp \in overlapped' \/ ball'[query[d].fp] = ball[query[d].fp]
               /\ pc[d] \in Storing => UNCHANGED <<ball, believed>>,
           Growing(pc'[r], query'[r], made'[r], ball', believed', overlapped'),
           \A f \in Balls : Busy(pc'[r], query'[r], f) =>
               \/ Busy(pc[r], query[r], f)
               \/ \A d \in Requests \ {r} : Busy(pc[d], query[d], f) => f \in overlapped'
    PROVE  GrowthInv'
<1>1. ASSUME NEW d \in Requests \ {r}
      PROVE  Growing(pc'[d], query'[d], made'[d], ball', believed', overlapped')
  <2>1. /\ pc'[d] = pc[d] /\ query'[d] = query[d] /\ made'[d] = made[d]
        /\ pc[d] = "wasm" /\ Updates(query[d]) =>
              query[d].fp \in overlapped' \/ ball'[query[d].fp] = ball[query[d].fp]
        /\ pc[d] \in Storing => UNCHANGED <<ball, believed>>
        /\ Growing(pc[d], query[d], made[d], ball, believed, overlapped)
    BY <1>1 DEF GrowthInv
  <2> QED
    BY <2>1 DEF Growing, Storing
<1>2. \A d \in Requests : Growing(pc'[d], query'[d], made'[d], ball', believed', overlapped')
  BY <1>1
<1>3. ASSUME NEW d \in Requests, NEW e \in Requests, NEW f \in Balls, d # e,
             Busy(pc'[d], query'[d], f), Busy(pc'[e], query'[e], f)
      PROVE  f \in overlapped'
  <2>1. \A c \in Requests \ {r} : Busy(pc'[c], query'[c], f) => Busy(pc[c], query[c], f)
    OBVIOUS
  <2>2. CASE d = r
    BY <1>3, <2>1, <2>2 DEF GrowthInv, OverlapSeen
  <2>3. CASE e = r
    BY <1>3, <2>1, <2>3 DEF GrowthInv, OverlapSeen
  <2>4. CASE d # r /\ e # r
    BY <1>3, <2>1, <2>4 DEF GrowthInv, OverlapSeen
  <2> QED
    BY <2>2, <2>3, <2>4
<1> QED
  BY <1>2, <1>3 DEF GrowthInv, OverlapSeen

\* The functions of the requests, changed at one.
LEMMA OneRequest ==
    ASSUME SInv, NEW r \in Requests, NEW p, NEW q, NEW m,
           pc' = [pc EXCEPT ![r] = p], query' = [query EXCEPT ![r] = q], made' = [made EXCEPT ![r] = m]
    PROVE  /\ pc'[r] = p /\ query'[r] = q /\ made'[r] = m
           /\ \A d \in Requests \ {r} :
                  pc'[d] = pc[d] /\ query'[d] = query[d] /\ made'[d] = made[d]
BY DEF SInv, RequestsType

\* The same, when some of the three stay.
LEMMA StayingRequest ==
    ASSUME SInv, NEW r \in Requests
    PROVE  /\ query = [query EXCEPT ![r] = query[r]]
           /\ made = [made EXCEPT ![r] = made[r]]
BY SameAt DEF SInv, RequestsType

\* A step that leaves files and clients alone, and takes a handler nowhere it
\* would store.
LEMMA GrowthIdles ==
    ASSUME SInv, GrowthInv, NEW r \in Requests, NEW p, NEW q, NEW m,
           p \notin {"wasm"} \cup Storing, UNCHANGED <<ball, believed, overlapped>>,
           pc' = [pc EXCEPT ![r] = p], query' = [query EXCEPT ![r] = q], made' = [made EXCEPT ![r] = m]
    PROVE  GrowthInv'
<1>1. DiskFollows'
  BY DEF GrowthInv, DiskFollows
<1>2. Growing(pc'[r], query'[r], made'[r], ball', believed', overlapped')
      /\ \A f : ~ Busy(pc'[r], query'[r], f)
  BY OneRequest DEF Growing, Busy
<1> QED
  BY <1>1, <1>2, OneRequest, GrowthMoves

\* Nothing a growth is about changes.
LEMMA GrowthStays ==
    ASSUME GrowthInv, UNCHANGED <<ball, believed, overlapped, pc, query, made>>
    PROVE  GrowthInv'
BY DEF GrowthInv, DiskFollows, OverlapSeen

\* The handlers that only answer, and those of /embed.
LEMMA GrowthReplies ==
    ASSUME SInv, GrowthInv, NEW r \in Requests,
           \/ Show(r) \/ List(r) \/ Subprocess(r) \/ Embed(r) \/ RunSync(r) \/ Wait(r)
           \/ PollStatus(r) \/ NoInstance(r) \/ VerifyResumed(r)
    PROVE  GrowthInv'
<1>1. ASSUME NEW s, Answer(r, s), UNCHANGED <<files, ghosts>>
      PROVE  GrowthInv'
  <2>1. UNCHANGED <<ball, believed, overlapped>> /\ pc' = [pc EXCEPT ![r] = "idle"]
        /\ query' = [query EXCEPT ![r] = None] /\ made' = [made EXCEPT ![r] = None]
        /\ "idle" \notin {"wasm"} \cup Storing
    BY <1>1 DEF Answer, Goes, files, ghosts, Storing
  <2> QED
    BY <2>1, GrowthIdles
<1>2. ASSUME NEW s, Replies(r, s)
      PROVE  GrowthInv'
  BY <1>1, <1>2 DEF Replies
<1>3. ASSUME NEW place \in {"runsync", "poll", "status"}, Goes(r, place),
             UNCHANGED <<query, made, files, ghosts>>
      PROVE  GrowthInv'
  <2>1. UNCHANGED <<ball, believed, overlapped>> /\ pc' = [pc EXCEPT ![r] = place]
        /\ query' = [query EXCEPT ![r] = query[r]] /\ made' = [made EXCEPT ![r] = made[r]]
        /\ place \notin {"wasm"} \cup Storing
    BY <1>3, StayingRequest DEF Goes, files, ghosts, Storing
  <2> QED
    BY <2>1, GrowthIdles
<1>4. CASE Show(r) \/ List(r) \/ Subprocess(r) \/ NoInstance(r)
  BY <1>2, <1>4 DEF Show, List, Subprocess, NoInstance
<1>5. CASE Embed(r)
  BY <1>2, <1>3, <1>5 DEF Embed
<1>6. CASE RunSync(r)
  BY <1>2, <1>3, <1>6 DEF RunSync
<1>7. CASE Wait(r)
  BY <1>2, <1>3, <1>7 DEF Wait
<1>8. CASE PollStatus(r)
  BY <1>2, <1>3, <1>8 DEF PollStatus
<1>9. CASE VerifyResumed(r)
  BY <1>1, <1>9 DEF VerifyResumed
<1> QED
  BY <1>4, <1>5, <1>6, <1>7, <1>8, <1>9

\* A handler has loaded what it updates, or nothing.
LEMMA GrowthAwaits ==
    ASSUME SInv, GrowthInv, NEW r \in Requests, NEW m, AwaitWasm(r, m), Quiet,
           overlapped \subseteq overlapped',
           Updates(query[r]) =>
               /\ m.env = ball[query[r].fp]
               /\ Updating(query[r].fp, r) => query[r].fp \in overlapped'
    PROVE  GrowthInv'
<1>1. /\ UNCHANGED <<ball, believed>> /\ pc' = [pc EXCEPT ![r] = "wasm"]
      /\ query' = [query EXCEPT ![r] = query[r]] /\ made' = [made EXCEPT ![r] = m]
  BY StayingRequest DEF AwaitWasm, Goes, files
<1>2. /\ pc'[r] = "wasm" /\ query'[r] = query[r] /\ made'[r] = m
      /\ \A d \in Requests \ {r} :
             pc'[d] = pc[d] /\ query'[d] = query[d] /\ made'[d] = made[d]
  BY <1>1, OneRequest
<1>3. DiskFollows'
  BY <1>1 DEF GrowthInv, DiskFollows
<1>4. Growing(pc'[r], query'[r], made'[r], ball', believed', overlapped')
  BY <1>1, <1>2 DEF Growing, Storing
<1>5. ASSUME NEW f \in Balls, NEW d \in Requests \ {r},
             Busy(pc'[r], query'[r], f), Busy(pc[d], query[d], f)
      PROVE  f \in overlapped'
  <2>1. Updates(query[r]) /\ query[r].fp = f /\ Updates(query[d]) /\ query[d].fp = f
    BY <1>2, <1>5 DEF Busy
  <2>2. pc[d] = "wasm"
    BY <1>5 DEF Busy, Quiet
  <2> QED
    BY <2>1, <2>2 DEF Updating
<1> QED
  BY <1>1, <1>2, <1>3, <1>4, <1>5, GrowthMoves

\* The handlers up to their await.
LEMMA GrowthLoads ==
    ASSUME SInv, GrowthInv, NEW r \in Requests, Mint(r) \/ LoadForUpdate(r) \/ Verify(r)
    PROVE  GrowthInv'
<1>1. Quiet /\ pc[r] = "arrived"
  BY DEF Mint, LoadForUpdate, Verify, Called
<1>2. ASSUME NEW s, Replies(r, s)
      PROVE  GrowthInv'
  <2>1. UNCHANGED <<ball, believed, overlapped>> /\ pc' = [pc EXCEPT ![r] = "idle"]
        /\ query' = [query EXCEPT ![r] = None] /\ made' = [made EXCEPT ![r] = None]
        /\ "idle" \notin {"wasm"} \cup Storing
    BY <1>2 DEF Replies, Answer, Goes, files, ghosts, Storing
  <2> QED
    BY <2>1, GrowthIdles
<1>3. CASE Mint(r)
  BY <1>1, <1>3, GrowthAwaits DEF Mint, Called, Updates
<1>4. CASE Verify(r)
  <2>1. CASE Loads(r, query[r].fp) # "200"
    BY <1>2, <1>4, <2>1 DEF Verify
  <2>2. CASE Loads(r, query[r].fp) = "200"
    <3>1. AwaitWasm(r, [fp |-> query[r].fp, form |-> "json"]) /\ UNCHANGED overlapped
          /\ ~ Updates(query[r])
      BY <1>4, <2>2 DEF Verify, Called, Updates
    <3> QED
      BY <1>1, <3>1, GrowthAwaits
  <2> QED
    BY <2>1, <2>2
<1>5. CASE LoadForUpdate(r)
  <2> DEFINE q == query[r]
             missing == ball[q.fp] = None \/ (q.route = "join" /\ ball[q.guild] = None)
             m == [fp |-> q.fp, env |-> ball[q.fp],
                   guild |-> IF q.route = "join" THEN ball[q.guild] ELSE None]
  <2>1. CASE missing \/ ~ q.valid
    BY <1>2, <1>5, <2>1 DEF LoadForUpdate
  <2>2. CASE ~ missing /\ q.valid
    <3>1. /\ AwaitWasm(r, m)
          /\ overlapped' = IF Updating(q.fp, r) THEN overlapped \cup {q.fp} ELSE overlapped
      BY <1>5, <2>2 DEF LoadForUpdate
    <3>2. m.env = ball[q.fp]
      OBVIOUS
    <3> HIDE DEF m
    <3> QED
      BY <1>1, <3>1, <3>2, GrowthAwaits
  <2> QED
    BY <2>1, <2>2
<1> QED
  BY <1>3, <1>4, <1>5

\* The export's result follows the envelope that was loaded.
LEMMA GrowthExports ==
    ASSUME SInv, GrowthInv, NEW r \in Requests, UpdateResumed(r)
    PROVE  GrowthInv'
<1> DEFINE q == query[r]
<1>1. /\ pc[r] = "wasm" /\ Quiet /\ q.route # "verify" /\ UNCHANGED <<ball, believed, overlapped>>
      /\ FilesType /\ MintsKept
  BY DEF UpdateResumed, files, ghosts, SInv
<1>2. /\ q \in Queries /\ q.route \in {"mint", "grow", "join"}
      /\ q.route # "mint" => /\ made[r] \in Loaded /\ made[r].fp = q.fp /\ believed[q.fp] # None
                             /\ Updates(q) /\ q.fp \in Balls
  <2>1. Ready(pc[r], query[r], made[r], polls[r], ball, json, believed)
    BY DEF SInv, RequestsInv
  <2> QED
    BY <1>1, <2>1, QueryFields DEF Ready, Updates, Storing
<1>3. ASSUME NEW s, Answer(r, s)
      PROVE  GrowthInv'
  <2>1. pc' = [pc EXCEPT ![r] = "idle"]
        /\ query' = [query EXCEPT ![r] = None] /\ made' = [made EXCEPT ![r] = None]
        /\ "idle" \notin {"wasm"} \cup Storing
    BY <1>3 DEF Answer, Goes, Storing
  <2> QED
    BY <1>1, <2>1, GrowthIdles
<1>4. ASSUME NEW m, made' = [made EXCEPT ![r] = m], Goes(r, "ball"), UNCHANGED query,
             Growing("ball", q, m, ball, believed, overlapped)
      PROVE  GrowthInv'
  <2>1. pc' = [pc EXCEPT ![r] = "ball"] /\ query' = [query EXCEPT ![r] = q]
    BY <1>4, StayingRequest DEF Goes
  <2>2. /\ pc'[r] = "ball" /\ query'[r] = q /\ made'[r] = m
        /\ \A d \in Requests \ {r} :
               pc'[d] = pc[d] /\ query'[d] = query[d] /\ made'[d] = made[d]
    BY <1>4, <2>1, OneRequest
  <2>3. DiskFollows'
    BY <1>1 DEF GrowthInv, DiskFollows
  <2>4. \A f \in Balls : Busy(pc'[r], query'[r], f) => Busy(pc[r], query[r], f)
    BY <1>1, <2>2 DEF Busy
  <2> QED
    BY <1>1, <1>4, <2>2, <2>3, <2>4, GrowthMoves
<1>5. CASE q.route = "mint"
  <2>1. CASE \E s : Answer(r, s)
    BY <1>3, <2>1
  <2>2. CASE \E f \in Balls : /\ Unused(f) /\ Goes(r, "ball") /\ UNCHANGED query
                              /\ made' = [made EXCEPT ![r] = [fp |-> f, env |-> Minted(q), guild |-> None]]
    <3>1. PICK f \in Balls :
              /\ Unused(f) /\ Goes(r, "ball") /\ UNCHANGED query
              /\ made' = [made EXCEPT ![r] = [fp |-> f, env |-> Minted(q), guild |-> None]]
      BY <2>2
    <3>2. believed[f] = None
      BY <1>1, <3>1 DEF Unused, MintsKept
    <3>3. Growing("ball", q, [fp |-> f, env |-> Minted(q), guild |-> None], ball, believed, overlapped)
      BY <1>5, <3>2 DEF Growing
    <3> QED
      BY <1>4, <3>1, <3>3
  <2> QED
    BY <1>5, <2>1, <2>2 DEF UpdateResumed
<1>6. CASE q.route # "mint"
  <2> DEFINE e == Outcome(made[r].env, q)
             m == [made[r] EXCEPT !.env = e]
  <2>1. CASE \E s : Answer(r, s)
    BY <1>3, <2>1
  <2>2. CASE /\ ~ Broken(made[r]) /\ Goes(r, "ball") /\ UNCHANGED query
             /\ made' = [made EXCEPT ![r].env = e]
    <3>1. made[r] \in Loaded /\ made[r].env \in Envelopes /\ made[r].env # Torn /\ q.route \in {"grow", "join"}
      BY <1>2, <1>6, <2>2, ServerNoneAssumption DEF Broken, Loaded
    <3>2. q.fp \in overlapped \/ (Follows(e, believed[q.fp]) /\ e.rev > believed[q.fp].rev)
      <4> SUFFICES ASSUME q.fp \notin overlapped
                   PROVE  Follows(e, believed[q.fp]) /\ e.rev > believed[q.fp].rev
        OBVIOUS
      <4>1. made[r].env = ball[q.fp]
        BY <1>1, <1>2, <1>6 DEF GrowthInv, Growing
      <4>2. Follows(made[r].env, believed[q.fp]) /\ believed[q.fp] \in Envelopes
        BY <1>1, <1>2, <1>6, <3>1, <4>1 DEF GrowthInv, DiskFollows, FilesType
      <4> QED
        BY <1>2, <1>6, <3>1, <4>2, OutcomeFollows
    <3> HIDE DEF e
    <3>3. m.fp = q.fp /\ m.env = e /\ made' = [made EXCEPT ![r] = m]
      BY <1>2, <1>6, <2>2, <3>1 DEF Loaded
    <3>4. Growing("ball", q, m, ball, believed, overlapped)
      BY <1>2, <1>6, <3>2, <3>3 DEF Growing
    <3> QED
      BY <1>4, <2>2, <3>3, <3>4
  <2> QED
    BY <1>6, <2>1, <2>2 DEF UpdateResumed
<1> QED
  BY <1>5, <1>6

\* What a handler that stores holds, and who else is busy with its DreamBall.
LEMMA GrowthStoring ==
    ASSUME SInv, GrowthInv, NEW r \in Requests, pc[r] \in Storing
    PROVE  /\ believed[made[r].fp] = None \/ made[r].fp \in overlapped
                 \/ (/\ Follows(made[r].env, believed[made[r].fp])
                     /\ made[r].env.rev > believed[made[r].fp].rev)
           /\ \A d \in Requests \ {r} : /\ pc[d] \notin Storing
                                        /\ pc[d] = "wasm" /\ Updates(query[d]) =>
                                              query[d].fp # made[r].fp \/ made[r].fp \in overlapped
<1>1. Growing(pc[r], query[r], made[r], ball, believed, overlapped)
  BY DEF GrowthInv
<1>2. made[r].fp \in Balls /\ \A d \in Requests : d # r => pc[d] \notin Storing
  BY StoringFacts
<1>3. ASSUME NEW d \in Requests \ {r}, pc[d] = "wasm", Updates(query[d]), query[d].fp = made[r].fp
      PROVE  made[r].fp \in overlapped
  <2>1. believed[made[r].fp] # None
    <3>1. Ready(pc[d], query[d], made[d], polls[d], ball, json, believed)
      BY DEF SInv, RequestsInv
    <3> QED
      BY <1>3, <3>1 DEF Ready
  <2>2. Updates(query[r]) /\ made[r].fp = query[r].fp
    BY <1>1, <2>1 DEF Growing
  <2>3. Busy(pc[r], query[r], made[r].fp) /\ Busy(pc[d], query[d], made[r].fp)
    BY <1>3, <2>2 DEF Busy
  <2> QED
    BY <1>2, <2>3 DEF GrowthInv, OverlapSeen
<1> QED
  BY <1>1, <1>2, <1>3 DEF Growing

\* The writes of a handler, the last of which tells the client.
LEMMA GrowthStores ==
    ASSUME SInv, GrowthInv, NEW r \in Requests, StoreBall(r) \/ StoreJson(r) \/ StoreKey(r)
    PROVE  GrowthInv'
<1> DEFINE fp == made[r].fp
           e  == made[r].env
<1>1. pc[r] \in Storing /\ FilesType /\ UNCHANGED overlapped
  BY DEF StoreBall, StoreJson, StoreKey, Storing, SInv, ghosts
<1>2. /\ fp \in Balls /\ e \in Envelopes /\ (pc[r] \in {"json", "key"} => ball[fp] = e)
      /\ believed[fp] = None \/ fp \in overlapped
            \/ (Follows(e, believed[fp]) /\ e.rev > believed[fp].rev)
      /\ \A d \in Requests \ {r} : /\ pc[d] \notin Storing
                                   /\ pc[d] = "wasm" /\ Updates(query[d]) =>
                                         query[d].fp # fp \/ fp \in overlapped
      /\ \A d \in Requests : Updates(query[d]) /\ pc[d] = "wasm" => query[d].fp \in Balls
  <2>1. ASSUME NEW d \in Requests, Updates(query[d]), pc[d] = "wasm"
        PROVE  query[d].fp \in Balls
    <3>1. Ready(pc[d], query[d], made[d], polls[d], ball, json, believed)
      BY DEF SInv, RequestsInv
    <3> QED
      BY <2>1, <3>1, QueryFields DEF Ready, Updates
  <2> QED
    BY <1>1, <2>1, StoringFacts, GrowthStoring
<1>3. Growing(pc[r], query[r], made[r], ball, believed, overlapped)
  BY DEF GrowthInv
<1> HIDE DEF fp, e
<1>4. ASSUME NEW place \in Storing, Goes(r, place), UNCHANGED <<query, made, believed>>,
             ball' \in [Balls -> Envelopes \cup {None, Torn}],
             ball' \in {ball, [ball EXCEPT ![fp] = e]}
      PROVE  GrowthInv'
  <2>1. /\ pc'[r] = place /\ query'[r] = query[r] /\ made'[r] = made[r]
        /\ \A d \in Requests \ {r} :
               pc'[d] = pc[d] /\ query'[d] = query[d] /\ made'[d] = made[d]
    <3>1. /\ pc' = [pc EXCEPT ![r] = place] /\ query' = [query EXCEPT ![r] = query[r]]
          /\ made' = [made EXCEPT ![r] = made[r]]
      BY <1>4, StayingRequest DEF Goes
    <3> QED
      BY <3>1, OneRequest
  <2>2. \A f \in Balls : ball'[f] = ball[f] \/ (f = fp /\ ball'[f] = e)
    BY <1>1, <1>4 DEF FilesType
  <2>3. DiskFollows'
    BY <1>1, <1>2, <1>4, <2>2 DEF GrowthInv, DiskFollows
  <2>4. Growing(pc'[r], query'[r], made'[r], ball', believed', overlapped')
    BY <1>1, <1>3, <1>4, <2>1 DEF Growing, Storing
  <2>5. \A f \in Balls : Busy(pc'[r], query'[r], f) => Busy(pc[r], query[r], f)
    BY <1>1, <2>1 DEF Busy
  <2> QED
    BY <1>1, <1>2, <2>1, <2>2, <2>3, <2>4, <2>5, GrowthMoves
<1>5. ASSUME Stands(r), UNCHANGED ball, pc[r] \in {"json", "key"}
      PROVE  GrowthInv'
  <2>1. /\ pc' = [pc EXCEPT ![r] = "idle"] /\ query' = [query EXCEPT ![r] = None]
        /\ made' = [made EXCEPT ![r] = None] /\ believed' = [believed EXCEPT ![fp] = e]
    BY <1>5 DEF Stands, Answer, Goes, fp, e
  <2>2. /\ pc'[r] = "idle" /\ query'[r] = None /\ made'[r] = None
        /\ \A d \in Requests \ {r} :
               pc'[d] = pc[d] /\ query'[d] = query[d] /\ made'[d] = made[d]
    BY <2>1, OneRequest
  <2>3. /\ believed'[fp] = e /\ \A f \in Balls \ {fp} : believed'[f] = believed[f]
    BY <1>1, <1>2, <2>1 DEF FilesType
  <2>4. Follows(e, e)
    BY <1>2 DEF Follows, Envelopes
  <2>5. DiskFollows'
    BY <1>1, <1>2, <1>5, <2>3, <2>4 DEF GrowthInv, DiskFollows
  <2>6. Growing(pc'[r], query'[r], made'[r], ball', believed', overlapped')
        /\ \A f \in Balls : ~ Busy(pc'[r], query'[r], f)
    BY <2>2 DEF Growing, Busy, Storing
  <2> QED
    BY <1>1, <1>2, <1>5, <2>2, <2>5, <2>6, GrowthMoves
<1>6. CASE StoreBall(r)
  <2>1. ball' = [ball EXCEPT ![fp] = e] /\ Goes(r, "json") /\ UNCHANGED <<query, made, believed>>
        /\ "json" \in Storing
    BY <1>6 DEF StoreBall, ghosts, fp, e, Storing
  <2>2. ball' \in [Balls -> Envelopes \cup {None, Torn}]
    BY <1>1, <1>2, <2>1 DEF FilesType
  <2> QED
    BY <1>4, <2>1, <2>2
<1>7. CASE StoreJson(r)
  <2>1. UNCHANGED ball /\ pc[r] = "json"
        /\ \/ Goes(r, "key") /\ UNCHANGED <<query, made, believed>>
           \/ Stands(r)
    BY <1>7 DEF StoreJson
  <2>2. "key" \in Storing /\ ball' \in [Balls -> Envelopes \cup {None, Torn}]
    BY <1>1, <2>1 DEF Storing, FilesType
  <2> QED
    BY <1>4, <1>5, <2>1, <2>2
<1>8. CASE StoreKey(r)
  BY <1>5, <1>8 DEF StoreKey
<1> QED
  BY <1>6, <1>7, <1>8

\* A write that throws cuts off the DreamBall that was being stored, at most.
LEMMA GrowthFails ==
    ASSUME SInv, GrowthInv, NEW r \in Requests, StoreFails(r)
    PROVE  GrowthInv'
<1>1. /\ pc[r] \in Storing /\ Answer(r, "500") /\ UNCHANGED <<believed, overlapped>>
      /\ ball' \in {ball, Cut(ball, "ball")} /\ FilesType
  BY DEF StoreFails, SInv
<1>2. /\ pc' = [pc EXCEPT ![r] = "idle"] /\ query' = [query EXCEPT ![r] = None]
      /\ made' = [made EXCEPT ![r] = None]
  BY <1>1 DEF Answer, Goes
<1>3. /\ pc'[r] = "idle" /\ query'[r] = None /\ made'[r] = None
      /\ \A d \in Requests \ {r} :
             pc'[d] = pc[d] /\ query'[d] = query[d] /\ made'[d] = made[d]
  BY <1>2, OneRequest
<1>4. \A f \in Balls : ball'[f] = ball[f] \/ (f = made[r].fp /\ ball'[f] = Torn)
  <2>1. \A d \in Requests : pc[d] = "ball" => d = r
    BY <1>1, StoringFacts DEF Storing
  <2>2. \A f \in Balls : Cut(ball, "ball")[f] = ball[f] \/ (f = made[r].fp /\ Cut(ball, "ball")[f] = Torn)
    BY <2>1 DEF Cut
  <2> QED
    BY <1>1, <2>2
<1>5. DiskFollows'
  BY <1>1, <1>4 DEF GrowthInv, DiskFollows
<1>6. Growing(pc'[r], query'[r], made'[r], ball', believed', overlapped')
      /\ \A f \in Balls : ~ Busy(pc'[r], query'[r], f)
  BY <1>3 DEF Growing, Busy, Storing
<1>7. \A d \in Requests : Updates(query[d]) /\ pc[d] = "wasm" => query[d].fp \in Balls
  <2> SUFFICES ASSUME NEW d \in Requests, Updates(query[d]), pc[d] = "wasm"
               PROVE  query[d].fp \in Balls
    OBVIOUS
  <2>1. Ready(pc[d], query[d], made[d], polls[d], ball, json, believed)
    BY DEF SInv, RequestsInv
  <2> QED
    BY <2>1, QueryFields DEF Ready, Updates
<1>8. \A d \in Requests \ {r} : /\ pc[d] \notin Storing
                                /\ pc[d] = "wasm" /\ Updates(query[d]) =>
                                      query[d].fp # made[r].fp \/ made[r].fp \in overlapped
  BY <1>1, GrowthStoring
<1> QED
  BY <1>1, <1>3, <1>4, <1>5, <1>6, <1>7, <1>8, GrowthMoves

\* Nobody is busy after a death.
LEMMA GrowthDies ==
    ASSUME SInv, GrowthInv, Crash
    PROVE  GrowthInv'
<1>1. /\ UNCHANGED <<believed, overlapped>> /\ ball' \in {ball, Cut(ball, "ball")}
      /\ pc' = [r \in Requests |-> "idle"]
  BY DEF Crash
<1>2. \A f \in Balls : ball'[f] = ball[f] \/ ball'[f] = Torn
  BY <1>1 DEF Cut
<1>3. DiskFollows'
  BY <1>1, <1>2 DEF GrowthInv, DiskFollows
<1>4. \A r \in Requests : pc'[r] = "idle"
  BY <1>1
<1> QED
  BY <1>3, <1>4 DEF GrowthInv, OverlapSeen, Growing, Busy, Storing

\* Every step keeps what growths rest on.
LEMMA GrowthSteps ==
    ASSUME SInv, GrowthInv, [Next]_vars
    PROVE  GrowthInv'
<1>1. CASE Start \/ Bind \/ Instantiate \/ UNCHANGED vars
  <2>1. UNCHANGED <<ball, believed, overlapped, pc, query, made>>
    BY <1>1 DEF Start, Bind, Instantiate, vars, files, ghosts
  <2> QED
    BY <2>1, GrowthStays
<1>2. CASE Crash
  BY <1>2, GrowthDies
<1>3. ASSUME NEW r \in Requests, NEW q \in Queries, Arrive(r, q)
      PROVE  GrowthInv'
  <2>1. UNCHANGED <<ball, believed, overlapped>> /\ pc' = [pc EXCEPT ![r] = "arrived"]
        /\ query' = [query EXCEPT ![r] = q] /\ made' = [made EXCEPT ![r] = made[r]]
        /\ "arrived" \notin {"wasm"} \cup Storing
    BY <1>3, StayingRequest DEF Arrive, Goes, files, ghosts, Storing
  <2> QED
    BY <2>1, GrowthIdles
<1>4. ASSUME NEW r \in Requests, Handler(r) \/ StoreFails(r)
      PROVE  GrowthInv'
  BY <1>4, GrowthReplies, GrowthLoads, GrowthExports, GrowthStores, GrowthFails DEF Handler
<1> QED
  BY <1>1, <1>2, <1>3, <1>4 DEF Next

\* Only an answer to an update or a mint changes what clients know.
LEMMA BelievedMoves ==
    ASSUME [Next]_vars
    PROVE  \/ believed' = believed
           \/ \E r \in Requests : pc[r] \in Storing /\ UNCHANGED overlapped /\ Stands(r)
<1>1. CASE Start \/ Bind \/ Instantiate \/ Crash \/ UNCHANGED vars
  BY <1>1 DEF Start, Bind, Instantiate, Crash, vars, ghosts
<1>2. ASSUME NEW r \in Requests, NEW q \in Queries, Arrive(r, q)
      PROVE  believed' = believed
  BY <1>2 DEF Arrive, ghosts
<1>3. ASSUME NEW r \in Requests, StoreFails(r)
      PROVE  believed' = believed
  BY <1>3 DEF StoreFails
<1>4. ASSUME NEW r \in Requests, StoreBall(r) \/ StoreJson(r) \/ StoreKey(r)
      PROVE  \/ believed' = believed
             \/ pc[r] \in Storing /\ UNCHANGED overlapped /\ Stands(r)
  BY <1>4 DEF StoreBall, StoreJson, StoreKey, Storing, ghosts
<1>5. ASSUME NEW r \in Requests,
             Mint(r) \/ LoadForUpdate(r) \/ Verify(r) \/ Show(r) \/ List(r) \/ Subprocess(r)
      PROVE  believed' = believed
  BY <1>5 DEF Mint, LoadForUpdate, Verify, Show, List, Subprocess, Replies, AwaitWasm, ghosts
<1>6. ASSUME NEW r \in Requests,
             \/ Embed(r) \/ RunSync(r) \/ Wait(r) \/ PollStatus(r) \/ NoInstance(r)
             \/ VerifyResumed(r) \/ UpdateResumed(r)
      PROVE  believed' = believed
  BY <1>6 DEF Embed, RunSync, Wait, PollStatus, NoInstance, VerifyResumed, UpdateResumed, Replies, ghosts
<1> QED
  BY <1>1, <1>2, <1>3, <1>4, <1>5, <1>6 DEF Next, Handler

\* What a client was told a DreamBall has become is grown further, never
\* replaced: its revision rises, its guilds stay and it does not go back to a
\* seed, for updates that did not overlap.
THEOREM ServerGrowthsKept == Spec => GrowthsKept
<1>1. Init => GrowthInv
  <2> SUFFICES ASSUME Init PROVE GrowthInv
    OBVIOUS
  <2>1. /\ ball = believed /\ pc = [r \in Requests |-> "idle"]
    BY DEF Init
  <2>2. \A f \in Balls : believed[f] # None => believed[f] = Minted([name |-> None])
    BY DEF Init
  <2>3. Follows(Minted([name |-> None]), Minted([name |-> None]))
    BY DEF Follows, Minted
  <2>4. DiskFollows
    BY <2>1, <2>2, <2>3 DEF DiskFollows
  <2>5. \A r \in Requests : pc[r] = "idle"
    BY <2>1
  <2> QED
    BY <2>4, <2>5 DEF GrowthInv, OverlapSeen, Growing, Busy, Storing
<1>2. SInv /\ GrowthInv /\ [Next]_vars => GrowthInv'
  BY GrowthSteps
<1>3. SInv /\ GrowthInv /\ [Next]_vars =>
          [\A f \in Balls \ overlapped' :
              believed[f] # None /\ believed'[f] # believed[f] =>
                  /\ believed'[f].rev > believed[f].rev
                  /\ believed[f].guilds \subseteq believed'[f].guilds
                  /\ believed[f].stage = "dreamball" => believed'[f].stage = "dreamball"]_vars
  <2> SUFFICES ASSUME SInv, GrowthInv, [Next]_vars, NEW f \in Balls \ overlapped',
                      believed[f] # None, believed'[f] # believed[f]
               PROVE  /\ believed'[f].rev > believed[f].rev
                      /\ believed[f].guilds \subseteq believed'[f].guilds
                      /\ believed[f].stage = "dreamball" => believed'[f].stage = "dreamball"
    OBVIOUS
  <2>1. PICK r \in Requests : pc[r] \in Storing /\ UNCHANGED overlapped /\ Stands(r)
    BY BelievedMoves
  <2>2. believed' = [believed EXCEPT ![made[r].fp] = made[r].env]
    BY <2>1 DEF Stands
  <2>3. f = made[r].fp /\ believed'[f] = made[r].env
    BY <2>2 DEF SInv, FilesType
  <2>4. Follows(made[r].env, believed[f]) /\ made[r].env.rev > believed[f].rev
    BY <2>1, <2>3, GrowthStoring
  <2> QED
    BY <2>3, <2>4 DEF Follows
<1>4. Spec => []GrowthInv
  BY <1>1, <1>2, ServerInvariant, PTL DEF Spec
<1> QED
  BY <1>3, <1>4, ServerInvariant, PTL DEF Spec, GrowthsKept

-----------------------------------------------------------------------------
\* The most a request needs: a join copies three buffers in and leaves four.
LEMMA BuffersOfOne ==
    ASSUME NEW q
    PROVE  Used(q) \in 0 .. 7
BY DEF Used, Reset, CopiedIn, Allocated

\* An arena with room for the buffers of one join has room for any requests one
\* after the other: the exports reset it, so none leaves anything for the next.
THEOREM ServerArenaSuffices == ASSUME ArenaSize >= 7 PROVE Spec => []ArenaSuffices
<1>1. Init => ArenaSuffices
  <2>1. "out of memory" \in Answers
    BY AnswerNames
  <2> QED
    BY <2>1, ServerNoneAssumption DEF Init, ArenaSuffices
<1>2. ASSUME ArenaSuffices, [Next]_vars
      PROVE  ArenaSuffices'
  <2>1. \A q : Fits(Used(q)) /\ Fits(Reset + ParseBuffers)
    <3>1. ArenaSize \in Nat /\ Reset + ParseBuffers = 3
      BY ServerBoundsAssumption DEF Reset, ParseBuffers
    <3> QED
      BY <3>1, BuffersOfOne DEF Fits
  <2>2. None # "out of memory"
    BY AnswerNames, ServerNoneAssumption
  <2>3. CASE Start \/ Bind \/ Instantiate \/ Crash \/ UNCHANGED vars
    BY <1>2, <2>2, <2>3 DEF Start, Bind, Instantiate, Crash, vars, ArenaSuffices
  <2>4. ASSUME NEW r \in Requests, NEW q \in Queries, Arrive(r, q)
        PROVE  ArenaSuffices'
    BY <2>2, <2>4 DEF Arrive, ArenaSuffices
  <2>5. ASSUME NEW r \in Requests,
               Mint(r) \/ LoadForUpdate(r) \/ Verify(r) \/ Show(r) \/ List(r) \/ Subprocess(r)
        PROVE  ArenaSuffices'
    BY <1>2, <2>5 DEF Mint, LoadForUpdate, Verify, Show, List, Subprocess, Loads, Replies,
       AwaitWasm, Answer, ArenaSuffices
  <2>6. ASSUME NEW r \in Requests,
               Embed(r) \/ RunSync(r) \/ Wait(r) \/ PollStatus(r) \/ NoInstance(r)
        PROVE  ArenaSuffices'
    BY <1>2, <2>6 DEF Embed, RunSync, Wait, PollStatus, NoInstance, Replies, Answer, ArenaSuffices
  <2>7. ASSUME NEW r \in Requests, VerifyResumed(r) \/ UpdateResumed(r)
        PROVE  ArenaSuffices'
    BY <1>2, <2>1, <2>7 DEF VerifyResumed, UpdateResumed, Answer, ArenaSuffices
  <2>8. ASSUME NEW r \in Requests,
               StoreBall(r) \/ StoreJson(r) \/ StoreKey(r) \/ StoreFails(r)
        PROVE  ArenaSuffices'
    BY <1>2, <2>8 DEF StoreBall, StoreJson, StoreKey, StoreFails, Stands, Answer, ArenaSuffices
  <2> QED
    BY <1>2, <2>3, <2>4, <2>5, <2>6, <2>7, <2>8 DEF Next, Handler
<1> QED
  BY <1>1, <1>2, PTL DEF Spec

=============================================================================
