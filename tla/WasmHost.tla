------------------------------ MODULE WasmHost ------------------------------
(***************************************************************************)
(* The host that runs an action compiled to WebAssembly (src/wasm-host):   *)
(* the checks of a module before any of its code runs, its instantiation,  *)
(* and the five dreamball.* imports, which answer through a scratch region *)
(* of the guest's own linear memory.                                       *)
(*                                                                         *)
(* One invocation on one host, which is what both drivers (main.zig and    *)
(* mint_host_main.zig) do.  The guest is any code the interpreter can run: *)
(* its calls, stores and traps are choices.  A byte is a pair <<n, i>>:    *)
(* byte i of what call n of the invocation produced, a digest, a header, a *)
(* length, a node, a signature or a stored word; <<0, a>> is what address  *)
(* a held when the module was instantiated.                                *)
(***************************************************************************)
EXTENDS Integers, Sequences

CONSTANTS
    Modules,       \* modules and the fingerprint declared for them
    MaxPages, Page,             \* limit of a module's memory; bytes in a page
    ScratchBase, ScratchSize,   \* what the driver gives to attach
    Word,          \* bytes of a length; what an allocation is rounded up to
    Digest, Sig,   \* bytes of a Blake3 digest and of an Ed25519 signature
    HeaderLen,     \* bytes of the dCBOR header of n bytes
    NodeLens,      \* lengths of the nodes the host serves
    Clock,         \* readings of the clock, since the host was made
    Ptrs, Lens,    \* arguments the guest passes
    MaxCalls       \* bound: calls and stores of the guest

Imports == {"fp", "encode_cbor", "read_node", "emit_action_envelope", "now_ms"}

ASSUME HostModulesAssumption ==
    Modules \subseteq [matches : BOOLEAN, parses : BOOLEAN, imports : SUBSET (Imports \cup {"other"}),
                       pages : Nat, data : Nat, start : BOOLEAN]
ASSUME HostSizesAssumption ==
    /\ Page \in Nat \ {0} /\ MaxPages \in Nat
    /\ ScratchBase \in Nat /\ ScratchSize \in Nat
    /\ Word \in Nat \ {0} /\ Digest \in Nat /\ Sig \in Nat
    /\ HeaderLen \in [Lens -> Nat]
ASSUME HostInputsAssumption ==
    /\ NodeLens \subseteq Nat /\ Clock \subseteq Int
    /\ Ptrs \subseteq Nat /\ Lens \subseteq Nat /\ MaxCalls \in Nat

VARIABLES
    module,    \* the module
    pc,        \* where the driver is
    outcome,
    mem,       \* the guest's linear memory
    cursor,    \* scratch_cursor
    calls,     \* calls and stores so far
    returned,  \* what the host wrote for the guest: where, and which bytes
    emitted,   \* host.emitted
    last       \* last_now_ms

vars == <<module, pc, outcome, mem, cursor, calls, returned, emitted, last>>

guest == <<mem, cursor, calls, returned, emitted, last>>

Limit == ScratchBase + ScratchSize

Size == (IF module.pages = 0 THEN 1 ELSE module.pages) * Page

Bytes(n, len) == [i \in 0 .. len - 1 |-> <<n, i>>]

Slice(m, ptr, len) == [i \in 0 .. len - 1 |-> m[ptr + i]]

Put(m, at, bytes) ==
    [a \in DOMAIN m |-> IF a - at \in DOMAIN bytes THEN bytes[a - at] ELSE m[a]]

Spans(at, len, a) == at <= a /\ a < at + len

-----------------------------------------------------------------------------
Init ==
    /\ module \in Modules
    /\ pc = "verify" /\ outcome = "none"
    /\ mem = <<>> /\ cursor = 0 /\ calls = 0 /\ returned = {} /\ emitted = <<>> /\ last = 0

Ends(result) == pc' = "done" /\ outcome' = result /\ UNCHANGED <<module, guest>>

Passes(place) == pc' = place /\ UNCHANGED <<module, outcome, guest>>

VerifyBlake3 ==
    /\ pc = "verify"
    /\ IF module.matches THEN Passes("parse") ELSE Ends("fp_mismatch")

Parse ==
    /\ pc = "parse"
    /\ IF module.parses THEN Passes("imports") ELSE Ends("trap")

VerifyImports ==
    /\ pc = "imports"
    /\ IF module.imports \subseteq Imports THEN Passes("memory") ELSE Ends("import_violation")

CheckMemoryLimit ==
    /\ pc = "memory"
    /\ IF module.pages <= MaxPages THEN Passes("instantiate") ELSE Ends("trap")

\* Instance.init, attach and the lookup of _start: a data segment that does not
\* fit and a missing export are traps.
Instantiate ==
    /\ pc = "instantiate"
    /\ IF module.data <= Size
       THEN /\ mem' = [a \in 0 .. Size - 1 |-> <<0, a>>]
            /\ cursor' = ScratchBase
            /\ IF module.start THEN pc' = "run" /\ UNCHANGED outcome
                               ELSE pc' = "done" /\ outcome' = "trap"
            /\ UNCHANGED <<module, calls, returned, emitted, last>>
       ELSE Ends("trap")

-----------------------------------------------------------------------------
\* allocScratch: the cursor after size bytes, if they fit.
RoundUp(size) == ((size + Word - 1) \div Word) * Word

\* Mutant of Advance: rounded down.
AdvanceShort(at, size) == at + (size \div Word) * Word

Advance(at, size) == at + RoundUp(size)

\* Mutant of Fits: the end of the scratch region is not looked at.
FitsMemory(at, size) == at + size <= Size

Fits(at, size) == at + size <= Limit /\ at + size <= Size

\* A call of an import the module has, with arguments inside the memory.
Calls(import, ptr, len) ==
    /\ pc = "run" /\ import \in module.imports
    /\ calls < MaxCalls /\ calls' = calls + 1
    /\ ptr + len <= Size
    /\ UNCHANGED module

Continues == UNCHANGED <<pc, outcome>>
Traps == pc' = "done" /\ outcome' = "trap"

\* Nothing is written before all of it fits.
Exhausted == Traps /\ UNCHANGED <<mem, cursor, returned>>

Answer(at, bytes) == [at |-> at, bytes |-> bytes]

Fp(ptr, len) ==
    /\ Calls("fp", ptr, len)
    /\ IF Fits(cursor, Digest)
       THEN LET d == Bytes(calls', Digest)
            IN  /\ mem' = Put(mem, cursor, d)
                /\ returned' = returned \cup {Answer(cursor, d)}
                /\ cursor' = Advance(cursor, Digest)
                /\ Continues
       ELSE Exhausted
    /\ UNCHANGED <<emitted, last>>

\* A length and, in an allocation of its own, the bytes it is the length of.
Slot == Advance(cursor, Word)
Room(size) == Fits(cursor, Word) /\ Fits(Slot, size)
Length == Bytes(-calls', Word)

Gives(bytes, written) ==
    /\ mem' = Put(written, cursor, Length)
    /\ returned' = returned \cup {Answer(cursor, Length), Answer(Slot, bytes)}
    /\ Continues

Coded(m, h, ptr, len) ==
    [i \in 0 .. h + len - 1 |-> IF i < h THEN <<calls', i>> ELSE m[ptr + i - h]]

\* The header is written before the source is read: a source that overlaps it is
\* no longer what the guest passed.
EncodeCbor(ptr, len) ==
    LET h      == HeaderLen[len]
        headed == Put(mem, Slot, Bytes(calls', h))
        coded  == Coded(headed, h, ptr, len)
    IN  /\ Calls("encode_cbor", ptr, len)
        /\ IF Room(h + len)
           THEN Gives(coded, Put(headed, Slot, coded)) /\ cursor' = Advance(Slot, h + len)
           ELSE Exhausted
        /\ UNCHANGED <<emitted, last>>

\* Which node the bytes at ptr name is left open.
ReadNode(ptr, len) ==
    /\ Calls("read_node", ptr, len)
    /\ \/ Continues /\ UNCHANGED <<mem, cursor, returned>>
       \/ \E n \in NodeLens :
            LET node == Bytes(calls', n)
            IN  IF Room(n)
                THEN Gives(node, Put(mem, Slot, node)) /\ cursor' = Advance(Slot, n)
                ELSE Exhausted
    /\ UNCHANGED <<emitted, last>>

\* The length of the payload, the payload and the signature: n bytes.
Enveloped(payload, len, n) ==
    [i \in 0 .. n - 1 |-> IF Spans(Word, len, i) THEN payload[i - Word] ELSE <<calls', i>>]

\* The payload is copied, signed and appended to host.emitted; only then is
\* there a place sought for the envelope.  Without one the payload is freed and
\* stays in the list.
EmitActionEnvelope(ptr, len) ==
    LET payload  == Slice(mem, ptr, len)
        envelope == Enveloped(payload, len, Word + len + Sig)
        fits     == Room(Word + len + Sig)
    IN  /\ Calls("emit_action_envelope", ptr, len)
        /\ emitted' = Append(emitted, [call |-> calls', payload |-> payload, owned |-> fits])
        /\ IF fits
           THEN Gives(envelope, Put(mem, Slot, envelope)) /\ cursor' = Advance(Slot, Word + len + Sig)
           ELSE Exhausted
        /\ UNCHANGED last

\* Never less than the last answer, whatever the clock of the machine does.
NowMs ==
    /\ Calls("now_ms", 0, 0)
    /\ \E since \in Clock :
          last' = IF since < last THEN last ELSE since
    /\ Continues
    /\ UNCHANGED <<mem, cursor, returned, emitted>>

\* An i32.store of the guest, over whatever was there.
Store(ptr) ==
    /\ pc = "run"
    /\ calls < MaxCalls /\ calls' = calls + 1
    /\ ptr + Word <= Size
    /\ mem' = Put(mem, ptr, Bytes(calls', Word))
    /\ returned' = {r \in returned : \A i \in DOMAIN r.bytes : ~ Spans(ptr, Word, r.at + i)}
    /\ Continues
    /\ UNCHANGED <<module, cursor, emitted, last>>

\* An access outside the memory, an opcode the interpreter does not know, a call
\* with the wrong number of arguments.
Trap == pc = "run" /\ Ends("trap")

\* The end of _start: the drivers ask for an envelope.
Return ==
    /\ pc = "run"
    /\ Ends(IF emitted = <<>> THEN "no_emit" ELSE "ok")

Import(ptr, len) ==
    \/ Fp(ptr, len) \/ EncodeCbor(ptr, len) \/ ReadNode(ptr, len) \/ EmitActionEnvelope(ptr, len)

Next ==
    \/ VerifyBlake3 \/ Parse \/ VerifyImports \/ CheckMemoryLimit \/ Instantiate
    \/ \E ptr \in Ptrs, len \in Lens : Import(ptr, len)
    \/ NowMs
    \/ \E ptr \in Ptrs : Store(ptr)
    \/ Trap \/ Return

Spec == Init /\ [][Next]_vars

-----------------------------------------------------------------------------
\* Properties.

Byte == Int \X Int

\* Every variable keeps its type; the cursor passes the end of the scratch
\* region by rounding only.
TypeOK ==
    /\ module \in Modules
    /\ pc \in {"verify", "parse", "imports", "memory", "instantiate", "run", "done"}
    /\ outcome \in {"none", "fp_mismatch", "import_violation", "trap", "no_emit", "ok"}
    /\ mem = <<>> \/ mem \in [0 .. Size - 1 -> Byte]
    /\ cursor \in Nat /\ (cursor > ScratchBase => cursor < Limit + Word)
    /\ calls \in 0 .. MaxCalls
    /\ \A r \in returned : r.at \in Nat
    /\ \A k \in DOMAIN emitted :
          emitted[k].call \in 1 .. calls /\ emitted[k].owned \in BOOLEAN
    /\ last \in Nat

\* What the host answered is what the guest finds: until the guest itself stores
\* over them, a digest, an encoding, a node, an envelope and their lengths stay
\* as the host wrote them, whatever the guest asks for next, in a memory both
\* write to.
ReturnsIntact ==
    \A r \in returned : \A i \in DOMAIN r.bytes :
        r.at + i \in DOMAIN mem /\ mem[r.at + i] = r.bytes[i]

=============================================================================
