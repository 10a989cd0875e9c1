--------------------------- MODULE WasmHostProofs ---------------------------
(***************************************************************************)
(* Proofs about WasmHost: its type invariant, and that what the host        *)
(* answered stays where it is, for every module, every size of the scratch  *)
(* region and of what is put in it, and any calls of the guest.             *)
(***************************************************************************)
EXTENDS WasmHost, SequenceTheorems, TLAPS


Memories == [0 .. Size - 1 -> Byte]

Emissions == [call : Nat, payload : UNION {[0 .. n - 1 -> Byte] : n \in Nat}, owned : BOOLEAN]

\* There is no memory before the instantiation, and the scratch cursor never
\* moves back while the guest runs.
TypeInv ==
    /\ module \in Modules
    /\ pc \in {"verify", "parse", "imports", "memory", "instantiate", "run", "done"}
    /\ outcome \in {"none", "fp_mismatch", "import_violation", "trap", "no_emit", "ok"}
    /\ calls \in 0 .. MaxCalls /\ last \in Nat /\ cursor \in Nat
    /\ cursor > ScratchBase => cursor < Limit + Word
    /\ mem = <<>> \/ mem \in Memories
    /\ pc \notin {"run", "done"} => returned = {}
    /\ pc = "run" => mem \in Memories /\ ScratchBase <= cursor
    /\ emitted \in Seq(Emissions)
    /\ \A k \in DOMAIN emitted : emitted[k].call \in 1 .. calls

\* Every answer lies below the cursor, and there it still is.
AnswersInv ==
    \A r \in returned :
        /\ r.at \in Nat
        /\ \A i \in DOMAIN r.bytes :
              /\ i \in Nat /\ r.at + i < cursor
              /\ r.at + i \in DOMAIN mem /\ mem[r.at + i] = r.bytes[i]

HInv == TypeInv /\ AnswersInv

-----------------------------------------------------------------------------
\* The memory of a module is some pages.
LEMMA SizeType ==
    ASSUME module \in Modules
    PROVE  Size \in Nat /\ module.pages \in Nat
BY HostModulesAssumption, HostSizesAssumption DEF Size

\* An allocation is rounded up by less than a word.
LEMMA RoundUpBounds ==
    ASSUME NEW size \in Nat
    PROVE  RoundUp(size) \in Nat /\ size <= RoundUp(size) /\ RoundUp(size) < size + Word
BY HostSizesAssumption DEF RoundUp

\* What an allocation at `at` leaves for the next one.
LEMMA AdvanceBounds ==
    ASSUME NEW at \in Nat, NEW size \in Nat, Fits(at, size)
    PROVE  /\ Advance(at, size) \in Nat
           /\ at + size <= Advance(at, size)
           /\ Advance(at, size) < Limit + Word
BY RoundUpBounds, HostSizesAssumption DEF Advance, Fits, Limit

\* Bytes put at `at` are there, and no other address changes.
LEMMA PutBytes ==
    ASSUME module \in Modules, NEW m \in Memories, NEW at \in Nat, NEW n \in Nat,
           NEW b \in [0 .. n - 1 -> Byte], at + n <= Size
    PROVE  /\ Put(m, at, b) \in Memories
           /\ \A i \in 0 .. n - 1 : Put(m, at, b)[at + i] = b[i]
           /\ \A a \in 0 .. Size - 1 : a < at \/ at + n <= a => Put(m, at, b)[a] = m[a]
<1>1. Size \in Nat
  BY SizeType
<1>2. /\ DOMAIN m = 0 .. Size - 1 /\ DOMAIN b = 0 .. n - 1
  BY DEF Memories
<1>3. Put(m, at, b) = [a \in 0 .. Size - 1 |-> IF a - at \in 0 .. n - 1 THEN b[a - at] ELSE m[a]]
  BY <1>2 DEF Put
<1>4. \A a \in 0 .. Size - 1 : m[a] \in Byte
  BY DEF Memories
<1>5. Put(m, at, b) \in Memories
  BY <1>1, <1>3, <1>4 DEF Memories
<1>6. \A i \in 0 .. n - 1 : at + i \in 0 .. Size - 1 /\ (at + i) - at = i
  BY <1>1
<1>7. \A i \in 0 .. n - 1 : Put(m, at, b)[at + i] = b[i]
  BY <1>3, <1>6
<1>8. \A a \in 0 .. Size - 1 : a < at \/ at + n <= a => a - at \notin 0 .. n - 1
  BY <1>1
<1>9. \A a \in 0 .. Size - 1 : a < at \/ at + n <= a => Put(m, at, b)[a] = m[a]
  BY <1>3, <1>8
<1> QED
  BY <1>5, <1>7, <1>9

\* The bytes of a call are a sequence of bytes of the given length.
LEMMA BytesType ==
    ASSUME NEW n \in Int, NEW len \in Nat
    PROVE  Bytes(n, len) \in [0 .. len - 1 -> Byte]
BY DEF Bytes, Byte

-----------------------------------------------------------------------------
\* The answer of `fp`: one block of n bytes at the cursor.
LEMMA AnswerKept ==
    ASSUME TypeInv, AnswersInv, pc = "run", UNCHANGED module,
           NEW n \in Nat, NEW b \in [0 .. n - 1 -> Byte], Fits(cursor, n),
           mem' = Put(mem, cursor, b),
           returned' = returned \cup {Answer(cursor, b)},
           cursor' = Advance(cursor, n)
    PROVE  AnswersInv' /\ mem' \in Memories
<1>1. /\ module \in Modules /\ mem \in Memories /\ cursor \in Nat
      /\ Size \in Nat /\ DOMAIN mem = 0 .. Size - 1 /\ cursor + n <= Size
  BY SizeType DEF TypeInv, Memories, Fits
<1>2. /\ mem' \in Memories
      /\ \A i \in 0 .. n - 1 : mem'[cursor + i] = b[i]
      /\ \A a \in 0 .. Size - 1 : a < cursor => mem'[a] = mem[a]
  <2>1. /\ Put(mem, cursor, b) \in Memories
        /\ \A i \in 0 .. n - 1 : Put(mem, cursor, b)[cursor + i] = b[i]
        /\ \A a \in 0 .. Size - 1 :
              a < cursor \/ cursor + n <= a => Put(mem, cursor, b)[a] = mem[a]
    BY <1>1, PutBytes, ZenonT(60)
  <2> QED
    BY <2>1
<1>3. cursor' \in Nat /\ cursor + n <= cursor'
  BY <1>1, AdvanceBounds
<1>4. DOMAIN mem' = 0 .. Size - 1
  BY <1>2 DEF Memories
<1>5. ASSUME NEW r \in returned, NEW i \in DOMAIN r.bytes
      PROVE  /\ r.at \in Nat /\ i \in Nat /\ r.at + i < cursor'
             /\ r.at + i \in DOMAIN mem' /\ mem'[r.at + i] = r.bytes[i]
  <2>1. /\ r.at \in Nat /\ i \in Nat /\ r.at + i < cursor
        /\ r.at + i \in DOMAIN mem /\ mem[r.at + i] = r.bytes[i]
    BY DEF AnswersInv
  <2> QED
    BY <2>1, <1>1, <1>2, <1>3, <1>4
<1>6. ASSUME NEW i \in 0 .. n - 1
      PROVE  /\ i \in Nat /\ cursor + i < cursor'
             /\ cursor + i \in DOMAIN mem' /\ mem'[cursor + i] = b[i]
  BY <1>1, <1>2, <1>3, <1>4
<1>7. \A r \in returned : r.at \in Nat
  BY DEF AnswersInv
<1>8. Answer(cursor, b).at = cursor /\ Answer(cursor, b).bytes = b /\ DOMAIN b = 0 .. n - 1
  BY DEF Answer
<1>9. ASSUME NEW r \in returned'
      PROVE  /\ r.at \in Nat
             /\ \A i \in DOMAIN r.bytes :
                   /\ i \in Nat /\ r.at + i < cursor'
                   /\ r.at + i \in DOMAIN mem' /\ mem'[r.at + i] = r.bytes[i]
  <2>1. CASE r \in returned
    BY <2>1, <1>5, <1>7
  <2>2. CASE r = Answer(cursor, b)
    BY <2>2, <1>1, <1>6, <1>8
  <2> QED
    BY <2>1, <2>2
<1> QED
  BY <1>2, <1>9 DEF AnswersInv

\* The answers of the other imports: a length at the cursor and, after it, a
\* block of n bytes, in a memory that differs above the cursor only.
LEMMA AnswersKept ==
    ASSUME TypeInv, AnswersInv, pc = "run", UNCHANGED module, calls' \in Nat,
           NEW n \in Nat, NEW b \in [0 .. n - 1 -> Byte], Room(n),
           NEW written \in Memories,
           \A i \in 0 .. n - 1 : written[Slot + i] = b[i],
           \A a \in 0 .. Size - 1 : a < cursor => written[a] = mem[a],
           Gives(b, written), cursor' = Advance(Slot, n)
    PROVE  AnswersInv' /\ mem' \in Memories
<1> DEFINE len == Length
<1>1. /\ module \in Modules /\ mem \in Memories /\ cursor \in Nat /\ Word \in Nat
      /\ Size \in Nat /\ DOMAIN mem = 0 .. Size - 1
  BY SizeType, HostSizesAssumption DEF TypeInv, Memories
<1>2. /\ Slot \in Nat /\ cursor + Word <= Slot
      /\ cursor + Word <= Size /\ Slot + n <= Size
  BY <1>1, AdvanceBounds DEF Room, Slot, Fits
<1>3. cursor' \in Nat /\ Slot + n <= cursor'
  BY <1>2, AdvanceBounds DEF Room
<1>4. len \in [0 .. Word - 1 -> Byte]
  <2>1. -calls' \in Int
    OBVIOUS
  <2> QED
    BY <2>1, <1>1, BytesType DEF Length
<1>5. mem' = Put(written, cursor, len) /\ returned' = returned \cup {Answer(cursor, len), Answer(Slot, b)}
  BY DEF Gives
<1> HIDE DEF len
<1>6. /\ mem' \in Memories
      /\ \A i \in 0 .. Word - 1 : mem'[cursor + i] = len[i]
      /\ \A a \in 0 .. Size - 1 : a < cursor \/ cursor + Word <= a => mem'[a] = written[a]
  <2>1. module \in Modules /\ cursor \in Nat /\ Word \in Nat /\ cursor + Word <= Size
    BY <1>1, <1>2
  <2>2. /\ Put(written, cursor, len) \in Memories
        /\ \A i \in 0 .. Word - 1 : Put(written, cursor, len)[cursor + i] = len[i]
        /\ \A a \in 0 .. Size - 1 :
              a < cursor \/ cursor + Word <= a => Put(written, cursor, len)[a] = written[a]
    BY <2>1, <1>4, PutBytes, ZenonT(60)
  <2> QED
    BY <2>2, <1>5
<1>7. DOMAIN mem' = 0 .. Size - 1
  BY <1>6 DEF Memories
<1>8. ASSUME NEW r \in returned, NEW i \in DOMAIN r.bytes
      PROVE  /\ r.at \in Nat /\ i \in Nat /\ r.at + i < cursor'
             /\ r.at + i \in DOMAIN mem' /\ mem'[r.at + i] = r.bytes[i]
  <2>1. /\ r.at \in Nat /\ i \in Nat /\ r.at + i < cursor
        /\ r.at + i \in 0 .. Size - 1 /\ mem[r.at + i] = r.bytes[i]
    BY <1>1 DEF AnswersInv
  <2>2. mem'[r.at + i] = written[r.at + i] /\ written[r.at + i] = mem[r.at + i]
    BY <2>1, <1>6
  <2>3. r.at + i < cursor'
    BY <2>1, <1>1, <1>2, <1>3
  <2> QED
    BY <2>1, <2>2, <2>3, <1>7
<1>9. ASSUME NEW i \in 0 .. Word - 1
      PROVE  /\ i \in Nat /\ cursor + i < cursor'
             /\ cursor + i \in DOMAIN mem' /\ mem'[cursor + i] = len[i]
  <2>1. i \in Nat /\ cursor + i < cursor' /\ cursor + i \in 0 .. Size - 1
    BY <1>1, <1>2, <1>3
  <2> QED
    BY <2>1, <1>6, <1>7
<1>10. ASSUME NEW i \in 0 .. n - 1
       PROVE  /\ i \in Nat /\ Slot + i < cursor'
              /\ Slot + i \in DOMAIN mem' /\ mem'[Slot + i] = b[i]
  <2>1. i \in Nat /\ Slot + i < cursor' /\ Slot + i \in 0 .. Size - 1 /\ cursor + Word <= Slot + i
    BY <1>1, <1>2, <1>3
  <2>2. mem'[Slot + i] = written[Slot + i]
    BY <2>1, <1>6
  <2> QED
    BY <2>1, <2>2, <1>7
<1>11. /\ Answer(cursor, len).at = cursor /\ Answer(cursor, len).bytes = len
       /\ Answer(Slot, b).at = Slot /\ Answer(Slot, b).bytes = b
       /\ DOMAIN len = 0 .. Word - 1 /\ DOMAIN b = 0 .. n - 1
  BY <1>4 DEF Answer
<1>12. ASSUME NEW r \in returned'
       PROVE  /\ r.at \in Nat
              /\ \A i \in DOMAIN r.bytes :
                    /\ i \in Nat /\ r.at + i < cursor'
                    /\ r.at + i \in DOMAIN mem' /\ mem'[r.at + i] = r.bytes[i]
  <2>1. CASE r \in returned
    BY <2>1, <1>8 DEF AnswersInv
  <2>2. CASE r = Answer(cursor, len)
    BY <2>2, <1>1, <1>9, <1>11
  <2>3. CASE r = Answer(Slot, b)
    BY <2>3, <1>2, <1>10, <1>11
  <2> QED
    BY <1>5, <2>1, <2>2, <2>3
<1> QED
  BY <1>6, <1>12 DEF AnswersInv

\* The entries of host.emitted after one more.
LEMMA Appended ==
    ASSUME NEW S, NEW s \in Seq(S), NEW e \in S
    PROVE  /\ Append(s, e) \in Seq(S) /\ Len(s) \in Nat
           /\ DOMAIN s = 1 .. Len(s) /\ DOMAIN Append(s, e) = 1 .. Len(s) + 1
           /\ \A k \in 1 .. Len(s) : Append(s, e)[k] = s[k]
           /\ Append(s, e)[Len(s) + 1] = e
BY AppendProperties

-----------------------------------------------------------------------------
\* What every step of the running guest has to show, and what it need not: the
\* module stays, and so does the form of what it does not touch.
LEMMA GuestStep ==
    ASSUME HInv, pc = "run", UNCHANGED module,
           pc' \in {"run", "done"}, outcome' \in {"none", "trap", "no_emit", "ok", outcome},
           calls' \in 0 .. MaxCalls, calls <= calls', last' \in Nat,
           cursor' \in Nat, ScratchBase <= cursor',
           cursor' = cursor \/ cursor' < Limit + Word,
           mem' \in Memories,
           \/ UNCHANGED emitted
           \/ \E e \in Emissions : e.call = calls' /\ calls' >= 1 /\ emitted' = Append(emitted, e),
           AnswersInv'
    PROVE  HInv'
<1>1. TypeInv
  BY DEF HInv
<1>2. Memories' = Memories
  BY DEF Memories, Size
<1>3. cursor' > ScratchBase => cursor' < (Limit + Word)'
  BY <1>1 DEF TypeInv, Limit
<1>4. /\ emitted' \in Seq(Emissions)
      /\ \A k \in DOMAIN emitted' : emitted'[k].call \in 1 .. calls'
  <2>1. emitted \in Seq(Emissions) /\ calls \in Nat /\ calls' \in Nat
        /\ \A k \in DOMAIN emitted : emitted[k].call \in 1 .. calls
    BY <1>1 DEF TypeInv
  <2>2. CASE UNCHANGED emitted
    BY <2>1, <2>2
  <2>3. CASE \E e \in Emissions : e.call = calls' /\ calls' >= 1 /\ emitted' = Append(emitted, e)
    <3>1. PICK e \in Emissions : e.call = calls' /\ calls' >= 1 /\ emitted' = Append(emitted, e)
      BY <2>3
    <3> HIDE DEF Emissions
    <3>2. /\ emitted' \in Seq(Emissions) /\ Len(emitted) \in Nat
          /\ DOMAIN emitted = 1 .. Len(emitted) /\ DOMAIN emitted' = 1 .. Len(emitted) + 1
          /\ \A k \in 1 .. Len(emitted) : emitted'[k] = emitted[k]
          /\ emitted'[Len(emitted) + 1] = e
      BY <2>1, <3>1, Appended
    <3>3. ASSUME NEW k \in DOMAIN emitted'
          PROVE  emitted'[k].call \in 1 .. calls'
      <4>1. CASE k \in DOMAIN emitted
        <5>1. emitted'[k] = emitted[k]
          BY <3>2, <4>1
        <5>2. emitted[k].call \in 1 .. calls
          BY <2>1, <4>1
        <5> QED
          BY <5>1, <5>2, <2>1
      <4>2. CASE k = Len(emitted) + 1
        <5>1. emitted'[k] = e
          BY <3>2, <4>2
        <5> QED
          BY <5>1, <3>1, <2>1
      <4> QED
        BY <3>2, <4>1, <4>2
    <3> QED
      BY <3>2, <3>3
  <2> QED
    BY <2>2, <2>3
<1> QED
  BY <1>1, <1>2, <1>3, <1>4 DEF HInv, TypeInv

\* A trap, or a call that left the scratch region alone, disturbs no answer.
LEMMA AnswersUntouched ==
    ASSUME AnswersInv, UNCHANGED <<mem, cursor, returned>>
    PROVE  AnswersInv'
BY DEF AnswersInv

\* What the invariant says of a call the guest makes.
LEMMA CallFacts ==
    ASSUME HInv, NEW import, NEW ptr \in Ptrs, NEW len \in Lens, Calls(import, ptr, len)
    PROVE  /\ TypeInv /\ AnswersInv /\ pc = "run" /\ UNCHANGED module
           /\ calls' \in 0 .. MaxCalls /\ calls' \in Nat /\ calls <= calls' /\ calls' >= 1
           /\ ptr \in Nat /\ len \in Nat /\ ptr + len <= Size
           /\ mem \in Memories /\ cursor \in Nat /\ ScratchBase <= cursor
           /\ ScratchBase \in Nat /\ last \in Nat /\ Size \in Nat /\ module \in Modules
BY HostInputsAssumption, HostSizesAssumption, SizeType DEF HInv, TypeInv, Calls

\* fp preserves the invariant.
LEMMA FpStep ==
    ASSUME HInv, NEW ptr \in Ptrs, NEW len \in Lens, Fp(ptr, len)
    PROVE  HInv'
<1>1. Calls("fp", ptr, len) /\ UNCHANGED <<emitted, last>>
  BY DEF Fp
<1>2. /\ TypeInv /\ AnswersInv /\ pc = "run" /\ UNCHANGED module
      /\ calls' \in 0 .. MaxCalls /\ calls' \in Nat /\ calls <= calls'
      /\ mem \in Memories /\ cursor \in Nat /\ ScratchBase <= cursor /\ ScratchBase \in Nat
      /\ last' \in Nat
  BY <1>1, CallFacts
<1>3. CASE Fits(cursor, Digest)
  <2>1. /\ mem' = Put(mem, cursor, Bytes(calls', Digest))
        /\ returned' = returned \cup {Answer(cursor, Bytes(calls', Digest))}
        /\ cursor' = Advance(cursor, Digest) /\ UNCHANGED <<pc, outcome>>
    BY <1>3 DEF Fp, Continues
  <2>2. Digest \in Nat /\ Bytes(calls', Digest) \in [0 .. Digest - 1 -> Byte]
    BY <1>2, BytesType, HostSizesAssumption
  <2>3. AnswersInv' /\ mem' \in Memories
    BY <1>2, <1>3, <2>1, <2>2, AnswerKept
  <2>4. cursor' \in Nat /\ ScratchBase <= cursor' /\ cursor' < Limit + Word
    <3>1. cursor' \in Nat /\ cursor + Digest <= cursor' /\ cursor' < Limit + Word
      BY <1>2, <1>3, <2>1, <2>2, AdvanceBounds
    <3> QED
      BY <1>2, <2>2, <3>1
  <2> QED
    BY <1>1, <1>2, <2>1, <2>3, <2>4, GuestStep
<1>4. CASE ~ Fits(cursor, Digest)
  <2>1. pc' = "done" /\ outcome' = "trap" /\ UNCHANGED <<mem, cursor, returned>>
    BY <1>4 DEF Fp, Exhausted, Traps
  <2> QED
    BY <1>1, <1>2, <2>1, AnswersUntouched, GuestStep
<1> QED
  BY <1>3, <1>4

\* A call that answers with a length and a block of n bytes does, if it wrote
\* them above the cursor.
LEMMA GivesStep ==
    ASSUME HInv, NEW import, NEW ptr \in Ptrs, NEW len \in Lens, Calls(import, ptr, len),
           NEW n \in Nat, NEW b \in [0 .. n - 1 -> Byte], Room(n),
           NEW written \in Memories,
           \A i \in 0 .. n - 1 : written[Slot + i] = b[i],
           \A a \in 0 .. Size - 1 : a < cursor => written[a] = mem[a],
           Gives(b, written), cursor' = Advance(Slot, n), UNCHANGED last,
           \/ UNCHANGED emitted
           \/ \E e \in Emissions : e.call = calls' /\ calls' >= 1 /\ emitted' = Append(emitted, e)
    PROVE  HInv'
<1>1. /\ TypeInv /\ AnswersInv /\ pc = "run" /\ UNCHANGED module
      /\ calls' \in 0 .. MaxCalls /\ calls' \in Nat /\ calls <= calls'
      /\ cursor \in Nat /\ ScratchBase <= cursor /\ ScratchBase \in Nat /\ last' \in Nat
  BY CallFacts
<1>2. AnswersInv' /\ mem' \in Memories
  BY <1>1, AnswersKept
<1>3. UNCHANGED <<pc, outcome>>
  BY DEF Gives, Continues
<1>4. cursor' \in Nat /\ ScratchBase <= cursor' /\ cursor' < Limit + Word
  <2>1. Word \in Nat
    BY HostSizesAssumption
  <2>2. Slot \in Nat /\ cursor + Word <= Slot
    BY <1>1, <2>1, AdvanceBounds DEF Room, Slot
  <2>3. cursor' \in Nat /\ Slot + n <= cursor' /\ cursor' < Limit + Word
    BY <2>2, AdvanceBounds DEF Room
  <2> QED
    BY <1>1, <2>1, <2>2, <2>3
<1> HIDE DEF Emissions
<1> QED
  BY <1>1, <1>2, <1>3, <1>4, GuestStep

\* So does one the scratch region has no room for.
LEMMA ExhaustedStep ==
    ASSUME HInv, NEW import, NEW ptr \in Ptrs, NEW len \in Lens, Calls(import, ptr, len),
           Exhausted, UNCHANGED last,
           \/ UNCHANGED emitted
           \/ \E e \in Emissions : e.call = calls' /\ calls' >= 1 /\ emitted' = Append(emitted, e)
    PROVE  HInv'
<1>1. /\ TypeInv /\ AnswersInv /\ pc = "run" /\ UNCHANGED module
      /\ calls' \in 0 .. MaxCalls /\ calls' \in Nat /\ calls <= calls'
      /\ mem \in Memories /\ cursor \in Nat /\ ScratchBase <= cursor /\ last' \in Nat
  BY CallFacts
<1>2. pc' = "done" /\ outcome' = "trap" /\ UNCHANGED <<mem, cursor, returned>>
  BY DEF Exhausted, Traps
<1>3. AnswersInv'
  BY <1>1, <1>2, AnswersUntouched
<1> QED
  BY <1>1, <1>2, <1>3, GuestStep

\* A block put at the slot, in a memory that differs from the guest's above it
\* only, is what GivesStep asks for.
LEMMA SlotBlock ==
    ASSUME HInv, NEW import, NEW ptr \in Ptrs, NEW len \in Lens, Calls(import, ptr, len),
           NEW n \in Nat, NEW b \in [0 .. n - 1 -> Byte], Room(n),
           NEW m \in Memories, \A a \in 0 .. Size - 1 : a < Slot => m[a] = mem[a],
           Gives(b, Put(m, Slot, b)), cursor' = Advance(Slot, n), UNCHANGED last,
           \/ UNCHANGED emitted
           \/ \E e \in Emissions : e.call = calls' /\ calls' >= 1 /\ emitted' = Append(emitted, e)
    PROVE  HInv'
<1> DEFINE written == Put(m, Slot, b)
<1>1. /\ mem \in Memories /\ cursor \in Nat /\ Size \in Nat /\ module \in Modules
      /\ Word \in Nat
  BY CallFacts, HostSizesAssumption
<1>2. Slot \in Nat /\ cursor <= Slot /\ Slot + n <= Size
  BY <1>1, AdvanceBounds DEF Room, Slot, Fits
<1>3. /\ written \in Memories
      /\ \A i \in 0 .. n - 1 : written[Slot + i] = b[i]
      /\ \A a \in 0 .. Size - 1 : a < Slot \/ Slot + n <= a => written[a] = m[a]
  <2>1. module \in Modules /\ Slot \in Nat /\ Slot + n <= Size
    BY <1>1, <1>2
  <2> QED
    BY <2>1, PutBytes
<1>4. Gives(b, written)
  OBVIOUS
<1> HIDE DEF written, Emissions
<1>5. \A a \in 0 .. Size - 1 : a < cursor => written[a] = mem[a]
  BY <1>1, <1>2, <1>3
<1> QED
  BY <1>3, <1>4, <1>5, GivesStep

\* A header of h bytes and the len bytes at ptr are h + len bytes.
LEMMA CodedType ==
    ASSUME module \in Modules, calls' \in Nat,
           NEW m \in Memories, NEW h \in Nat, NEW ptr \in Nat, NEW len \in Nat,
           ptr + len <= Size, NEW n, n = h + len
    PROVE  Coded(m, h, ptr, len) \in [0 .. n - 1 -> Byte]
<1>1. ASSUME NEW i \in 0 .. h + len - 1
      PROVE  (IF i < h THEN <<calls', i>> ELSE m[ptr + i - h]) \in Byte
  <2>1. CASE i < h
    BY <2>1 DEF Byte
  <2>2. CASE ~ (i < h)
    <3>1. ptr + i - h \in 0 .. Size - 1
      BY <2>2, SizeType
    <3> QED
      BY <2>2, <3>1 DEF Memories
  <2> QED
    BY <2>1, <2>2
<1> QED
  BY <1>1 DEF Coded

\* encode_cbor does: a header, and the source as it is once the header is there.
LEMMA EncodeCborStep ==
    ASSUME HInv, NEW ptr \in Ptrs, NEW len \in Lens, EncodeCbor(ptr, len)
    PROVE  HInv'
<1> DEFINE h      == HeaderLen[len]
           headed == Put(mem, Slot, Bytes(calls', h))
           coded  == Coded(headed, h, ptr, len)
<1>1. Calls("encode_cbor", ptr, len) /\ UNCHANGED <<emitted, last>>
  BY DEF EncodeCbor
<1>2. /\ calls' \in Nat /\ ptr \in Nat /\ len \in Nat /\ ptr + len <= Size
      /\ mem \in Memories /\ cursor \in Nat /\ Size \in Nat /\ module \in Modules
  BY <1>1, CallFacts
<1>3. h \in Nat /\ Word \in Nat
  BY <1>2, HostSizesAssumption
<1>n. PICK n \in Nat : n = h + len
  BY <1>2, <1>3
<1>4. CASE Room(h + len)
  <2>1. Gives(coded, Put(headed, Slot, coded)) /\ cursor' = Advance(Slot, n) /\ Room(n)
    BY <1>4, <1>n DEF EncodeCbor
  <2>2. Slot \in Nat /\ cursor <= Slot /\ Slot + h <= Size
    BY <1>2, <1>3, <1>n, <2>1, AdvanceBounds DEF Room, Slot, Fits
  <2>3. Bytes(calls', h) \in [0 .. h - 1 -> Byte]
    BY <1>2, <1>3, BytesType
  <2> HIDE DEF h
  <2>4. /\ headed \in Memories
        /\ \A a \in 0 .. Size - 1 : a < Slot => headed[a] = mem[a]
    BY <1>2, <1>3, <2>2, <2>3, PutBytes
  <2> HIDE DEF headed
  <2>5. coded \in [0 .. n - 1 -> Byte]
    BY <1>2, <1>3, <1>n, <2>4, CodedType
  <2> HIDE DEF coded
  <2> QED
    BY <1>1, <2>1, <2>4, <2>5, SlotBlock
<1>5. CASE ~ Room(h + len)
  <2>1. Exhausted
    BY <1>5 DEF EncodeCbor
  <2> QED
    BY <1>1, <2>1, ExhaustedStep
<1> QED
  BY <1>4, <1>5

\* read_node does: nothing, or a node.
LEMMA ReadNodeStep ==
    ASSUME HInv, NEW ptr \in Ptrs, NEW len \in Lens, ReadNode(ptr, len)
    PROVE  HInv'
<1>1. Calls("read_node", ptr, len) /\ UNCHANGED <<emitted, last>>
  BY DEF ReadNode
<1>2. CASE Continues /\ UNCHANGED <<mem, cursor, returned>>
  <2>1. AnswersInv'
    BY <1>1, <1>2, CallFacts, AnswersUntouched
  <2>2. /\ TypeInv /\ pc = "run" /\ UNCHANGED <<module, pc, outcome, mem, cursor>>
        /\ calls' \in 0 .. MaxCalls /\ calls <= calls'
        /\ mem \in Memories /\ cursor \in Nat /\ ScratchBase <= cursor /\ last' \in Nat
    BY <1>1, <1>2, CallFacts DEF Continues
  <2> QED
    BY <1>1, <2>1, <2>2, GuestStep
<1>3. CASE \E n \in NodeLens :
             IF Room(n)
             THEN /\ Gives(Bytes(calls', n), Put(mem, Slot, Bytes(calls', n)))
                  /\ cursor' = Advance(Slot, n)
             ELSE Exhausted
  <2>1. PICK n \in NodeLens :
             IF Room(n)
             THEN /\ Gives(Bytes(calls', n), Put(mem, Slot, Bytes(calls', n)))
                  /\ cursor' = Advance(Slot, n)
             ELSE Exhausted
    BY <1>3
  <2>2. n \in Nat /\ Bytes(calls', n) \in [0 .. n - 1 -> Byte]
    <3>1. n \in Nat /\ calls' \in Int
      BY <1>1, CallFacts, HostInputsAssumption
    <3> QED
      BY <3>1, BytesType
  <2>3. CASE Room(n)
    BY <1>1, <2>1, <2>2, <2>3, CallFacts, SlotBlock
  <2>4. CASE ~ Room(n)
    BY <1>1, <2>1, <2>4, ExhaustedStep
  <2> QED
    BY <2>3, <2>4
<1> QED
  BY <1>2, <1>3 DEF ReadNode

\* The payload and the envelope of emit_action_envelope.
LEMMA EnvelopeType ==
    ASSUME module \in Modules, calls' \in Nat, mem \in Memories,
           NEW ptr \in Nat, NEW len \in Nat, ptr + len <= Size, NEW n \in Nat
    PROVE  /\ Slice(mem, ptr, len) \in [0 .. len - 1 -> Byte]
           /\ Enveloped(Slice(mem, ptr, len), len, n) \in [0 .. n - 1 -> Byte]
<1>1. ASSUME NEW i \in 0 .. len - 1
      PROVE  mem[ptr + i] \in Byte
  <2>1. ptr + i \in 0 .. Size - 1
    BY SizeType
  <2> QED
    BY <2>1 DEF Memories
<1>2. Slice(mem, ptr, len) \in [0 .. len - 1 -> Byte]
  BY <1>1 DEF Slice
<1> DEFINE payload == Slice(mem, ptr, len)
<1> HIDE DEF payload
<1>3. ASSUME NEW i \in 0 .. n - 1
      PROVE  (IF Spans(Word, len, i) THEN payload[i - Word] ELSE <<calls', i>>) \in Byte
  <2>1. CASE Spans(Word, len, i)
    <3>1. i - Word \in 0 .. len - 1
      BY <2>1, HostSizesAssumption DEF Spans
    <3> QED
      BY <1>2, <2>1, <3>1 DEF payload
  <2>2. CASE ~ Spans(Word, len, i)
    BY <2>2 DEF Byte
  <2> QED
    BY <2>1, <2>2
<1>4. Enveloped(payload, len, n) \in [0 .. n - 1 -> Byte]
  BY <1>3 DEF Enveloped
<1> QED
  BY <1>2, <1>4 DEF payload

\* emit_action_envelope does: the list of envelopes grows whether or not there is
\* room for the answer.
LEMMA EmitStep ==
    ASSUME HInv, NEW ptr \in Ptrs, NEW len \in Lens, EmitActionEnvelope(ptr, len)
    PROVE  HInv'
<1> DEFINE payload  == Slice(mem, ptr, len)
           entry    == [call |-> calls', payload |-> payload, owned |-> Room(Word + len + Sig)]
<1>1. Calls("emit_action_envelope", ptr, len) /\ UNCHANGED last
  BY DEF EmitActionEnvelope
<1>2. /\ calls' \in Nat /\ calls' >= 1 /\ ptr \in Nat /\ len \in Nat /\ ptr + len <= Size
      /\ mem \in Memories /\ module \in Modules
  BY <1>1, CallFacts
<1>n. PICK n \in Nat : n = Word + len + Sig
  BY <1>2, HostSizesAssumption
<1>3. payload \in [0 .. len - 1 -> Byte] /\ Enveloped(payload, len, n) \in [0 .. n - 1 -> Byte]
  BY <1>2, EnvelopeType
<1>4. \E e \in Emissions : e.call = calls' /\ calls' >= 1 /\ emitted' = Append(emitted, e)
  <2>1. emitted' = Append(emitted, entry)
    BY DEF EmitActionEnvelope
  <2>2. Room(Word + len + Sig) \in BOOLEAN
    BY DEF Room, Fits
  <2>3. payload \in UNION {[0 .. k - 1 -> Byte] : k \in Nat}
    BY <1>2, <1>3
  <2> HIDE DEF payload
  <2>4. entry \in Emissions /\ entry.call = calls'
    BY <1>2, <2>2, <2>3 DEF Emissions
  <2> QED
    BY <1>2, <2>1, <2>4
<1> HIDE DEF Emissions
<1>5. CASE Room(Word + len + Sig)
  <2>1. /\ Gives(Enveloped(payload, len, n), Put(mem, Slot, Enveloped(payload, len, n)))
        /\ cursor' = Advance(Slot, n) /\ Room(n)
    BY <1>5, <1>n DEF EmitActionEnvelope
  <2> DEFINE b == Enveloped(payload, len, n)
  <2> HIDE DEF b
  <2>2. b \in [0 .. n - 1 -> Byte] /\ Gives(b, Put(mem, Slot, b))
    BY <1>3, <2>1 DEF b
  <2> QED
    BY <1>1, <1>2, <1>4, <2>1, <2>2, SlotBlock
<1>6. CASE ~ Room(Word + len + Sig)
  <2>1. Exhausted
    BY <1>6 DEF EmitActionEnvelope
  <2> QED
    BY <1>1, <1>4, <2>1, ExhaustedStep
<1> QED
  BY <1>5, <1>6

\* A reading of the clock that is earlier than the last is not given.
LEMMA NowMsStep ==
    ASSUME HInv, NowMs
    PROVE  HInv'
<1>1. /\ TypeInv /\ AnswersInv /\ pc = "run" /\ UNCHANGED <<module, pc, outcome>>
      /\ calls' = calls + 1 /\ calls < MaxCalls /\ UNCHANGED <<mem, cursor, returned, emitted>>
  BY DEF HInv, NowMs, Calls, Continues
<1>2. /\ calls' \in 0 .. MaxCalls /\ calls <= calls'
      /\ mem \in Memories /\ cursor \in Nat /\ ScratchBase <= cursor /\ last \in Nat
  BY <1>1, HostInputsAssumption DEF TypeInv
<1>3. last' \in Nat
  <2>1. PICK since \in Clock : last' = IF since < last THEN last ELSE since
    BY DEF NowMs
  <2> QED
    BY <1>2, <2>1, HostInputsAssumption
<1>4. AnswersInv'
  BY <1>1, AnswersUntouched
<1> QED
  BY <1>1, <1>2, <1>3, <1>4, GuestStep

\* A store of the guest takes with it the answers it writes over.
LEMMA StoreStep ==
    ASSUME HInv, NEW ptr \in Ptrs, Store(ptr)
    PROVE  HInv'
<1> DEFINE word == Bytes(calls', Word)
<1>1. /\ TypeInv /\ AnswersInv /\ pc = "run" /\ UNCHANGED <<module, pc, outcome, cursor, emitted, last>>
      /\ calls' = calls + 1 /\ calls < MaxCalls /\ ptr + Word <= Size /\ mem' = Put(mem, ptr, word)
      /\ returned' = {r \in returned : \A i \in DOMAIN r.bytes : ~ Spans(ptr, Word, r.at + i)}
  BY DEF HInv, Store, Continues
<1>2. /\ calls' \in 0 .. MaxCalls /\ calls' \in Int /\ calls <= calls' /\ ptr \in Nat /\ Word \in Nat
      /\ mem \in Memories /\ cursor \in Nat /\ ScratchBase <= cursor /\ last \in Nat
      /\ module \in Modules /\ Size \in Nat
  BY <1>1, HostInputsAssumption, HostSizesAssumption, SizeType DEF TypeInv
<1>3. word \in [0 .. Word - 1 -> Byte]
  BY <1>2, BytesType
<1> HIDE DEF word
<1>4. /\ mem' \in Memories
      /\ \A a \in 0 .. Size - 1 : a < ptr \/ ptr + Word <= a => mem'[a] = mem[a]
  <2>1. /\ Put(mem, ptr, word) \in Memories
        /\ \A a \in 0 .. Size - 1 :
              a < ptr \/ ptr + Word <= a => Put(mem, ptr, word)[a] = mem[a]
    BY <1>1, <1>2, <1>3, PutBytes, ZenonT(60)
  <2> QED
    BY <2>1, <1>1
<1>5. DOMAIN mem = 0 .. Size - 1 /\ DOMAIN mem' = 0 .. Size - 1
  BY <1>2, <1>4 DEF Memories
<1>6. ASSUME NEW r \in returned', NEW i \in DOMAIN r.bytes
      PROVE  /\ i \in Nat /\ r.at + i < cursor'
             /\ r.at + i \in DOMAIN mem' /\ mem'[r.at + i] = r.bytes[i]
  <2>1. /\ r \in returned /\ ~ Spans(ptr, Word, r.at + i)
        /\ r.at \in Nat /\ i \in Nat /\ r.at + i < cursor
        /\ r.at + i \in 0 .. Size - 1 /\ mem[r.at + i] = r.bytes[i]
    BY <1>1, <1>5 DEF AnswersInv
  <2>2. r.at + i < ptr \/ ptr + Word <= r.at + i
    BY <1>2, <2>1 DEF Spans
  <2> QED
    BY <1>1, <1>4, <1>5, <2>1, <2>2
<1>7. AnswersInv'
  BY <1>1, <1>6 DEF AnswersInv
<1> QED
  BY <1>1, <1>2, <1>4, <1>7, GuestStep

-----------------------------------------------------------------------------
\* The driver's own steps leave the guest alone, but for the one that makes it.
LEMMA DriverStep ==
    ASSUME HInv, UNCHANGED <<module, guest>>,
           \/ pc # "run" /\ pc' # "run"
           \/ pc = "run" /\ pc' \in {"run", "done"},
           pc' \in {"parse", "imports", "memory", "instantiate", "done"} \cup {pc},
           pc # "done" \/ pc' = "done",
           outcome' \in {"fp_mismatch", "trap", "import_violation", "no_emit", "ok", outcome}
    PROVE  HInv'
<1>1. UNCHANGED <<mem, cursor, calls, returned, emitted, last>>
  BY DEF guest
<1>2. AnswersInv'
  BY <1>1, AnswersUntouched DEF HInv
<1>3. Memories' = Memories /\ Limit' = Limit /\ Emissions' = Emissions
  BY DEF Memories, Size, Limit, Emissions
<1> HIDE DEF Emissions
<1>4. TypeInv'
  BY <1>1, <1>3 DEF HInv, TypeInv
<1> QED
  BY <1>2, <1>4 DEF HInv

\* The memory as it is instantiated, with no answer in it yet.
LEMMA InstantiateStep ==
    ASSUME HInv, Instantiate
    PROVE  HInv'
<1>1. CASE module.data <= Size
  <2>1. /\ mem' = [a \in 0 .. Size - 1 |-> <<0, a>>] /\ cursor' = ScratchBase
        /\ UNCHANGED <<module, calls, returned, emitted, last>>
        /\ pc = "instantiate"
        /\ \/ pc' = "run" /\ UNCHANGED outcome
           \/ pc' = "done" /\ outcome' = "trap"
    BY <1>1 DEF Instantiate
  <2>2. module \in Modules /\ Size \in Nat /\ ScratchBase \in Nat /\ returned = {}
    BY <2>1, SizeType, HostSizesAssumption DEF HInv, TypeInv
  <2>3. mem' \in Memories
    BY <2>1, <2>2 DEF Memories, Byte
  <2>4. Memories' = Memories /\ Limit' = Limit /\ Emissions' = Emissions
    BY <2>1 DEF Memories, Size, Limit, Emissions
  <2>5. AnswersInv'
    BY <2>1, <2>2 DEF AnswersInv
  <2> HIDE DEF Emissions
  <2>6. TypeInv'
    BY <2>1, <2>2, <2>3, <2>4 DEF HInv, TypeInv
  <2> QED
    BY <2>5, <2>6 DEF HInv
<1>2. CASE ~ (module.data <= Size)
  <2>1. Ends("trap") /\ pc = "instantiate"
    BY <1>2 DEF Instantiate
  <2> QED
    BY <2>1, DriverStep DEF Ends
<1> QED
  BY <1>1, <1>2

\* Nothing happens to the invariant when nothing happens.
LEMMA HostStutter ==
    ASSUME HInv, UNCHANGED vars
    PROVE  HInv'
<1>1. Memories' = Memories /\ Limit' = Limit /\ Emissions' = Emissions
  BY DEF vars, Memories, Size, Limit, Emissions
<1> HIDE DEF Emissions
<1> QED
  BY <1>1 DEF vars, HInv, TypeInv, AnswersInv

\* Every step of a host, or of its guest, preserves the invariant.
LEMMA HostSteps ==
    ASSUME HInv, [Next]_vars
    PROVE  HInv'
<1>1. CASE VerifyBlake3
  BY <1>1, DriverStep DEF VerifyBlake3, Passes, Ends
<1>2. CASE Parse
  BY <1>2, DriverStep DEF Parse, Passes, Ends
<1>3. CASE VerifyImports
  BY <1>3, DriverStep DEF VerifyImports, Passes, Ends
<1>4. CASE CheckMemoryLimit
  BY <1>4, DriverStep DEF CheckMemoryLimit, Passes, Ends
<1>5. CASE Instantiate
  BY <1>5, InstantiateStep
<1>6. ASSUME NEW ptr \in Ptrs, NEW len \in Lens, Import(ptr, len)
      PROVE  HInv'
  BY <1>6, FpStep, EncodeCborStep, ReadNodeStep, EmitStep DEF Import
<1>7. CASE NowMs
  BY <1>7, NowMsStep
<1>8. ASSUME NEW ptr \in Ptrs, Store(ptr)
      PROVE  HInv'
  BY <1>8, StoreStep
<1>9. CASE Trap
  BY <1>9, DriverStep DEF Trap, Ends
<1>10. CASE Return
  BY <1>10, DriverStep DEF Return, Ends
<1>11. CASE UNCHANGED vars
  BY <1>11, HostStutter
<1> QED
  BY <1>1, <1>2, <1>3, <1>4, <1>5, <1>6, <1>7, <1>8, <1>9, <1>10, <1>11 DEF Next

-----------------------------------------------------------------------------
\* The invariant of an invocation: the answers of the host lie below the cursor
\* of its scratch region, in the memory the guest was given, each as written.
THEOREM HostInvariant == Spec => []HInv
<1>1. Init => HInv
  <2> SUFFICES ASSUME Init PROVE HInv
    OBVIOUS
  <2>1. <<>> \in Seq(Emissions) /\ DOMAIN <<>> = {}
    OBVIOUS
  <2> HIDE DEF Emissions
  <2> QED
    BY <2>1, HostInputsAssumption, HostSizesAssumption DEF Init, HInv, TypeInv, AnswersInv, Limit
<1>2. HInv /\ [Next]_vars => HInv'
  BY HostSteps
<1> QED
  BY <1>1, <1>2, PTL DEF Spec

\* Every variable keeps its type, whatever the sizes and whatever the guest does;
\* the cursor passes the end of the scratch region by less than a word.
THEOREM HostTypeCorrect == Spec => []TypeOK
<1>1. HInv => TypeOK
  <2> SUFFICES ASSUME HInv PROVE TypeOK
    OBVIOUS
  <2>1. \A r \in returned : r.at \in Nat
    BY DEF HInv, AnswersInv
  <2>2. \A k \in DOMAIN emitted : emitted[k] \in Emissions
    BY DEF HInv, TypeInv
  <2>3. \A k \in DOMAIN emitted : emitted[k].owned \in BOOLEAN
    BY <2>2 DEF Emissions
  <2> HIDE DEF Emissions
  <2> QED
    BY <2>1, <2>3 DEF HInv, TypeInv, TypeOK, Memories
<1> QED
  BY <1>1, HostInvariant, PTL

\* What the host answered the guest finds as it was written, until it stores over
\* it itself.
THEOREM HostReturnsIntact == Spec => []ReturnsIntact
<1>1. HInv => ReturnsIntact
  BY DEF HInv, AnswersInv, ReturnsIntact
<1> QED
  BY <1>1, HostInvariant, PTL

=============================================================================
