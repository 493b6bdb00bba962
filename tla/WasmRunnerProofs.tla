-------------------------- MODULE WasmRunnerProofs --------------------------
(***************************************************************************)
(* Proofs about WasmRunner, for any messages, any guest and any size of    *)
(* memory.                                                                 *)
(***************************************************************************)
EXTENDS WasmRunner, TLAPS

(* What the steps below need of the constants. *)
LEMMA Numbers ==
    /\ MaxMemory \in Nat \ {0} /\ MemorySize \in 1..MaxMemory
    /\ MaxCalls \in Nat /\ HeapBase \in Nat \ {0}
BY RunnerAssumption

LEMMA MessageTypes ==
    /\ \A x \in Messages : Size[x] \in Nat
    /\ \A q \in Requests : q \in Messages /\ Reply[q] \in Messages
                             /\ Reply[q] \in Replies /\ Score[q] \in Nat
BY RunnerAssumption DEF Messages

USE DEF Kinds, HeaderSize

-----------------------------------------------------------------------------
(* What is written to a memory are cells. *)
LEMMA WordIsCell == \A n \in Nat : Word(n) \in Cell
BY DEF Word, Cell

LEMMA ZerosAreCells == \A n \in Nat : Zeros(n) \in [1..n -> Cell]
BY WordIsCell DEF Zeros

LEMMA EncodingIsCells == \A x \in Messages : Encoding(x) \in [1..Size[x] -> Cell]
BY MessageTypes DEF Encoding, Cell

LEMMA AnswerTypes ==
    /\ None \in Answers /\ Threw \in Answers
    /\ \A y \in Replies : <<"message", y>> \in Answers
    /\ \A k \in Kinds, q \in Requests : Answer(k, q) \in Answers
BY MessageTypes DEF Answers, Answer

LEMMA PutType ==
    ASSUME NEW m \in [Addresses -> Cell], NEW p \in Addresses,
           NEW n \in Nat, NEW s \in [1..n -> Cell]
    PROVE  Put(m, p, s) \in [Addresses -> Cell]
BY DEF Put, Addresses

LEMMA PairIsCells ==
    ASSUME NEW c \in Cell, NEW d \in Cell
    PROVE  <<c, d>> \in [1..2 -> Cell]
OBVIOUS

(* What malloc does to the type of the allocator's state. *)
LEMMA AllocateType ==
    ASSUME TypeOK, NEW p \in Addresses, NEW n \in Nat,
           NEW who \in {"host", "guest"}, Allocate(p, n, who)
    PROVE  /\ memSize' \in memSize..MaxMemory
           /\ blocks' \subseteq Blocks
           /\ exhausted' \in BOOLEAN
<1> USE DEF TypeOK, MemoryType, CallType, alloc, Addresses
<1>1. CASE p = 0 /\ exhausted' = TRUE /\ UNCHANGED alloc
  BY Numbers, <1>1
<1>2. CASE /\ p \in Room(n)
           /\ blocks' = blocks \cup {[base |-> p, size |-> Need(n), owner |-> who]}
           /\ memSize' = IF p + Need(n) > memSize THEN p + Need(n) ELSE memSize
           /\ UNCHANGED exhausted
  <2>1. Need(n) \in Nat \ {0}
    BY DEF Need
  <2>2. p + Need(n) <= MaxMemory
    BY Numbers, <1>2, <2>1 DEF Room, Fits
  <2> QED
    BY Numbers, <1>2, <2>1, <2>2 DEF Blocks
<1> QED
  BY <1>1, <1>2 DEF Allocate

LEMMA MallocType ==
    ASSUME TypeOK, NEW p \in Addresses, NEW n \in Nat, NEW at, Malloc(p, n, at)
    PROVE  /\ memSize' \in memSize..MaxMemory
           /\ blocks' \subseteq Blocks
           /\ exhausted' \in BOOLEAN
BY Numbers, AllocateType DEF Malloc, TypeOK, MemoryType, CallType, alloc, Addresses

-----------------------------------------------------------------------------
(***************************************************************************)
(* Type correctness.  That the guest and the host read headers inside the  *)
(* memory needs what the constructors of the wrappers checked: what they   *)
(* point at lies within the limit of the buffer.                           *)
(***************************************************************************)
InBounds ==
    /\ HasInputHeader => in.ptr + HeaderSize <= cap
    /\ HasInput => in.data + Size[msg] <= cap
    /\ HasOutput => out + HeaderSize <= cap

LEMMA FreeType ==
    ASSUME TypeOK, NEW ps, Free(ps)
    PROVE  blocks' \subseteq Blocks /\ memSize' = memSize
BY DEF Free, TypeOK, MemoryType

LEMMA TypeStep ==
    ASSUME TypeOK, InBounds, [Next]_vars
    PROVE  TypeOK' /\ InBounds'
<1> USE Numbers DEF TypeOK, MemoryType, CallType, InBounds, HasInputHeader,
        HasInput, HasOutput, args, alloc
<1>1. ASSUME NEW q \in Requests, NEW k \in Kinds, Call(q, k)
      PROVE  TypeOK' /\ InBounds'
  <2>7. MemoryType'
    BY <1>1 DEF Call
  <2>8. CallType'
    <3>1. calls' \in 0..MaxCalls
      BY <1>1 DEF Call
    <3> QED
      BY <1>1, <3>1, AnswerTypes DEF Call
  <2>9. InBounds'
    BY <1>1 DEF Call
  <2> QED
    BY <2>7, <2>8, <2>9
<1>2. ASSUME NEW p \in Addresses, InputHeader(p) PROVE TypeOK' /\ InBounds'
  <2>2. /\ memSize' \in memSize..MaxMemory /\ blocks' \subseteq Blocks
        /\ exhausted' \in BOOLEAN
    BY <1>2, MallocType DEF InputHeader
  <2>5. p \in Int /\ cap \in Int
    BY DEF Addresses
  <2>3. CASE p + HeaderSize <= cap
    <3>1. /\ in' = [in EXCEPT !.ptr = p] /\ pc' = "data"
          /\ UNCHANGED <<memory, order, out, answer, lost, args, trapped>>
      BY <1>2, <2>5, <2>3 DEF InputHeader
    <3>7. MemoryType'
      BY <2>2, <2>3, <3>1
    <3>8. CallType'
      BY <2>2, <2>3, <3>1
    <3>9. InBounds'
      BY <2>2, <2>3, <3>1
    <3> QED
      BY <3>7, <3>8, <3>9
  <2>4. CASE p + HeaderSize > cap
    <3>1. Bases(blocks' \ blocks) \subseteq Addresses
      BY <2>2 DEF Bases, Blocks
    <3>2. ConstructorThrows({}, "idle") /\ UNCHANGED <<args, trapped>>
      BY <1>2, <2>5, <2>4 DEF InputHeader
    <3>3. lost' \subseteq Addresses
      BY <3>1, <3>2 DEF ConstructorThrows
    <3>4. UNCHANGED <<memory, cap>>
      BY <3>2 DEF ConstructorThrows
    <3>7. MemoryType'
      BY <2>2, <3>3, <3>4
    <3>8. CallType'
      BY <2>2, <3>2, AnswerTypes DEF ConstructorThrows
    <3>9. InBounds'
      BY <1>2, <3>2 DEF ConstructorThrows, InputHeader
    <3> QED
      BY <3>7, <3>8, <3>9
  <2> QED
    BY <2>3, <2>4, <2>5
<1>3. ASSUME NEW d \in Addresses, InputData(d) PROVE TypeOK' /\ InBounds'
  <2>1. Size[msg] \in Nat /\ msg \in Messages /\ d \in Nat
    BY MessageTypes DEF Addresses
  <2>2. /\ memSize' \in memSize..MaxMemory /\ blocks' \subseteq Blocks
        /\ exhausted' \in BOOLEAN
    BY <1>3, <2>1, MallocType DEF InputData
  <2>3. CASE d + Size[msg] <= cap
    <3>1. memory' \in [Addresses -> Cell]
      <4>1. Put(memory, d, Encoding(msg)) \in [Addresses -> Cell]
        BY <2>1, PutType, EncodingIsCells
      <4>2. <<Word(d), Word(Size[msg])>> \in [1..2 -> Cell]
        BY <2>1, WordIsCell, PairIsCells
      <4>3. memory' = Put(Put(memory, d, Encoding(msg)), in.ptr,
                          <<Word(d), Word(Size[msg])>>)
        BY <1>3, <2>1, <2>3 DEF InputData
      <4> QED
        BY <4>1, <4>2, <4>3, PutType
    <3>7. MemoryType'
      BY <1>3, <2>1, <2>2, <2>3, <3>1 DEF InputData
    <3>8. CallType'
      BY <1>3, <2>1, <2>2, <2>3 DEF InputData
    <3>9. InBounds'
      BY <1>3, <2>1, <2>2, <2>3 DEF InputData
    <3> QED
      BY <3>7, <3>8, <3>9
  <2>4. CASE d + Size[msg] > cap
    <3>1. Bases(blocks' \ blocks) \subseteq Addresses
      BY <2>2 DEF Bases, Blocks
    <3>7. MemoryType'
      BY <1>3, <2>2, <2>4, <2>1, <3>1 DEF InputData, ConstructorThrows
    <3>8. CallType'
      BY <1>3, <2>2, <2>4, <2>1, AnswerTypes DEF InputData, ConstructorThrows
    <3>9. InBounds'
      BY <1>3, <2>2, <2>4, <2>1 DEF InputData, ConstructorThrows
    <3> QED
      BY <3>7, <3>8, <3>9
  <2> QED
    BY <2>3, <2>4, <2>1
<1>4. ASSUME NEW p \in Addresses, OutputHeader(p) PROVE TypeOK' /\ InBounds'
  <2>2. /\ memSize' \in memSize..MaxMemory /\ blocks' \subseteq Blocks
        /\ exhausted' \in BOOLEAN
    BY <1>4, MallocType DEF OutputHeader
  <2>5. p \in Int /\ cap \in Int
    BY DEF Addresses
  <2>3. CASE p + HeaderSize <= cap
    <3>1. /\ out' = p /\ pc' = "invoke" /\ pc = "output"
          /\ UNCHANGED <<memory, order, in, answer, lost, args, trapped>>
      BY <1>4, <2>5, <2>3 DEF OutputHeader
    <3>7. MemoryType'
      BY <2>2, <2>3, <3>1
    <3>8. CallType'
      BY <2>2, <2>3, <3>1
    <3>9. InBounds'
      BY <2>2, <2>3, <3>1
    <3> QED
      BY <3>7, <3>8, <3>9
  <2>4. CASE p + HeaderSize > cap
    <3>1. Bases(blocks' \ blocks) \subseteq Addresses
      BY <2>2 DEF Bases, Blocks
    <3>2. ConstructorThrows({}, "closeInput") /\ UNCHANGED <<args, trapped>>
      BY <1>4, <2>5, <2>4 DEF OutputHeader
    <3>3. lost' \subseteq Addresses
      BY <3>1, <3>2 DEF ConstructorThrows
    <3>4. UNCHANGED <<memory, cap>>
      BY <3>2 DEF ConstructorThrows
    <3>7. MemoryType'
      BY <2>2, <3>3, <3>4
    <3>8. CallType'
      BY <2>2, <3>2, AnswerTypes DEF ConstructorThrows
    <3>9. InBounds'
      BY <1>4, <3>2 DEF ConstructorThrows, OutputHeader
    <3> QED
      BY <3>7, <3>8, <3>9
  <2> QED
    BY <2>3, <2>4, <2>5
<1>5. ASSUME NEW q \in Requests, NEW p \in Addresses, GuestReplies(q, p)
      PROVE  TypeOK' /\ InBounds'
  <2>1. Reply[q] \in Messages /\ Size[Reply[q]] \in Nat /\ p \in Nat
    BY MessageTypes DEF Addresses
  <2>2. /\ memSize' \in memSize..MaxMemory /\ blocks' \subseteq Blocks
        /\ exhausted' \in BOOLEAN
    BY <1>5, <2>1, AllocateType DEF GuestReplies
  <2>3. memory' \in [Addresses -> Cell]
    <3>1. Put(memory, p, Encoding(Reply[q])) \in [Addresses -> Cell]
      BY <2>1, PutType, EncodingIsCells
    <3>2. <<Word(p), Word(Size[Reply[q]])>> \in [1..2 -> Cell]
      BY <2>1, WordIsCell, PairIsCells
    <3>3. memory' = Put(Put(memory, p, Encoding(Reply[q])), out,
                        <<Word(p), Word(Size[Reply[q]])>>)
      BY <1>5 DEF GuestReplies
    <3> QED
      BY <3>1, <3>2, <3>3, PutType
  <2>7. MemoryType'
    BY <1>5, <2>2, <2>3 DEF GuestReplies
  <2>8. CallType'
    BY <1>5, <2>2 DEF GuestReplies
  <2>9. InBounds'
    BY <1>5, <2>2 DEF GuestReplies
  <2> QED
    BY <2>7, <2>8, <2>9
<1>6. ASSUME NEW q \in Requests, GuestEchoes(q) PROVE TypeOK' /\ InBounds'
  <2>1. Cells(in.ptr, HeaderSize) \in [1..2 -> Cell]
    <3>1. in.ptr \in Addresses /\ in.ptr + 1 \in Addresses /\ memory \in [Addresses -> Cell]
      BY <1>6 DEF GuestEchoes, Addresses
    <3>2. memory[in.ptr] \in Cell /\ memory[in.ptr + 1] \in Cell
      BY <3>1
    <3> QED
      BY <3>1, <3>2 DEF Cells, Addresses
  <2>2. memory' \in [Addresses -> Cell]
    BY <1>6, <2>1, PutType DEF GuestEchoes
  <2>7. MemoryType'
    BY <1>6, <2>2 DEF GuestEchoes
  <2>8. CallType'
    BY <1>6 DEF GuestEchoes
  <2>9. InBounds'
    BY <1>6 DEF GuestEchoes
  <2> QED
    BY <2>7, <2>8, <2>9
<1>7. ASSUME NEW q \in Requests, GuestReturns(q) PROVE TypeOK' /\ InBounds'
  <2>7. MemoryType'
    BY <1>7 DEF GuestReturns
  <2>8. CallType'
    BY <1>7, AnswerTypes DEF GuestReturns
  <2>9. InBounds'
    BY <1>7 DEF GuestReturns
  <2> QED
    BY <2>7, <2>8, <2>9
<1>8. ASSUME GuestTraps PROVE TypeOK' /\ InBounds'
  <2>7. MemoryType'
    BY <1>8 DEF GuestTraps
  <2>8. CallType'
    BY <1>8, AnswerTypes DEF GuestTraps
  <2>9. InBounds'
    BY <1>8 DEF GuestTraps
  <2> QED
    BY <2>7, <2>8, <2>9
<1>9. ASSUME NEW y \in Replies, ReadResult(y) PROVE TypeOK' /\ InBounds'
  <2>7. MemoryType'
    BY <1>9 DEF ReadResult
  <2>8. CallType'
    BY <1>9, AnswerTypes DEF ReadResult
  <2>9. InBounds'
    BY <1>9 DEF ReadResult
  <2> QED
    BY <2>7, <2>8, <2>9
<1>10. ASSUME ReadThrows PROVE TypeOK' /\ InBounds'
  <2>7. MemoryType'
    BY <1>10 DEF ReadThrows
  <2>8. CallType'
    BY <1>10, AnswerTypes DEF ReadThrows
  <2>9. InBounds'
    BY <1>10 DEF ReadThrows
  <2> QED
    BY <2>7, <2>8, <2>9
<1>11. ASSUME CloseOutput PROVE TypeOK' /\ InBounds'
  <2>1. blocks' \subseteq Blocks /\ memSize' = memSize
    BY <1>11, FreeType DEF CloseOutput
  <2>2. memory' \in [Addresses -> Cell]
    BY <1>11, PutType, ZerosAreCells DEF CloseOutput
  <2>7. MemoryType'
    BY <1>11, <2>1, <2>2 DEF CloseOutput
  <2>8. CallType'
    BY <1>11, <2>1 DEF CloseOutput
  <2>9. InBounds'
    BY <1>11, <2>1 DEF CloseOutput
  <2> QED
    BY <2>7, <2>8, <2>9
<1>12. ASSUME CloseInput PROVE TypeOK' /\ InBounds'
  <2>1. blocks' \subseteq Blocks /\ memSize' = memSize
    BY <1>12, FreeType DEF CloseInput
  <2>2. Size[msg] \in Nat
    BY MessageTypes
  <2>3. Put(memory, in.data, Zeros(Size[msg])) \in [Addresses -> Cell]
    BY <2>2, PutType, ZerosAreCells
  <2>4. memory' \in [Addresses -> Cell]
    BY <1>12, <2>3, PutType, ZerosAreCells DEF CloseInput
  <2>7. MemoryType'
    BY <1>12, <2>1, <2>4 DEF CloseInput
  <2>8. CallType'
    BY <1>12, <2>1 DEF CloseInput
  <2>9. InBounds'
    BY <1>12, <2>1 DEF CloseInput
  <2> QED
    BY <2>7, <2>8, <2>9
<1>13. ASSUME UNCHANGED vars PROVE TypeOK' /\ InBounds'
  <2>7. MemoryType'
    BY <1>13 DEF vars
  <2>8. CallType'
    BY <1>13 DEF vars
  <2>9. InBounds'
    BY <1>13 DEF vars
  <2> QED
    BY <2>7, <2>8, <2>9
<1>14. ASSUME MallocThrows PROVE TypeOK' /\ InBounds'
  <2>1. lost' \subseteq Addresses
    BY <1>14 DEF MallocThrows, ConstructorThrows, Bases
  <2>7. MemoryType'
    BY <1>14, <2>1 DEF MallocThrows, ConstructorThrows
  <2>8. CallType'
    BY <1>14, AnswerTypes DEF MallocThrows, ConstructorThrows
  <2>9. InBounds'
    BY <1>14 DEF MallocThrows, ConstructorThrows
  <2> QED
    BY <2>7, <2>8, <2>9
<1>15. ASSUME FreeOutputThrows \/ FreeDataThrows \/ FreeInputThrows
       PROVE  TypeOK' /\ InBounds'
  <2>1. blocks' \subseteq Blocks /\ memSize' = memSize
    BY <1>15, FreeType DEF FreeOutputThrows, FreeDataThrows, FreeInputThrows, FreeThrows
  <2>2. memory' \in [Addresses -> Cell]
    <3>1. /\ Put(memory, out, Zeros(HeaderSize)) \in [Addresses -> Cell]
          /\ Put(memory, in.data, Zeros(Size[msg])) \in [Addresses -> Cell]
      BY MessageTypes, PutType, ZerosAreCells
    <3>2. Put(Put(memory, in.data, Zeros(Size[msg])), in.ptr, Zeros(HeaderSize))
             \in [Addresses -> Cell]
      BY <3>1, PutType, ZerosAreCells
    <3> QED
      BY <1>15, <3>1, <3>2 DEF FreeOutputThrows, FreeDataThrows, FreeInputThrows
  <2>3. lost' \subseteq Addresses /\ UNCHANGED cap /\ answer' = Threw /\ trapped' = TRUE
        /\ pc' \in {"closeInput", "idle"}
        /\ (pc' = "closeInput" => pc = "closeOutput")
        /\ UNCHANGED <<msg, kind, calls, order, in, out, exhausted>>
    BY <1>15 DEF FreeOutputThrows, FreeDataThrows, FreeInputThrows, FreeThrows
  <2>7. MemoryType'
    BY <2>1, <2>2, <2>3
  <2>8. CallType'
    BY <2>3, AnswerTypes
  <2>9. InBounds'
    BY <2>3
  <2> QED
    BY <2>7, <2>8, <2>9
<1> QED
  BY <1>1, <1>2, <1>3, <1>4, <1>5, <1>6, <1>7, <1>8, <1>9, <1>10, <1>11, <1>12, <1>13,
     <1>14, <1>15
  DEF Next, Host, Guest, Finished

(* The variables keep their types, and every header is read in the memory. *)
THEOREM RunnerTypeCorrect == Spec => [](TypeOK /\ InBounds)
<1>1. Init => TypeOK /\ InBounds
  <2> SUFFICES ASSUME Init PROVE TypeOK /\ InBounds
    OBVIOUS
  <2>1. memory \in [Addresses -> Cell]
    BY WordIsCell DEF Init
  <2>2. MemoryType
    BY <2>1, Numbers DEF Init, MemoryType
  <2>3. CallType
    <3>1. 0 \in Addresses /\ calls \in 0..MaxCalls
      BY Numbers DEF Init, Addresses
    <3> QED
      BY <3>1, AnswerTypes DEF Init, CallType
  <2> QED
    BY <2>2, <2>3 DEF Init, TypeOK, InBounds, HasInputHeader, HasInput, HasOutput
<1> QED
  BY <1>1, TypeStep, PTL DEF Spec

-----------------------------------------------------------------------------
(***************************************************************************)
(* The host's blocks.  HostBlocksAccounted is not inductive: a free must   *)
(* take away just the pointer that is no longer held, so open wrappers     *)
(* must hold different blocks, none of them lost, and a block's address    *)
(* must not be 0, which free passes over.                                  *)
(***************************************************************************)
HeldApart ==
    /\ HasInputHeader => in.ptr \notin lost
    /\ HasInput => in.data \notin lost /\ (in.data = in.ptr => in.data = 0)
    /\ HasOutput => out \notin lost /\ (out \in {in.ptr, in.data} => out = 0)

HostInv ==
    /\ pc = "output" => kind = "message"
    /\ \A b \in blocks : b.base # 0
    /\ HostBlocksAccounted
    /\ HasMalloc => HeldApart

(* A block that malloc hands out starts where no other one does. *)
LEMMA AllocateBlocks ==
    ASSUME TypeOK, NEW p \in Addresses, NEW n \in Nat,
           NEW who \in {"host", "guest"}, Allocate(p, n, who),
           \A b \in blocks : b.base # 0
    PROVE  /\ p \notin Bases(blocks)
           /\ Bases(blocks' \ blocks) = {p} \ {0}
           /\ Bases(HostBlocks') =
                 Bases(HostBlocks) \cup (IF who = "host" THEN {p} \ {0} ELSE {})
           /\ \A b \in blocks' : b.base # 0
<1>1. CASE p = 0 /\ UNCHANGED alloc
  BY <1>1 DEF Bases, HostBlocks, alloc
<1>2. CASE /\ p \in Room(n)
           /\ blocks' = blocks \cup {[base |-> p, size |-> Need(n), owner |-> who]}
  <2> DEFINE new == [base |-> p, size |-> Need(n), owner |-> who]
  <2>1. Need(n) \in Nat \ {0}
    BY DEF Need
  <2>2. /\ p \in Nat /\ p # 0
        /\ \A b \in blocks : Cover(b.base, b.size) \cap Cover(p, Need(n)) = {}
    BY <1>2, <2>1, Numbers DEF Room, Fits
  <2>3. ASSUME NEW b \in blocks, b.base = p PROVE FALSE
    <3>1. b.size \in Nat \ {0}
      BY DEF TypeOK, MemoryType, Blocks
    <3>2. p \in Cover(b.base, b.size) /\ p \in Cover(p, Need(n))
      BY <2>1, <2>2, <2>3, <3>1 DEF Cover
    <3> QED
      BY <2>2, <3>2
  <2>4. p \notin Bases(blocks)
    BY <2>3 DEF Bases
  <2>5. blocks' \ blocks = {new} /\ new.base = p /\ new.owner = who
    BY <1>2, <2>3
  <2>6. HostBlocks' = HostBlocks \cup (IF who = "host" THEN {new} ELSE {})
    BY <1>2, <2>5 DEF HostBlocks
  <2> HIDE DEF new
  <2>7. Bases(blocks' \ blocks) = {p} \ {0}
    BY <2>2, <2>5 DEF Bases
  <2>8. Bases(HostBlocks') = Bases(HostBlocks) \cup (IF who = "host" THEN {p} \ {0} ELSE {})
    BY <2>2, <2>5, <2>6 DEF Bases
  <2>9. \A b \in blocks' : b.base # 0
    BY <1>2, <2>2
  <2> QED
    BY <2>4, <2>7, <2>8, <2>9
<1> QED
  BY <1>1, <1>2 DEF Allocate

(* free takes away just the blocks that start at the pointers it is given. *)
LEMMA FreeBlocks ==
    ASSUME NEW ps, Free(ps), HasMalloc
    PROVE  /\ blocks' \subseteq blocks
           /\ Bases(HostBlocks') = Bases(HostBlocks) \ (ps \ {0})
BY DEF Free, Bases, HostBlocks

LEMMA HostStep ==
    ASSUME TypeOK, HostInv, [Next]_vars, HasMalloc
    PROVE  HostInv'
<1> USE DEF HostInv, HostBlocksAccounted, HeldApart, Held, HasInputHeader,
        HasInput, HasOutput, args
<1>0. lost \subseteq Bases(HostBlocks) /\ 0 \notin lost /\ Bases(HostBlocks) \subseteq Bases(blocks)
  BY DEF Bases, HostBlocks
<1>1. ASSUME blocks' = blocks, pc' = pc, kind' = kind, in' = in, out' = out, lost' = lost
      PROVE  HostInv'
  BY <1>1 DEF Bases, HostBlocks
<1>2. ASSUME NEW q \in Requests, NEW k \in Kinds, Call(q, k) PROVE HostInv'
  BY <1>2 DEF Call, alloc, HostBlocks
<1>3. ASSUME NEW p \in Addresses, InputHeader(p) PROVE HostInv'
  <2>1. /\ p \notin Bases(blocks) /\ Bases(blocks' \ blocks) = {p} \ {0}
        /\ Bases(HostBlocks') = Bases(HostBlocks) \cup ({p} \ {0})
        /\ \A b \in blocks' : b.base # 0
    BY <1>3, AllocateBlocks DEF InputHeader, Malloc
  <2>2. CASE /\ pc = "header" /\ in' = [in EXCEPT !.ptr = p] /\ pc' = "data"
             /\ UNCHANGED lost
    <3>1. in'.ptr = p
      BY <2>2 DEF TypeOK, CallType
    <3> QED
      BY <1>0, <2>1, <2>2, <3>1
  <2>3. CASE pc = "header" /\ ConstructorThrows({}, "idle")
    BY <1>0, <2>1, <2>3 DEF ConstructorThrows
  <2> QED
    BY <1>3, <2>2, <2>3 DEF InputHeader
<1>4. ASSUME NEW d \in Addresses, InputData(d) PROVE HostInv'
  <2>0. Size[msg] \in Nat
    BY MessageTypes DEF TypeOK, CallType
  <2>1. /\ d \notin Bases(blocks) /\ Bases(blocks' \ blocks) = {d} \ {0}
        /\ Bases(HostBlocks') = Bases(HostBlocks) \cup ({d} \ {0})
        /\ \A b \in blocks' : b.base # 0
    BY <1>4, <2>0, AllocateBlocks DEF InputData, Malloc
  <2>2. CASE /\ pc = "data" /\ in' = [in EXCEPT !.data = d] /\ UNCHANGED lost
             /\ pc' = IF kind = "message" THEN "output" ELSE "invoke"
             /\ UNCHANGED kind
    <3>1. in'.data = d /\ in'.ptr = in.ptr
      BY <2>2 DEF TypeOK, CallType
    <3>2. d \notin lost /\ (d = in.ptr => d = 0)
      BY <1>0, <2>1, <2>2
    <3>3. ~HasOutput' /\ HasInput' /\ HasInputHeader' /\ ~HasOutput
      BY <2>2
    <3> QED
      BY <1>0, <2>1, <2>2, <3>1, <3>2, <3>3
  <2>3. CASE pc = "data" /\ ConstructorThrows({in.ptr} \ {0}, "idle")
    BY <1>0, <2>1, <2>3 DEF ConstructorThrows
  <2> QED
    BY <1>4, <2>2, <2>3 DEF InputData
<1>5. ASSUME NEW p \in Addresses, OutputHeader(p) PROVE HostInv'
  <2>1. /\ p \notin Bases(blocks) /\ Bases(blocks' \ blocks) = {p} \ {0}
        /\ Bases(HostBlocks') = Bases(HostBlocks) \cup ({p} \ {0})
        /\ \A b \in blocks' : b.base # 0
    BY <1>5, AllocateBlocks DEF OutputHeader, Malloc
  <2>2. CASE pc = "output" /\ out' = p /\ pc' = "invoke" /\ UNCHANGED <<in, lost, kind>>
    BY <1>0, <2>1, <2>2
  <2>3. CASE pc = "output" /\ ConstructorThrows({}, "closeInput")
    BY <1>0, <2>1, <2>3 DEF ConstructorThrows
  <2> QED
    BY <1>5, <2>2, <2>3 DEF OutputHeader
<1>6. ASSUME NEW q \in Requests, NEW p \in Addresses, GuestReplies(q, p) PROVE HostInv'
  <2>1. Size[Reply[q]] \in Nat
    BY MessageTypes
  <2>2. Bases(HostBlocks') = Bases(HostBlocks) /\ \A b \in blocks' : b.base # 0
    BY <1>6, <2>1, AllocateBlocks DEF GuestReplies
  <2> QED
    BY <1>6, <2>2 DEF GuestReplies
<1>7. ASSUME NEW q \in Requests, GuestEchoes(q) \/ GuestReturns(q) PROVE HostInv'
  BY <1>7 DEF GuestEchoes, GuestReturns, alloc, HostBlocks
<1>8. ASSUME GuestTraps PROVE HostInv'
  BY <1>8 DEF GuestTraps, alloc, HostBlocks
<1>9. ASSUME ReadThrows \/ \E y \in Replies : ReadResult(y) PROVE HostInv'
  BY <1>9 DEF ReadThrows, ReadResult, alloc, HostBlocks
<1>10. ASSUME CloseOutput PROVE HostInv'
  <2>1. blocks' \subseteq blocks /\ Bases(HostBlocks') = Bases(HostBlocks) \ ({out} \ {0})
    BY <1>10, FreeBlocks DEF CloseOutput
  <2> QED
    BY <1>10, <1>0, <2>1 DEF CloseOutput
<1>11. ASSUME CloseInput PROVE HostInv'
  <2>1. /\ blocks' \subseteq blocks
        /\ Bases(HostBlocks') = Bases(HostBlocks) \ ({in.data, in.ptr} \ {0})
    BY <1>11, FreeBlocks DEF CloseInput
  <2> QED
    BY <1>11, <1>0, <2>1 DEF CloseInput
<1>12. ASSUME MallocThrows PROVE HostInv'
  <2>1. UNCHANGED <<blocks, HostBlocks, Bases(HostBlocks)>> /\ Bases(blocks' \ blocks) = {}
    BY <1>12 DEF MallocThrows, alloc, HostBlocks, Bases
  <2>2. lost' = lost \cup (IF pc = "data" THEN {in.ptr} \ {0} ELSE {})
    BY <1>12, <2>1 DEF MallocThrows, ConstructorThrows
  <2> QED
    BY <1>12, <1>0, <2>1, <2>2 DEF MallocThrows, ConstructorThrows
<1>13. ASSUME FreeOutputThrows \/ FreeDataThrows PROVE HostInv'
  <2>1. UNCHANGED <<blocks, HostBlocks, Bases(HostBlocks)>>
    BY <1>13 DEF FreeOutputThrows, FreeDataThrows, HostBlocks, Bases
  <2> QED
    BY <1>13, <1>0, <2>1 DEF FreeOutputThrows, FreeDataThrows, FreeThrows
<1>14. ASSUME FreeInputThrows PROVE HostInv'
  <2>1. /\ blocks' \subseteq blocks
        /\ Bases(HostBlocks') = Bases(HostBlocks) \ ({in.data} \ {0})
    BY <1>14, FreeBlocks DEF FreeInputThrows
  <2> QED
    BY <1>14, <1>0, <2>1 DEF FreeInputThrows, FreeThrows
<1> QED
  BY <1>1, <1>2, <1>3, <1>4, <1>5, <1>6, <1>7, <1>8, <1>9, <1>10, <1>11, <1>12, <1>13, <1>14
  DEF Next, Host, Guest, Finished, vars, alloc

(* Whichever way a call goes, a block the host allocated belongs to an open *)
(* wrapper or was lost with a constructor or a close that threw.            *)
THEOREM HostBlocksCorrect == Spec => []HostBlocksAccounted
<1>1. CASE HasMalloc
  <2>1. Init => HostInv
    BY DEF Init, HostInv, HostBlocksAccounted, HeldApart, Held, HasInputHeader,
           HasInput, HasOutput, Bases, HostBlocks
  <2>2. TypeOK /\ InBounds /\ HostInv /\ [Next]_vars => HostInv'
    BY <1>1, HostStep
  <2>3. HostInv => HostBlocksAccounted
    BY DEF HostInv
  <2> QED
    BY <2>1, <2>2, <2>3, RunnerTypeCorrect, PTL DEF Spec
<1>2. CASE ~HasMalloc
  <2>1. HostBlocksAccounted
    BY <1>2 DEF HostBlocksAccounted
  <2> QED
    BY <2>1, PTL
<1> QED
  BY <1>1, <1>2

-----------------------------------------------------------------------------
(***************************************************************************)
(* Residue.  While a wrapper is open its message lies where it put it and  *)
(* nowhere else; a guest that echoes copies the words of a header.         *)
(***************************************************************************)
Secret == Requests \ Replies

ResidueInv ==
    /\ \A a \in Addresses :
          memory[a][1] \in Secret => HasInput /\ a \in Cover(in.data, Size[msg])
    /\ pc \in {"output", "invoke"} =>
          memory[in.ptr][1] \notin Secret /\ memory[in.ptr + 1][1] \notin Secret

(* Writing cells that give nothing away leaves no secret where it wrote. *)
LEMMA PutClean ==
    ASSUME NEW m \in [Addresses -> Cell], NEW p \in Addresses, NEW n \in Nat,
           NEW s \in [1..n -> Cell], \A i \in 1..n : s[i][1] \notin Secret
    PROVE  \A a \in Addresses :
              Put(m, p, s)[a][1] \in Secret => m[a][1] \in Secret /\ a \notin Cover(p, n)
BY DEF Put, Cover, Addresses

(* Writing anything else changes only the cells it covers. *)
LEMMA PutOutside ==
    ASSUME NEW m \in [Addresses -> Cell], NEW p \in Addresses, NEW n \in Nat,
           NEW s \in [1..n -> Cell]
    PROVE  \A a \in Addresses : a \notin Cover(p, n) => Put(m, p, s)[a] = m[a]
BY DEF Put, Cover, Addresses

LEMMA WordIsNoSecret == \A n \in Nat : Word(n)[1] \notin Secret
BY RunnerAssumption DEF Word, Secret, Messages

LEMMA ZerosAreNoSecret ==
    ASSUME NEW n \in Nat, NEW i \in 1..n
    PROVE  Zeros(n)[i][1] \notin Secret
BY WordIsNoSecret DEF Zeros

(* A header fills the two cells it is put to. *)
LEMMA PutHeader ==
    ASSUME NEW m \in [Addresses -> Cell], NEW p \in Addresses, p + 1 \in Addresses,
           NEW s \in [1..2 -> Cell]
    PROVE  Put(m, p, s)[p] = s[1] /\ Put(m, p, s)[p + 1] = s[2]
BY DEF Put, Addresses

(* Wiping leaves no secret where it wrote, and brings none elsewhere. *)
LEMMA WipeClean ==
    ASSUME NEW m \in [Addresses -> Cell], NEW p \in Addresses, NEW n \in Nat
    PROVE  /\ Put(m, p, Zeros(n)) \in [Addresses -> Cell]
           /\ \A a \in Addresses :
                 Put(m, p, Zeros(n))[a][1] \in Secret => m[a][1] \in Secret /\ a \notin Cover(p, n)
<1>1. Zeros(n) \in [1..n -> Cell]
  BY ZerosAreCells
<1>2. \A i \in 1..n : Zeros(n)[i][1] \notin Secret
  BY ZerosAreNoSecret
<1> QED
  BY <1>1, <1>2, PutType, PutClean

LEMMA ResidueStep ==
    ASSUME TypeOK, InBounds, ResidueInv, [Next]_vars
    PROVE  ResidueInv'
<1> USE DEF ResidueInv, HasInput, HasInputHeader, args
<1>1. memory \in [Addresses -> Cell] /\ in.ptr \in Addresses /\ in.data \in Addresses
  BY DEF TypeOK, MemoryType, CallType
<1>2. Size[msg] \in Nat /\ msg \in Messages /\ Zeros(HeaderSize) \in [1..2 -> Cell]
  BY MessageTypes, ZerosAreCells DEF TypeOK, CallType
<1>3. ASSUME NEW q \in Requests, NEW k \in Kinds, Call(q, k) PROVE ResidueInv'
  BY <1>3 DEF Call
<1>4. ASSUME NEW p \in Addresses, InputHeader(p) PROVE ResidueInv'
  BY <1>4 DEF InputHeader, ConstructorThrows
<1>5. ASSUME NEW d \in Addresses, InputData(d) PROVE ResidueInv'
  <2>1. CASE d + Size[msg] > cap
    <3>1. d \in Nat /\ cap \in Nat
      BY Numbers DEF TypeOK, MemoryType, Addresses
    <3>2. ConstructorThrows({in.ptr} \ {0}, "idle") /\ pc = "data"
      BY <1>5, <1>2, <2>1, <3>1 DEF InputData
    <3> QED
      BY <3>2 DEF ConstructorThrows
  <2>2. CASE d + Size[msg] <= cap
    <3> DEFINE filled == Put(memory, d, Encoding(msg))
               header == <<Word(d), Word(Size[msg])>>
    <3>1. /\ pc = "data" /\ memory' = Put(filled, in.ptr, header)
          /\ in'.data = d /\ in'.ptr = in.ptr /\ msg' = msg
          /\ pc' \in {"output", "invoke"}
      BY <1>5, <1>2, <2>2 DEF InputData, TypeOK, CallType, MemoryType, Addresses
    <3>2. filled \in [Addresses -> Cell]
      BY <1>1, <1>2, PutType, EncodingIsCells
    <3>3. d \in Nat /\ header \in [1..2 -> Cell]
      BY <1>2, WordIsCell, PairIsCells DEF Addresses
    <3>4. \A i \in 1..2 : header[i][1] \notin Secret
      BY <1>2, <3>3, WordIsNoSecret
    <3>5. in.ptr + 1 \in Addresses
      BY <3>1, Numbers DEF InBounds, TypeOK, MemoryType, CallType, Addresses
    <3>6. memory'[in.ptr] = Word(d) /\ memory'[in.ptr + 1] = Word(Size[msg])
      <4>1. header[1] = Word(d) /\ header[2] = Word(Size[msg])
        OBVIOUS
      <4> HIDE DEF filled, header
      <4> QED
        BY <1>1, <3>1, <3>2, <3>3, <3>5, <4>1, PutHeader
    <3>7. ASSUME NEW a \in Addresses, memory'[a][1] \in Secret
          PROVE  a \in Cover(d, Size[msg])
      <4>1. filled[a][1] \in Secret
        <5> HIDE DEF filled, header
        <5> QED
          BY <1>1, <3>1, <3>2, <3>3, <3>4, <3>7, PutClean
      <4>2. memory[a][1] \notin Secret
        BY <3>1
      <4>3. Encoding(msg) \in [1..Size[msg] -> Cell]
        BY <1>2, EncodingIsCells
      <4> QED
        BY <1>1, <1>2, <4>1, <4>2, <4>3, PutOutside
    <3>8. memory'[in.ptr][1] \notin Secret /\ memory'[in.ptr + 1][1] \notin Secret
      BY <1>2, <3>3, <3>6, WordIsNoSecret
    <3> HIDE DEF filled, header
    <3> QED
      BY <3>1, <3>7, <3>8
  <2> QED
    BY <1>2, <2>1, <2>2 DEF TypeOK, MemoryType, Addresses
<1>6. ASSUME NEW p \in Addresses, OutputHeader(p) PROVE ResidueInv'
  BY <1>6 DEF OutputHeader, ConstructorThrows
<1>7. ASSUME NEW q \in Requests, NEW p \in Addresses, GuestReplies(q, p) PROVE ResidueInv'
  <2> DEFINE r == Reply[q]
             filled == Put(memory, p, Encoding(r))
             header == <<Word(p), Word(Size[r])>>
  <2>1. r \in Replies /\ r \in Messages /\ Size[r] \in Nat /\ p \in Nat
    BY MessageTypes DEF Addresses
  <2>2. Encoding(r) \in [1..Size[r] -> Cell] /\ header \in [1..2 -> Cell]
    BY <2>1, EncodingIsCells, WordIsCell, PairIsCells
  <2>3. \A i \in 1..Size[r] : Encoding(r)[i][1] \notin Secret
    BY <2>1 DEF Encoding, Secret
  <2>4. \A i \in 1..2 : header[i][1] \notin Secret
    BY <2>1, WordIsNoSecret
  <2>5. filled \in [Addresses -> Cell] /\ out \in Addresses
    BY <1>1, <2>1, <2>2, PutType DEF TypeOK, CallType
  <2>6. /\ memory' = Put(filled, out, header) /\ pc = "invoke" /\ pc' = "read"
        /\ UNCHANGED <<in, msg>>
    BY <1>7 DEF GuestReplies
  <2> HIDE DEF r, header
  <2>7. \A a \in Addresses : filled[a][1] \in Secret => memory[a][1] \in Secret
    BY <1>1, <2>1, <2>2, <2>3, PutClean
  <2> HIDE DEF filled
  <2>8. \A a \in Addresses : memory'[a][1] \in Secret => memory[a][1] \in Secret
    BY <2>2, <2>4, <2>5, <2>6, <2>7, PutClean
  <2> QED
    BY <2>6, <2>8
<1>8. ASSUME NEW q \in Requests, GuestEchoes(q) PROVE ResidueInv'
  <2> DEFINE header == Cells(in.ptr, HeaderSize)
  <2>1. /\ memory' = Put(memory, out, header) /\ pc = "invoke" /\ pc' = "read"
        /\ UNCHANGED <<in, msg>> /\ out \in Addresses
    BY <1>8 DEF GuestEchoes, TypeOK, CallType
  <2>2. in.ptr + 1 \in Addresses
    BY <2>1, Numbers DEF InBounds, TypeOK, MemoryType, CallType, Addresses
  <2>3. header = [i \in 1..2 |-> memory[in.ptr + i - 1]]
    BY DEF Cells
  <2>4. header[1] = memory[in.ptr] /\ header[2] = memory[in.ptr + 1]
    BY <1>1, <2>3 DEF Addresses
  <2>5. header \in [1..2 -> Cell]
    BY <1>1, <2>2, <2>3, <2>4
  <2>6. \A i \in 1..2 : header[i][1] \notin Secret
    BY <2>1, <2>4
  <2> HIDE DEF header
  <2>7. \A a \in Addresses : memory'[a][1] \in Secret => memory[a][1] \in Secret
    BY <1>1, <2>1, <2>5, <2>6, PutClean
  <2> QED
    BY <2>1, <2>7
<1>9. ASSUME NEW q \in Requests, GuestReturns(q) PROVE ResidueInv'
  BY <1>9 DEF GuestReturns
<1>10. ASSUME GuestTraps PROVE ResidueInv'
  BY <1>10 DEF GuestTraps
<1>11. ASSUME ReadThrows \/ \E y \in Replies : ReadResult(y) PROVE ResidueInv'
  BY <1>11 DEF ReadThrows, ReadResult
<1>12. ASSUME CloseOutput PROVE ResidueInv'
  <2>1. /\ memory' = Put(memory, out, Zeros(HeaderSize)) /\ out \in Addresses
        /\ pc = "closeOutput" /\ pc' = "closeInput" /\ UNCHANGED <<in, msg>>
    BY <1>12 DEF CloseOutput, TypeOK, CallType
  <2>2. \A a \in Addresses : memory'[a][1] \in Secret => memory[a][1] \in Secret
    BY <1>1, <2>1, WipeClean
  <2> QED
    BY <2>1, <2>2
<1>13. ASSUME CloseInput PROVE ResidueInv'
  <2> DEFINE wiped == Put(memory, in.data, Zeros(Size[msg]))
  <2>1. memory' = Put(wiped, in.ptr, Zeros(HeaderSize)) /\ pc' = "idle"
    BY <1>13 DEF CloseInput
  <2>3. wiped \in [Addresses -> Cell]
    BY <1>1, <1>2, WipeClean
  <2>4. \A a \in Addresses :
           wiped[a][1] \in Secret =>
              memory[a][1] \in Secret /\ a \notin Cover(in.data, Size[msg])
    BY <1>1, <1>2, WipeClean
  <2>5. \A a \in Addresses : wiped[a][1] \notin Secret
    BY <2>4
  <2> HIDE DEF wiped
  <2>6. \A a \in Addresses : memory'[a][1] \notin Secret
    BY <1>1, <2>1, <2>3, <2>5, WipeClean
  <2> QED
    BY <2>1, <2>6
<1>14. ASSUME UNCHANGED vars PROVE ResidueInv'
  BY <1>14 DEF vars
<1>15. ASSUME MallocThrows PROVE ResidueInv'
  BY <1>15 DEF MallocThrows, ConstructorThrows
<1>16. ASSUME FreeOutputThrows PROVE ResidueInv'
  <2>1. /\ memory' = Put(memory, out, Zeros(HeaderSize)) /\ out \in Addresses
        /\ pc = "closeOutput" /\ pc' = "closeInput" /\ UNCHANGED <<in, msg>>
    BY <1>16 DEF FreeOutputThrows, FreeThrows, TypeOK, CallType
  <2>2. \A a \in Addresses : memory'[a][1] \in Secret => memory[a][1] \in Secret
    BY <1>1, <2>1, WipeClean
  <2> QED
    BY <2>1, <2>2
<1>17. ASSUME FreeDataThrows \/ FreeInputThrows PROVE ResidueInv'
  <2> DEFINE wiped == Put(memory, in.data, Zeros(Size[msg]))
  <2>1. /\ pc = "closeInput" /\ pc' = "idle"
        /\ memory' = wiped \/ memory' = Put(wiped, in.ptr, Zeros(HeaderSize))
    BY <1>17 DEF FreeDataThrows, FreeInputThrows, FreeThrows
  <2>2. wiped \in [Addresses -> Cell]
    BY <1>1, <1>2, WipeClean
  <2>3. \A a \in Addresses : wiped[a][1] \notin Secret
    BY <1>1, <1>2, WipeClean
  <2> HIDE DEF wiped
  <2>4. \A a \in Addresses : memory'[a][1] \notin Secret
    BY <1>1, <2>1, <2>2, <2>3, WipeClean
  <2> QED
    BY <2>1, <2>4
<1> QED
  BY <1>3, <1>4, <1>5, <1>6, <1>7, <1>8, <1>9, <1>10, <1>11, <1>12, <1>13, <1>14,
     <1>15, <1>16, <1>17
  DEF Next, Host, Guest, Finished

(* Between calls nothing of a request is left in the memory, unless the     *)
(* guest's reply repeats it: even when malloc failed or is missing, or      *)
(* malloc or free throws.                                                   *)
THEOREM NoResidueCorrect == Spec => []NoResidue
<1>1. Init => ResidueInv
  BY WordIsNoSecret DEF Init, ResidueInv
<1>2. ResidueInv => NoResidue
  BY DEF ResidueInv, NoResidue, HasInput, HasInputHeader, Secret
<1> QED
  BY <1>1, <1>2, ResidueStep, RunnerTypeCorrect, PTL DEF Spec

-----------------------------------------------------------------------------
(***************************************************************************)
(* Where the open wrappers lie, as long as malloc finds room: each pointer *)
(* is that of a block of its own, as large as what is written to it.       *)
(***************************************************************************)
HostBlock(p, n) == [base |-> p, size |-> Need(n), owner |-> "host"]

OwnInv ==
    ~exhausted =>
        /\ HasInputHeader => HostBlock(in.ptr, HeaderSize) \in blocks
        /\ HasInput => HostBlock(in.data, Size[msg]) \in blocks
        /\ HasOutput =>
              /\ HostBlock(out, HeaderSize) \in blocks
              /\ Cover(out, HeaderSize) \cap Cover(in.data, Size[msg]) = {}

(* A malloc that finds room: a new block, apart from all others. *)
LEMMA AllocateRoom ==
    ASSUME TypeOK, NEW p \in Addresses, NEW n \in Nat,
           NEW who \in {"host", "guest"}, Allocate(p, n, who), ~exhausted'
    PROVE  /\ ~exhausted /\ blocks \subseteq blocks'
           /\ [base |-> p, size |-> Need(n), owner |-> who] \in blocks'
           /\ p + Need(n) <= MaxMemory
           /\ \A b \in blocks : Cover(b.base, b.size) \cap Cover(p, n) = {}
<1>1. /\ p \in Room(n)
      /\ blocks' = blocks \cup {[base |-> p, size |-> Need(n), owner |-> who]}
      /\ UNCHANGED exhausted
  BY DEF Allocate
<1>2. Need(n) \in Nat /\ n <= Need(n) /\ p \in Nat
  BY DEF Need, Addresses
<1>3. /\ \A b \in blocks : Cover(b.base, b.size) \cap Cover(p, Need(n)) = {}
      /\ p + Need(n) <= MaxMemory
  BY <1>1, <1>2, Numbers DEF Room, Fits, TypeOK, MemoryType
<1>4. Cover(p, n) \subseteq Cover(p, Need(n))
  BY <1>2 DEF Cover
<1> QED
  BY <1>1, <1>3, <1>4

LEMMA OwnStep ==
    ASSUME TypeOK, InBounds, HostInv, OwnInv, [Next]_vars, HasMalloc
    PROVE  OwnInv'
<1> USE DEF OwnInv, HasInputHeader, HasInput, HasOutput, args
<1>0. Size[msg] \in Nat
  BY MessageTypes DEF TypeOK, CallType
<1>1. ASSUME UNCHANGED <<blocks, pc, kind, msg, in, out, exhausted>> PROVE OwnInv'
  BY <1>1
<1>2. ASSUME NEW q \in Requests, NEW k \in Kinds, Call(q, k) PROVE OwnInv'
  BY <1>2 DEF Call
<1>3. ASSUME NEW p \in Addresses, InputHeader(p) PROVE OwnInv'
  <2> SUFFICES ASSUME ~exhausted' PROVE OwnInv'
    OBVIOUS
  <2>1. HostBlock(p, HeaderSize) \in blocks'
    BY <1>3, AllocateRoom DEF InputHeader, Malloc, HostBlock
  <2>2. \/ pc' = "data" /\ in' = [in EXCEPT !.ptr = p]
        \/ pc' = "idle"
    BY <1>3 DEF InputHeader, ConstructorThrows
  <2>3. pc' = "data" => in'.ptr = p
    BY <2>2 DEF TypeOK, CallType
  <2> QED
    BY <2>1, <2>2, <2>3
<1>4. ASSUME NEW d \in Addresses, InputData(d) PROVE OwnInv'
  <2> SUFFICES ASSUME ~exhausted' PROVE OwnInv'
    OBVIOUS
  <2>1. HostBlock(d, Size[msg]) \in blocks' /\ blocks \subseteq blocks' /\ ~exhausted
    BY <1>0, <1>4, AllocateRoom DEF InputData, Malloc, HostBlock
  <2>2. \/ /\ pc = "data" /\ in' = [in EXCEPT !.data = d] /\ UNCHANGED <<msg, kind>>
           /\ pc' = IF kind = "message" THEN "output" ELSE "invoke"
        \/ pc' = "idle"
    BY <1>4 DEF InputData, ConstructorThrows
  <2>3. pc' # "idle" => in'.data = d /\ in'.ptr = in.ptr
    BY <2>2 DEF TypeOK, CallType
  <2>4. pc' # "idle" => HostBlock(in.ptr, HeaderSize) \in blocks'
    BY <2>1, <2>2
  <2> QED
    BY <2>1, <2>2, <2>3, <2>4
<1>5. ASSUME NEW p \in Addresses, OutputHeader(p) PROVE OwnInv'
  <2> SUFFICES ASSUME ~exhausted' PROVE OwnInv'
    OBVIOUS
  <2>1. /\ HostBlock(p, HeaderSize) \in blocks' /\ blocks \subseteq blocks' /\ ~exhausted
        /\ \A b \in blocks : Cover(b.base, b.size) \cap Cover(p, HeaderSize) = {}
    BY <1>5, AllocateRoom DEF OutputHeader, Malloc, HostBlock
  <2>2. /\ pc = "output" /\ UNCHANGED <<in, msg, kind>>
        /\ pc' = "closeInput" \/ (pc' = "invoke" /\ out' = p)
    BY <1>5 DEF OutputHeader, ConstructorThrows
  <2>3. Cover(in.data, Size[msg]) \subseteq Cover(in.data, Need(Size[msg]))
    BY <1>0 DEF Cover, Need, TypeOK, CallType, Addresses
  <2>4. Cover(in.data, Need(Size[msg])) \cap Cover(p, HeaderSize) = {}
    BY <2>1, <2>2 DEF HostBlock
  <2> QED
    BY <2>1, <2>2, <2>3, <2>4
<1>6. ASSUME NEW q \in Requests, NEW p \in Addresses, GuestReplies(q, p) PROVE OwnInv'
  <2> SUFFICES ASSUME ~exhausted' PROVE OwnInv'
    OBVIOUS
  <2>1. Size[Reply[q]] \in Nat
    BY MessageTypes
  <2>2. blocks \subseteq blocks' /\ ~exhausted
    BY <1>6, <2>1, AllocateRoom DEF GuestReplies
  <2> QED
    BY <1>6, <2>2 DEF GuestReplies
<1>7. ASSUME NEW q \in Requests, GuestEchoes(q) \/ GuestReturns(q) PROVE OwnInv'
  BY <1>7 DEF GuestEchoes, GuestReturns, alloc
<1>8. ASSUME GuestTraps PROVE OwnInv'
  BY <1>8 DEF GuestTraps, alloc
<1>9. ASSUME ReadThrows \/ \E y \in Replies : ReadResult(y) PROVE OwnInv'
  BY <1>9 DEF ReadThrows, ReadResult, alloc
<1>10. ASSUME CloseOutput PROVE OwnInv'
  <2> SUFFICES ASSUME ~exhausted' PROVE OwnInv'
    OBVIOUS
  <2>1. /\ pc = "closeOutput" /\ pc' = "closeInput" /\ UNCHANGED <<in, out, msg, exhausted>>
        /\ blocks' = {b \in blocks : b.base \notin {out} \ {0}}
    BY <1>10 DEF CloseOutput, Free
  <2>2. \A b \in blocks : b.base \in {in.ptr, in.data} => b.base \notin {out} \ {0}
    BY <2>1 DEF HostInv, HeldApart
  <2>3. /\ HostBlock(in.ptr, HeaderSize) \in blocks
        /\ HostBlock(in.data, Size[msg]) \in blocks
    BY <2>1
  <2>4. /\ HostBlock(in.ptr, HeaderSize).base = in.ptr
        /\ HostBlock(in.data, Size[msg]).base = in.data
    BY DEF HostBlock
  <2> QED
    BY <2>1, <2>2, <2>3, <2>4
<1>11. ASSUME CloseInput PROVE OwnInv'
  BY <1>11 DEF CloseInput
<1>12. ASSUME MallocThrows PROVE OwnInv'
  BY <1>12 DEF MallocThrows, ConstructorThrows, alloc
<1>13. ASSUME FreeOutputThrows \/ FreeDataThrows \/ FreeInputThrows PROVE OwnInv'
  BY <1>13 DEF FreeOutputThrows, FreeDataThrows, FreeInputThrows, FreeThrows
<1> QED
  BY <1>1, <1>2, <1>3, <1>4, <1>5, <1>6, <1>7, <1>8, <1>9, <1>10, <1>11, <1>12, <1>13
  DEF Next, Host, Guest, Finished, vars, alloc

(* A cell that a put changes is one of those it covers. *)
LEMMA PutChanges ==
    ASSUME NEW m, NEW p \in Addresses, NEW n \in Nat, NEW s, DOMAIN s = 1..n,
           NEW a \in Addresses, Put(m, p, s)[a] # m[a]
    PROVE  a \in Cover(p, n)
BY DEF Put, Cover, Addresses

(* What the host writes lies in blocks it allocated. *)
LEMMA WritesStep ==
    ASSUME TypeOK, OwnInv, Host, HasMalloc, ~exhausted',
           NEW a \in Addresses, memory'[a] # memory[a]
    PROVE  \E b \in HostBlocks \cup HostBlocks' : a \in Cover(b.base, b.size)
<1> USE DEF OwnInv, HasInputHeader, HasInput, HasOutput
<1>1. /\ in.ptr \in Addresses /\ in.data \in Addresses /\ out \in Addresses
      /\ Size[msg] \in Nat
      /\ DOMAIN Zeros(HeaderSize) = 1..2 /\ DOMAIN Zeros(Size[msg]) = 1..Size[msg]
      /\ DOMAIN Encoding(msg) = 1..Size[msg]
  BY MessageTypes DEF TypeOK, CallType, Zeros, Encoding
<1>2. ASSUME NEW p \in Addresses, NEW n \in Nat, a \in Cover(p, n),
             HostBlock(p, n) \in blocks \cup blocks'
      PROVE  \E b \in HostBlocks \cup HostBlocks' : a \in Cover(b.base, b.size)
  <2>1. HostBlock(p, n) \in HostBlocks \cup HostBlocks'
    BY <1>2 DEF HostBlock, HostBlocks
  <2>2. a \in Cover(HostBlock(p, n).base, HostBlock(p, n).size)
    BY <1>2 DEF HostBlock, Cover, Need, Addresses
  <2> QED
    BY <2>1, <2>2
<1>3. ASSUME NEW d \in Addresses, InputData(d)
      PROVE  \E b \in HostBlocks \cup HostBlocks' : a \in Cover(b.base, b.size)
  <2> DEFINE filled == Put(memory, d, Encoding(msg))
             header == <<Word(d), Word(Size[msg])>>
  <2>1. memory' = Put(filled, in.ptr, header) /\ pc = "data"
    BY <1>3 DEF InputData, ConstructorThrows
  <2>2. HostBlock(d, Size[msg]) \in blocks' /\ ~exhausted
    BY <1>1, <1>3, AllocateRoom DEF InputData, Malloc, HostBlock
  <2>3. HostBlock(in.ptr, HeaderSize) \in blocks
    BY <2>1, <2>2
  <2>4. filled[a] # memory[a] => a \in Cover(d, Size[msg])
    BY <1>1, PutChanges
  <2>5. DOMAIN header = 1..2
    OBVIOUS
  <2> HIDE DEF filled, header
  <2>6. memory'[a] # filled[a] => a \in Cover(in.ptr, 2)
    BY <1>1, <2>1, <2>5, PutChanges
  <2>7. a \in Cover(in.ptr, HeaderSize) \/ a \in Cover(d, Size[msg])
    BY <2>4, <2>6
  <2> QED
    BY <1>1, <1>2, <2>2, <2>3, <2>7
<1>4. ASSUME CloseOutput \/ FreeOutputThrows
      PROVE  \E b \in HostBlocks \cup HostBlocks' : a \in Cover(b.base, b.size)
  <2>1. memory' = Put(memory, out, Zeros(HeaderSize)) /\ HostBlock(out, HeaderSize) \in blocks
    BY <1>4 DEF CloseOutput, FreeOutputThrows, FreeThrows
  <2>2. a \in Cover(out, HeaderSize)
    BY <1>1, <2>1, PutChanges
  <2> QED
    BY <1>1, <1>2, <2>1, <2>2
<1>5. ASSUME CloseInput \/ FreeDataThrows \/ FreeInputThrows
      PROVE  \E b \in HostBlocks \cup HostBlocks' : a \in Cover(b.base, b.size)
  <2> DEFINE wiped == Put(memory, in.data, Zeros(Size[msg]))
  <2>1. /\ memory' = wiped \/ memory' = Put(wiped, in.ptr, Zeros(HeaderSize))
        /\ HostBlock(in.ptr, HeaderSize) \in blocks /\ HostBlock(in.data, Size[msg]) \in blocks
    BY <1>5 DEF CloseInput, FreeDataThrows, FreeInputThrows, FreeThrows
  <2>2. wiped[a] # memory[a] => a \in Cover(in.data, Size[msg])
    BY <1>1, PutChanges
  <2> HIDE DEF wiped
  <2>3. memory'[a] # wiped[a] => a \in Cover(in.ptr, HeaderSize)
    BY <1>1, <2>1, PutChanges
  <2> QED
    BY <1>1, <1>2, <2>1, <2>2, <2>3
<1>6. ASSUME UNCHANGED memory PROVE FALSE
  BY <1>6
<1> QED
  BY <1>3, <1>4, <1>5, <1>6
  DEF Host, Call, InputHeader, OutputHeader, ConstructorThrows, ReadResult, ReadThrows,
      MallocThrows

LEMMA OwnCorrect == Spec /\ HasMalloc => [](HostInv /\ OwnInv)
<1>1. Init => HostInv /\ OwnInv
  BY DEF Init, HostInv, HostBlocksAccounted, HeldApart, Held, HasInputHeader,
         HasInput, HasOutput, Bases, HostBlocks, OwnInv
<1>2. TypeOK /\ InBounds /\ HasMalloc /\ HostInv /\ OwnInv /\ [Next]_vars
      => HostInv' /\ OwnInv'
  BY HostStep, OwnStep
<1>3. HasMalloc => HasMalloc'
  OBVIOUS
<1> QED
  BY <1>1, <1>2, <1>3, RunnerTypeCorrect, PTL DEF Spec

(* A step of the host changes no cell outside the blocks it allocated. *)
THEOREM HostWritesCorrect == Spec => HostWritesItsOwn
<1> DEFINE Owned == \A a \in Addresses :
          memory'[a] # memory[a] =>
              exhausted' \/ \E b \in HostBlocks \cup HostBlocks' :
                                 a \in Cover(b.base, b.size)
<1>1. TypeOK /\ OwnInv /\ HasMalloc /\ Host => Owned
  BY WritesStep
<1> HIDE DEF Owned
<1>2. CASE HasMalloc
  BY <1>1, <1>2, OwnCorrect, RunnerTypeCorrect, PTL DEF HostWritesItsOwn, Spec, Owned
<1>3. CASE ~HasMalloc
  BY <1>3, PTL DEF HostWritesItsOwn, Owned
<1> QED
  BY <1>2, <1>3

-----------------------------------------------------------------------------
(* What a call returns, and when it throws. *)
(* The header at p and the data it names, from d on, are message x's. *)
Says(p, x, d) ==
    /\ memory[p] = Word(d) /\ memory[p + 1] = Word(Size[x])
    /\ Cells(d, Size[x]) = Encoding(x)
    /\ d + Size[x] <= memSize

(* Without malloc the wrappers lie at the start of the memory. *)
FallbackInv ==
    ~HasMalloc => in.ptr = 0 /\ out = 0 /\ (HasInput => in.data = HeaderSize)

(***************************************************************************)
(* ResultFaithful is not inductive: the guest must find the request of     *)
(* this call and nothing else, and the host the guest's reply to it.       *)
(***************************************************************************)
ResultInv ==
    /\ pc = "read" => kind = "message"
    /\ pc \in {"header", "data", "output", "invoke", "read"} => answer = None
    /\ ~exhausted =>
        /\ pc \in {"output", "invoke"} => order = "LE" /\ Says(in.ptr, msg, in.data)
        /\ pc = "read" => order = "LE" /\ \E d \in Addresses : Says(out, Reply[msg], d)
        /\ answer \notin {None, Threw} => answer = Answer(kind, msg)

-----------------------------------------------------------------------------
(* Encodings and words tell their messages and numbers apart. *)
LEMMA EncodingTells ==
    ASSUME NEW x \in Messages, NEW y \in Messages, Encoding(x) = Encoding(y)
    PROVE  x = y
<1>1. Size[x] \in Nat /\ Size[y] \in Nat
  BY MessageTypes
<1>2. Size[x] = Size[y]
  <2>1. DOMAIN Encoding(x) = 1..Size[x] /\ DOMAIN Encoding(y) = 1..Size[y]
    BY DEF Encoding
  <2>2. 1..Size[x] = 1..Size[y]
    BY <2>1
  <2> QED
    BY <1>1, <2>2
<1>3. CASE Size[x] = 0
  BY <1>2, <1>3, RunnerAssumption
<1>4. CASE Size[x] # 0
  <2>1. Encoding(x)[1] = <<x, 1>> /\ Encoding(y)[1] = <<y, 1>>
    BY <1>1, <1>2, <1>4 DEF Encoding
  <2> QED
    BY <2>1
<1> QED
  BY <1>3, <1>4

LEMMA WordTells ==
    ASSUME NEW m, NEW n, Word(m) = Word(n)
    PROVE  m = n
BY DEF Word

LEMMA PutInside ==
    ASSUME NEW m, NEW p, NEW s, NEW a \in Addresses, a - p + 1 \in DOMAIN s
    PROVE  Put(m, p, s)[a] = s[a - p + 1]
BY DEF Put

(* A header and data that do not overlap can both be read afterwards. *)
LEMMA PutMessage ==
    ASSUME NEW m \in [Addresses -> Cell], NEW p \in Addresses, p + 1 \in Addresses,
           NEW d \in Addresses, NEW x \in Messages, d + Size[x] <= MaxMemory,
           Cover(p, HeaderSize) \cap Cover(d, Size[x]) = {}
    PROVE  LET made == Put(Put(m, d, Encoding(x)), p, <<Word(d), Word(Size[x])>>)
           IN /\ made[p] = Word(d) /\ made[p + 1] = Word(Size[x])
              /\ [i \in 1..Size[x] |-> made[d + i - 1]] = Encoding(x)
<1> DEFINE header == <<Word(d), Word(Size[x])>>
           filled == Put(m, d, Encoding(x))
           made == Put(filled, p, header)
<1>1. Size[x] \in Nat /\ d \in Nat /\ p \in Nat
  BY MessageTypes DEF Addresses
<1>2. Encoding(x) \in [1..Size[x] -> Cell] /\ header \in [1..2 -> Cell]
  BY <1>1, EncodingIsCells, WordIsCell, PairIsCells
<1>3. filled \in [Addresses -> Cell]
  BY <1>1, <1>2, PutType
<1>4. header[1] = Word(d) /\ header[2] = Word(Size[x])
  OBVIOUS
<1>5. ASSUME NEW i \in 1..Size[x] PROVE d + i - 1 \in Addresses /\ d + i - 1 \notin Cover(p, 2)
  <2>1. d + i - 1 \in Cover(d, Size[x])
    BY <1>1 DEF Cover
  <2>2. d + i - 1 \in Addresses
    BY <1>1, Numbers DEF Addresses
  <2> QED
    BY <2>1, <2>2
<1>6. ASSUME NEW i \in 1..Size[x] PROVE filled[d + i - 1] = Encoding(x)[i]
  <2>1. (d + i - 1) - d + 1 = i /\ i \in DOMAIN Encoding(x)
    BY <1>1, <1>2
  <2>2. \A a \in Addresses : a - d + 1 \in DOMAIN Encoding(x) => filled[a] = Encoding(x)[a - d + 1]
    BY PutInside
  <2> HIDE DEF filled
  <2> QED
    BY <1>5, <2>1, <2>2
<1> HIDE DEF filled, header
<1>7. made[p] = Word(d) /\ made[p + 1] = Word(Size[x])
  BY <1>2, <1>3, <1>4, PutHeader
<1>8. ASSUME NEW i \in 1..Size[x] PROVE made[d + i - 1] = Encoding(x)[i]
  <2>1. \A a \in Addresses : a \notin Cover(p, 2) => made[a] = filled[a]
    <3>1. DOMAIN header = 1..2
      BY <1>2
    <3> QED
      BY <1>1, <3>1 DEF Put, Cover, Addresses
  <2> QED
    BY <1>5, <1>6, <2>1
<1> HIDE DEF made
<1>9. [i \in 1..Size[x] |-> made[d + i - 1]] = Encoding(x)
  BY <1>2, <1>8
<1> QED
  BY <1>7, <1>9 DEF made, filled, header

(* The guest hears the request it was given. *)
LEMMA HearsIt ==
    ASSUME TypeOK, Says(in.ptr, msg, in.data), NEW q \in Heard
    PROVE  q = msg
<1>1. msg \in Requests /\ in.data \in Addresses
  BY DEF TypeOK, CallType
<1>2. Points(in.ptr, msg)
  BY <1>1 DEF Says, Points
<1>3. q \in Requests /\ Points(in.ptr, q)
  BY <1>1, <1>2 DEF Heard
<1>4. Size[q] = Size[msg]
  BY <1>3, WordTells DEF Points, Says
<1>5. PICK d \in Addresses : memory[in.ptr] = Word(d) /\ Cells(d, Size[q]) = Encoding(q)
  BY <1>3 DEF Points
<1>6. d = in.data
  BY <1>5, WordTells DEF Says
<1>7. Encoding(q) = Encoding(msg)
  BY <1>4, <1>5, <1>6 DEF Says
<1> QED
  BY <1>1, <1>3, <1>7, EncodingTells, MessageTypes

(* After a put of header and data the header says the message. *)
LEMMA PutSays ==
    ASSUME TypeOK, TypeOK', NEW p \in Addresses, p + 1 \in Addresses, NEW d \in Addresses,
           NEW x \in Messages, d + Size[x] <= memSize',
           Cover(p, HeaderSize) \cap Cover(d, Size[x]) = {},
           memory' = Put(Put(memory, d, Encoding(x)), p, <<Word(d), Word(Size[x])>>)
    PROVE  /\ memory'[p] = Word(d) /\ memory'[p + 1] = Word(Size[x])
           /\ Cells(d, Size[x])' = Encoding(x)
           /\ d + Size[x] <= memSize'
<1>1. d + Size[x] <= MaxMemory
  <2>1. Size[x] \in Nat /\ d \in Nat
    BY MessageTypes DEF Addresses
  <2> QED
    BY <2>1, Numbers DEF TypeOK, MemoryType
<1>2. memory \in [Addresses -> Cell]
  BY DEF TypeOK, MemoryType
<1>3. Cells(d, Size[x])' = [i \in 1..Size[x] |-> memory'[d + i - 1]]
  BY DEF Cells
<1> QED
  BY <1>1, <1>2, <1>3, PutMessage

(* A malloc that finds room leaves the others what they have. *)
LEMMA MallocRoom ==
    ASSUME TypeOK, TypeOK', NEW p \in Addresses, NEW n \in Nat, NEW at,
           Malloc(p, n, at), ~exhausted'
    PROVE  /\ ~exhausted /\ memSize <= memSize'
           /\ HasMalloc => \A b \in blocks : Cover(b.base, b.size) \cap Cover(p, n) = {}
           /\ ~HasMalloc => p = at
<1>1. CASE HasMalloc
  <2>1. Allocate(p, n, "host")
    BY <1>1 DEF Malloc
  <2>2. memSize' \in memSize..MaxMemory /\ memSize \in Nat
    BY <2>1, AllocateType, Numbers DEF TypeOK, MemoryType
  <2>3. /\ ~exhausted
        /\ \A b \in blocks : Cover(b.base, b.size) \cap Cover(p, n) = {}
    BY <2>1, AllocateRoom
  <2>4. memSize <= memSize'
    BY <2>2, Numbers
  <2> QED
    BY <1>1, <2>3, <2>4
<1>2. CASE ~HasMalloc
  BY <1>2 DEF Malloc, alloc, TypeOK, MemoryType
<1> QED
  BY <1>1, <1>2

(* The data the host writes lies beside the header it writes. *)
LEMMA InputSays ==
    ASSUME TypeOK, TypeOK', InBounds, InBounds', HasMalloc => OwnInv, NEW d \in Addresses,
           InputData(d), pc' # "idle", ~exhausted'
    PROVE  /\ order' = "LE" /\ Says(in.ptr, msg, in.data)'
           /\ pc' \in {"output", "invoke"} /\ UNCHANGED answer /\ pc = "data"
<1>1. msg \in Messages /\ Size[msg] \in Nat /\ in.ptr \in Addresses
  BY MessageTypes DEF TypeOK, CallType
<1>2. /\ memory' = Put(Put(memory, d, Encoding(msg)), in.ptr, <<Word(d), Word(Size[msg])>>)
      /\ in' = [in EXCEPT !.data = d] /\ order' = "LE" /\ UNCHANGED <<answer, msg>>
      /\ pc = "data" /\ pc' \in {"output", "invoke"}
  BY DEF InputData, ConstructorThrows, args
<1>3. in'.ptr = in.ptr /\ in'.data = d
  BY <1>2 DEF TypeOK, CallType
<1>4. in.ptr + 1 \in Addresses /\ d + Size[msg] <= memSize'
  <2>1. in.ptr + 2 <= cap /\ cap \in Nat /\ cap <= memSize /\ memSize \in 1..MaxMemory
    BY <1>2, Numbers DEF InBounds, HasInputHeader, TypeOK, MemoryType
  <2>2. d + Size[msg] <= cap' /\ cap' \in Nat /\ cap' <= memSize' /\ memSize' \in Nat
    BY <1>2, <1>3, Numbers DEF InBounds, HasInput, HasInputHeader, TypeOK, MemoryType
  <2> QED
    BY <1>1, <2>1, <2>2, Numbers DEF Addresses
<1>5. Cover(in.ptr, HeaderSize) \cap Cover(d, Size[msg]) = {}
  <2>1. /\ HasMalloc => \A b \in blocks : Cover(b.base, b.size) \cap Cover(d, Size[msg]) = {}
        /\ ~exhausted
        /\ ~HasMalloc => d = in.ptr + HeaderSize
    BY <1>1, MallocRoom DEF InputData
  <2>2. CASE HasMalloc
    <3>1. HostBlock(in.ptr, HeaderSize) \in blocks
      BY <1>2, <2>1, <2>2 DEF OwnInv, HasInputHeader
    <3>2. HostBlock(in.ptr, HeaderSize).base = in.ptr /\ HostBlock(in.ptr, HeaderSize).size = 2
      BY DEF HostBlock, Need
    <3> QED
      BY <2>1, <2>2, <3>1, <3>2
  <2>3. CASE ~HasMalloc
    <3>1. d = in.ptr + HeaderSize
      BY <2>1, <2>3
    <3> QED
      BY <1>1, <3>1 DEF Cover, Addresses
  <2> QED
    BY <2>2, <2>3
<1> QED
  BY <1>1, <1>2, <1>3, <1>4, <1>5, PutSays DEF Says

LEMMA FallbackStep ==
    ASSUME TypeOK, FallbackInv, [Next]_vars, ~HasMalloc
    PROVE  FallbackInv'
<1> USE DEF FallbackInv, HasInput, HasInputHeader, Malloc, TypeOK, CallType
<1>1. ASSUME NEW q \in Requests, NEW k \in Kinds, Call(q, k) PROVE FallbackInv'
  BY <1>1 DEF Call
<1>2. ASSUME NEW p \in Addresses, InputHeader(p) PROVE FallbackInv'
  BY <1>2 DEF InputHeader, ConstructorThrows
<1>3. ASSUME NEW d \in Addresses, InputData(d) PROVE FallbackInv'
  BY <1>3 DEF InputData, ConstructorThrows
<1>4. ASSUME NEW p \in Addresses, OutputHeader(p) PROVE FallbackInv'
  BY <1>4 DEF OutputHeader, ConstructorThrows
<1>5. ASSUME Guest PROVE FallbackInv'
  BY <1>5 DEF Guest, GuestReplies, GuestEchoes, GuestReturns, GuestTraps
<1>6. ASSUME (\E y \in Replies : ReadResult(y)) \/ ReadThrows \/ CloseOutput \/ CloseInput
      PROVE  FallbackInv'
  BY <1>6 DEF ReadResult, ReadThrows, CloseOutput, CloseInput
<1>7. ASSUME UNCHANGED vars PROVE FallbackInv'
  BY <1>7 DEF vars
<1>8. ASSUME MallocThrows \/ FreeOutputThrows \/ FreeDataThrows \/ FreeInputThrows
      PROVE  FallbackInv'
  BY <1>8 DEF MallocThrows, ConstructorThrows, FreeOutputThrows, FreeDataThrows,
              FreeInputThrows, FreeThrows
<1> QED
  BY <1>1, <1>2, <1>3, <1>4, <1>5, <1>6, <1>7, <1>8 DEF Next, Host, Finished

-----------------------------------------------------------------------------
(* The guest's reply, in a buffer of its own, is what the output's header says. *)
LEMMA ReplySays ==
    ASSUME TypeOK, TypeOK', InBounds, HasMalloc => OwnInv, FallbackInv,
           HasMalloc \/ HeapBase >= HeaderSize,
           NEW q \in Requests, NEW p \in Addresses, GuestReplies(q, p), ~exhausted'
    PROVE  ~exhausted /\ Says(out, Reply[q], p)'
<1>1. Reply[q] \in Messages /\ Size[Reply[q]] \in Nat /\ out \in Addresses /\ p \in Nat
  BY MessageTypes DEF TypeOK, CallType, Addresses
<1>2. /\ memory' = Put(Put(memory, p, Encoding(Reply[q])), out, <<Word(p), Word(Size[Reply[q]])>>)
      /\ pc = "invoke" /\ kind = "message" /\ out' = out
      /\ Allocate(p, Size[Reply[q]], "guest") /\ p + Size[Reply[q]] <= memSize'
  BY DEF GuestReplies
<1>3. /\ ~exhausted
      /\ \A b \in blocks : Cover(b.base, b.size) \cap Cover(p, Size[Reply[q]]) = {}
  BY <1>1, <1>2, AllocateRoom
<1>4. out + 1 \in Addresses
  <2>1. /\ memSize \in Nat /\ MaxMemory \in Nat /\ cap \in Nat
        /\ memSize <= MaxMemory /\ cap <= memSize
    BY Numbers DEF TypeOK, MemoryType
  <2>2. out + 2 <= cap
    BY <1>2 DEF InBounds, HasOutput
  <2> QED
    BY <1>1, <2>1, <2>2 DEF Addresses
<1>5. Cover(out, HeaderSize) \cap Cover(p, Size[Reply[q]]) = {}
  <2>1. CASE HasMalloc
    <3>1. HostBlock(out, HeaderSize) \in blocks
      BY <1>2, <1>3, <2>1 DEF OwnInv, HasOutput
    <3>2. HostBlock(out, HeaderSize).base = out /\ HostBlock(out, HeaderSize).size = 2
      BY DEF HostBlock, Need
    <3> QED
      BY <1>3, <3>1, <3>2
  <2>2. CASE ~HasMalloc
    <3>1. out = 0 /\ HeapBase >= 2
      BY <2>2 DEF FallbackInv
    <3>2. p >= HeapBase
      BY <1>2, <1>3, Numbers DEF Allocate, Room, Fits
    <3> QED
      BY <1>1, <3>1, <3>2, Numbers DEF Cover
  <2> QED
    BY <2>1, <2>2
<1> QED
  BY <1>1, <1>2, <1>3, <1>4, <1>5, PutSays DEF Says

(* Or the output's header is a copy of the input's, which leaves its data alone. *)
LEMMA EchoSays ==
    ASSUME TypeOK, TypeOK', InBounds, HasMalloc => OwnInv, FallbackInv, ~exhausted,
           GuestEchoes(msg), Says(in.ptr, msg, in.data)
    PROVE  Says(out, msg, in.data)'
<1>1. /\ memory' = Put(memory, out, Cells(in.ptr, HeaderSize))
      /\ UNCHANGED <<memSize, msg, in, out>> /\ pc = "invoke" /\ kind = "message"
  BY DEF GuestEchoes, alloc, args
<1>2. /\ memory \in [Addresses -> Cell] /\ in.ptr \in Addresses /\ in.data \in Addresses
      /\ out \in Addresses /\ msg \in Messages /\ Size[msg] \in Nat
  BY MessageTypes DEF TypeOK, MemoryType, CallType
<1>3. out + 1 \in Addresses /\ in.ptr + 1 \in Addresses
  BY <1>1, <1>2, Numbers
  DEF InBounds, HasOutput, HasInputHeader, TypeOK, MemoryType, Addresses
<1> DEFINE header == Cells(in.ptr, HeaderSize)
<1>4. header = [i \in 1..2 |-> memory[in.ptr + i - 1]]
  BY DEF Cells
<1>5. header[1] = Word(in.data) /\ header[2] = Word(Size[msg])
  BY <1>2, <1>4 DEF Says, Addresses
<1>6. header \in [1..2 -> Cell]
  BY <1>2, <1>3, <1>4, <1>5, WordIsCell DEF Addresses
<1> HIDE DEF header
<1>7. memory'[out] = Word(in.data) /\ memory'[out + 1] = Word(Size[msg])
  BY <1>1, <1>2, <1>3, <1>5, <1>6, PutHeader DEF header
<1>8. Cover(out, HeaderSize) \cap Cover(in.data, Size[msg]) = {}
  <2>1. CASE HasMalloc
    BY <1>1, <2>1 DEF OwnInv, HasOutput
  <2>2. CASE ~HasMalloc
    <3>1. out = 0 /\ in.data = 2
      BY <1>1, <2>2 DEF FallbackInv, HasInput, HasInputHeader
    <3> QED
      BY <1>2, <3>1 DEF Cover
  <2> QED
    BY <2>1, <2>2
<1>9. ASSUME NEW i \in 1..Size[msg] PROVE memory'[in.data + i - 1] = memory[in.data + i - 1]
  <2>1. in.data + i - 1 \in Addresses /\ in.data + i - 1 \in Cover(in.data, Size[msg])
    <3>1. /\ memSize \in Nat /\ MaxMemory \in Nat /\ memSize <= MaxMemory
      BY Numbers DEF TypeOK, MemoryType
    <3>2. in.data + Size[msg] <= memSize
      BY DEF Says
    <3>3. in.data + i - 1 \in Nat /\ in.data + i - 1 < in.data + Size[msg]
      BY <1>2 DEF Addresses
    <3> QED
      BY <1>2, <3>1, <3>2, <3>3 DEF Addresses, Cover
  <2>2. in.data + i - 1 \notin Cover(out, HeaderSize)
    BY <1>8, <2>1
  <2>3. memory' = Put(memory, out, header) /\ DOMAIN header = 1..2
    BY <1>1, <1>6 DEF header
  <2> QED
    <3>1. /\ memory \in [Addresses -> Cell] /\ out \in Addresses /\ 2 \in Nat
          /\ header \in [1..2 -> Cell]
      BY <1>2, <1>6
    <3>2. \A a \in Addresses : a \notin Cover(out, 2) => Put(memory, out, header)[a] = memory[a]
      BY <3>1, PutOutside, Zenon
    <3> QED
      BY <2>1, <2>2, <2>3, <3>2
<1>10. Cells(in.data, Size[msg])' = Cells(in.data, Size[msg])
  BY <1>1, <1>9 DEF Cells
<1> QED
  BY <1>1, <1>7, <1>10 DEF Says

-----------------------------------------------------------------------------
LEMMA ResultStep ==
    ASSUME TypeOK, TypeOK', InBounds, InBounds', HasMalloc => OwnInv, FallbackInv,
           HasMalloc \/ HeapBase >= HeaderSize, ResultInv, [Next]_vars
    PROVE  ResultInv'
<1> USE DEF ResultInv
<1>0. Threw # None
  BY DEF Threw, None
<1>1. ASSUME NEW q \in Requests, NEW k \in Kinds, Call(q, k) PROVE ResultInv'
  BY <1>1 DEF Call
<1>2. ASSUME NEW p \in Addresses, InputHeader(p) PROVE ResultInv'
  BY <1>2 DEF InputHeader, ConstructorThrows
<1>3. ASSUME NEW d \in Addresses, InputData(d) PROVE ResultInv'
  <2>1. CASE pc' = "idle"
    <3>1. answer' = Threw
      BY <1>3, <2>1 DEF InputData, ConstructorThrows
    <3> QED
      BY <2>1, <3>1
  <2>2. CASE pc' # "idle"
    <3>1. pc' \in {"output", "invoke"} /\ answer' = answer /\ pc = "data"
      BY <1>3, <2>2 DEF InputData, ConstructorThrows
    <3>2. ~exhausted' => order' = "LE" /\ Says(in.ptr, msg, in.data)'
      BY <1>3, <2>2, InputSays
    <3> QED
      BY <3>1, <3>2
  <2> QED
    BY <2>1, <2>2
<1>4. ASSUME NEW p \in Addresses, OutputHeader(p) PROVE ResultInv'
  <2>1. CASE pc' = "closeInput"
    <3>1. answer' = Threw
      BY <1>4, <2>1 DEF OutputHeader, ConstructorThrows
    <3> QED
      BY <2>1, <3>1
  <2>2. CASE pc' # "closeInput"
    <3>1. /\ pc = "output" /\ pc' = "invoke"
          /\ UNCHANGED <<memory, order, in, msg, answer>>
      BY <1>4, <2>2 DEF OutputHeader, ConstructorThrows, args
    <3>2. ASSUME ~exhausted' PROVE order' = "LE" /\ Says(in.ptr, msg, in.data)'
      <4>1. ~exhausted /\ memSize <= memSize'
        BY <1>4, <3>2, MallocRoom DEF OutputHeader
      <4>2. /\ in.data + Size[msg] \in Int /\ memSize \in Int /\ memSize' \in Int
            /\ Says(in.ptr, msg, in.data) /\ order = "LE"
        BY <3>1, <4>1, MessageTypes, Numbers DEF TypeOK, MemoryType, CallType, Addresses
      <4> QED
        BY <3>1, <4>1, <4>2 DEF Says, Cells
    <3> QED
      BY <3>1, <3>2
  <2> QED
    BY <2>1, <2>2
<1>5. ASSUME NEW q \in Requests, NEW p \in Addresses, GuestReplies(q, p) PROVE ResultInv'
  <2>1. /\ pc = "invoke" /\ kind = "message" /\ pc' = "read" /\ q \in Heard
        /\ UNCHANGED <<kind, msg, order, out, answer>>
    BY <1>5 DEF GuestReplies, args
  <2>2. ASSUME ~exhausted' PROVE order' = "LE" /\ Says(out, Reply[msg], p)'
    <3>1. ~exhausted /\ Says(out, Reply[q], p)'
      BY <1>5, <2>2, ReplySays
    <3>2. order = "LE" /\ q = msg
      BY <2>1, <3>1, HearsIt
    <3> QED
      BY <2>1, <3>1, <3>2
  <2> QED
    BY <2>1, <2>2
<1>6. ASSUME NEW q \in Requests, GuestEchoes(q) PROVE ResultInv'
  <2>1. /\ pc = "invoke" /\ kind = "message" /\ pc' = "read" /\ q \in Heard /\ Reply[q] = q
        /\ UNCHANGED <<kind, msg, order, out, in, answer, exhausted>>
    BY <1>6 DEF GuestEchoes, args
  <2>2. ASSUME ~exhausted PROVE order' = "LE" /\ Says(out, Reply[msg], in.data)'
    <3>1. order = "LE" /\ Says(in.ptr, msg, in.data) /\ q = msg
      BY <2>1, <2>2, HearsIt
    <3>2. Says(out, msg, in.data)'
      BY <1>6, <2>2, <3>1, EchoSays
    <3> QED
      BY <2>1, <3>1, <3>2
  <2>3. in.data \in Addresses /\ in' = in
    BY <2>1 DEF TypeOK, CallType
  <2> QED
    BY <2>1, <2>2, <2>3
<1>7. ASSUME NEW q \in Requests, GuestReturns(q) PROVE ResultInv'
  <2>1. /\ pc = "invoke" /\ pc' = "closeInput" /\ q \in Heard /\ answer' = Answer(kind, q)
        /\ UNCHANGED <<kind, msg, exhausted>>
    BY <1>7 DEF GuestReturns, args
  <2>2. ~exhausted => q = msg
    BY <2>1, HearsIt
  <2> QED
    BY <2>1, <2>2
<1>8. ASSUME GuestTraps PROVE ResultInv'
  BY <1>8 DEF GuestTraps
<1>9. ASSUME NEW y \in Replies, ReadResult(y) PROVE ResultInv'
  <2>1. /\ pc = "read" /\ pc' = "closeOutput" /\ answer' = <<"message", y>>
        /\ UNCHANGED <<kind, msg, exhausted>>
    BY <1>9 DEF ReadResult, args
  <2>2. ASSUME ~exhausted PROVE y = Reply[msg]
    <3>1. PICK d \in Addresses : Says(out, Reply[msg], d)
      BY <2>1, <2>2
    <3>2. PICK e \in Addresses, l \in 0..MaxMemory :
             /\ Readable(e, l)
             /\ Cells(e, l) = Encoding(y) \/ \A z \in Messages : Cells(e, l) # Encoding(z)
      BY <1>9 DEF ReadResult
    <3>3. e = d /\ l = Size[Reply[msg]]
      BY <3>1, <3>2, WordTells DEF Says, Readable
    <3>4. Reply[msg] \in Messages /\ y \in Messages
      BY MessageTypes DEF TypeOK, CallType, Messages
    <3>5. Encoding(y) = Encoding(Reply[msg])
      BY <3>1, <3>2, <3>3, <3>4 DEF Says
    <3> QED
      BY <3>4, <3>5, EncodingTells
  <2>3. kind = "message"
    BY <2>1
  <2> QED
    BY <2>1, <2>2, <2>3 DEF Answer
<1>10. ASSUME ReadThrows PROVE ResultInv'
  BY <1>10 DEF ReadThrows
<1>11. ASSUME CloseOutput PROVE ResultInv'
  BY <1>11 DEF CloseOutput, args
<1>12. ASSUME CloseInput PROVE ResultInv'
  BY <1>12 DEF CloseInput, args
<1>13. ASSUME UNCHANGED vars PROVE ResultInv'
  <2>1. /\ UNCHANGED <<memory, memSize, pc, msg, kind, order, in, out, answer, exhausted>>
    BY <1>13 DEF vars, alloc, args
  <2> QED
    BY <2>1 DEF Says, Cells
<1>14. ASSUME MallocThrows \/ FreeOutputThrows \/ FreeDataThrows \/ FreeInputThrows
       PROVE  ResultInv'
  <2>1. answer' = Threw /\ pc' \in {"closeInput", "idle"}
    BY <1>14 DEF MallocThrows, ConstructorThrows, FreeOutputThrows, FreeDataThrows,
                 FreeInputThrows, FreeThrows
  <2> QED
    BY <2>1
<1> QED
  BY <1>1, <1>2, <1>3, <1>4, <1>5, <1>6, <1>7, <1>8, <1>9, <1>10, <1>11, <1>12, <1>13, <1>14
  DEF Next, Host, Guest, Finished

LEMMA ResultAlways ==
    HasMalloc \/ HeapBase >= HeaderSize => (Spec => []ResultInv)
<1> SUFFICES ASSUME HasMalloc \/ HeapBase >= HeaderSize PROVE Spec => []ResultInv
  OBVIOUS
<1>1. Init => FallbackInv /\ ResultInv
  BY DEF Init, FallbackInv, ResultInv, HasInput, HasInputHeader
<1>2. CASE HasMalloc
  <2>1. /\ TypeOK /\ InBounds /\ TypeOK' /\ InBounds' /\ OwnInv
        /\ FallbackInv /\ ResultInv /\ [Next]_vars
        => FallbackInv' /\ ResultInv'
    <3>1. FallbackInv'
      BY <1>2 DEF FallbackInv
    <3> QED
      BY <1>2, <3>1, ResultStep
  <2> QED
    BY <1>1, <1>2, <2>1, OwnCorrect, RunnerTypeCorrect, PTL DEF Spec
<1>3. CASE ~HasMalloc
  <2>1. /\ TypeOK /\ InBounds /\ TypeOK' /\ InBounds'
        /\ FallbackInv /\ ResultInv /\ [Next]_vars
        => FallbackInv' /\ ResultInv'
    BY <1>3, FallbackStep, ResultStep
  <2> QED
    BY <1>1, <2>1, RunnerTypeCorrect, PTL DEF Spec
<1> QED
  BY <1>2, <1>3

(* A call returns the guest's answer to this very request, whatever earlier   *)
(* calls left in the memory, unless a malloc returned 0: for any messages and *)
(* any allocator, and without malloc if the guest's own heap leaves the host  *)
(* its header.                                                                *)
THEOREM ResultCorrect ==
    HasMalloc \/ HeapBase >= HeaderSize => (Spec => []ResultFaithful)
<1>1. ResultInv => ResultFaithful
  BY DEF ResultInv, ResultFaithful
<1> QED
  BY <1>1, ResultAlways, PTL

-----------------------------------------------------------------------------
(* The memory grows and never shrinks: what is allocated lies in it, and    *)
(* beyond the limit of the buffer only if it grew.                          *)
ThrowsInv == cap <= memSize /\ ThrowsHaveCause

LEMMA RoomMade ==
    ASSUME TypeOK, NEW p \in Addresses, NEW n \in Nat,
           NEW who \in {"host", "guest"}, Allocate(p, n, who)
    PROVE  memSize <= memSize' /\ (~exhausted' => p + n <= memSize')
<1>1. memSize \in Nat /\ p \in Nat
  BY Numbers DEF Addresses, TypeOK, MemoryType
<1>2. CASE p = 0 /\ exhausted' = TRUE /\ UNCHANGED alloc
  BY <1>1, <1>2 DEF alloc
<1>3. CASE memSize' = IF p + Need(n) > memSize THEN p + Need(n) ELSE memSize
  <2>1. Need(n) \in Nat /\ n <= Need(n)
    BY DEF Need
  <2> QED
    BY <1>1, <1>3, <2>1
<1> QED
  BY <1>2, <1>3 DEF Allocate

LEMMA AnswerIsNoThrow ==
    ASSUME NEW k \in Kinds, NEW q \in Requests
    PROVE  Answer(k, q) # Threw
BY DEF Answer, Threw

LEMMA ThrowsStep ==
    ASSUME TypeOK, TypeOK', HasMalloc, ResultInv, ThrowsInv, [Next]_vars
    PROVE  ThrowsInv'
<1> USE DEF ThrowsInv, ThrowsHaveCause, args
<1>0. /\ Threw # None /\ cap \in Nat /\ memSize \in Nat /\ memSize' \in Nat
      /\ msg \in Requests /\ Size[msg] \in Nat /\ exhausted \in BOOLEAN
  BY MessageTypes, Numbers DEF Threw, None, TypeOK, MemoryType, CallType
<1>1. ASSUME NEW q \in Requests, NEW k \in Kinds, Call(q, k) PROVE ThrowsInv'
  BY <1>0, <1>1 DEF Call, alloc
<1>2. ASSUME NEW p \in Addresses, InputHeader(p) PROVE ThrowsInv'
  <2>1. memSize <= memSize' /\ (~exhausted' => p + HeaderSize <= memSize')
    BY <1>2, RoomMade DEF InputHeader, Malloc
  <2>2. answer = None /\ p \in Nat
    BY <1>2 DEF InputHeader, ResultInv, Addresses
  <2> QED
    BY <1>0, <1>2, <2>1, <2>2 DEF InputHeader
<1>3. ASSUME NEW d \in Addresses, InputData(d) PROVE ThrowsInv'
  <2>1. memSize <= memSize' /\ (~exhausted' => d + Size[msg] <= memSize')
    BY <1>0, <1>3, RoomMade DEF InputData, Malloc
  <2>2. answer = None /\ d \in Nat
    BY <1>3 DEF InputData, ResultInv, Addresses
  <2> QED
    BY <1>0, <1>3, <2>1, <2>2 DEF InputData
<1>4. ASSUME NEW p \in Addresses, OutputHeader(p) PROVE ThrowsInv'
  <2>1. memSize <= memSize' /\ (~exhausted' => p + HeaderSize <= memSize')
    BY <1>4, RoomMade DEF OutputHeader, Malloc
  <2>2. answer = None /\ p \in Nat
    BY <1>4 DEF OutputHeader, ResultInv, Addresses
  <2> QED
    BY <1>0, <1>4, <2>1, <2>2 DEF OutputHeader
<1>5. ASSUME NEW q \in Requests, NEW p \in Addresses, GuestReplies(q, p) PROVE ThrowsInv'
  <2>1. Size[Reply[q]] \in Nat
    BY MessageTypes
  <2>2. memSize <= memSize' /\ answer = None
    BY <1>5, <2>1, RoomMade DEF GuestReplies, ResultInv
  <2> QED
    BY <1>0, <1>5, <2>2 DEF GuestReplies
<1>6. ASSUME NEW q \in Requests, GuestEchoes(q) PROVE ThrowsInv'
  BY <1>6 DEF GuestEchoes, alloc
<1>7. ASSUME NEW q \in Requests, GuestReturns(q) PROVE ThrowsInv'
  <2>1. answer' # Threw
    BY <1>7, AnswerIsNoThrow DEF GuestReturns, TypeOK, CallType
  <2> QED
    BY <1>7, <2>1 DEF GuestReturns, alloc
<1>8. ASSUME GuestTraps PROVE ThrowsInv'
  BY <1>8 DEF GuestTraps, alloc
<1>9. ASSUME NEW y \in Replies, ReadResult(y) PROVE ThrowsInv'
  <2>1. answer' # Threw
    BY <1>9 DEF ReadResult, Threw
  <2> QED
    BY <1>9, <2>1 DEF ReadResult, alloc
<1>10. ASSUME ReadThrows PROVE ThrowsInv'
  <2>1. ASSUME ~exhausted, cap = memSize PROVE FALSE
    <3>1. PICK d \in Addresses : Says(out, Reply[msg], d) /\ order = "LE"
      BY <1>10, <2>1 DEF ReadThrows, ResultInv
    <3>2. Reply[msg] \in Replies /\ Size[Reply[msg]] \in Nat
      BY <1>0, MessageTypes
    <3>3. Size[Reply[msg]] \in 0..MaxMemory
      BY <3>1, <3>2, Numbers DEF Says, TypeOK, MemoryType, Addresses
    <3>4. Readable(d, Size[Reply[msg]])
      BY <2>1, <3>1 DEF Says, Readable
    <3> QED
      BY <1>10, <3>1, <3>2, <3>3, <3>4 DEF ReadThrows, Says
  <2> QED
    BY <1>0, <1>10, <2>1 DEF ReadThrows, alloc
<1>11. ASSUME CloseOutput \/ CloseInput PROVE ThrowsInv'
  BY <1>11 DEF CloseOutput, CloseInput, Free
<1>12. ASSUME UNCHANGED vars PROVE ThrowsInv'
  BY <1>12 DEF vars, alloc
<1>13. ASSUME MallocThrows PROVE ThrowsInv'
  BY <1>13 DEF MallocThrows, alloc
<1>14. ASSUME FreeOutputThrows \/ FreeDataThrows \/ FreeInputThrows PROVE ThrowsInv'
  BY <1>14 DEF FreeOutputThrows, FreeDataThrows, FreeInputThrows, FreeThrows
<1> QED
  BY <1>1, <1>2, <1>3, <1>4, <1>5, <1>6, <1>7, <1>8, <1>9, <1>10, <1>11, <1>12, <1>13, <1>14
  DEF Next, Host, Guest, Finished

(* With an allocator in the guest, a call throws only if the guest trapped (in *)
(* malloc or free, too), a malloc returned 0, or the memory grew beyond the    *)
(* limit of the buffer.                                                        *)
THEOREM CauseCorrect == Spec => []ThrowsHaveCause
<1>1. CASE HasMalloc
  <2>1. Init => ThrowsInv
    BY Numbers DEF Init, ThrowsInv, ThrowsHaveCause, Threw, None
  <2>2. TypeOK /\ TypeOK' /\ ResultInv /\ ThrowsInv /\ [Next]_vars => ThrowsInv'
    BY <1>1, ThrowsStep
  <2>3. ThrowsInv => ThrowsHaveCause
    BY DEF ThrowsInv
  <2>4. Spec => []ResultInv
    BY <1>1, ResultAlways
  <2> QED
    BY <2>1, <2>2, <2>3, <2>4, RunnerTypeCorrect, PTL DEF Spec
<1>2. CASE ~HasMalloc
  <2>1. ThrowsHaveCause
    BY <1>2 DEF ThrowsHaveCause
  <2> QED
    BY <2>1, PTL
<1> QED
  BY <1>1, <1>2

(* When the memory cannot grow, its buffer stays as long as the memory is. *)
FixedInv == cap = memSize

LEMMA FixedStep ==
    ASSUME TypeOK, ~CanGrow, FixedInv, [Next]_vars
    PROVE  FixedInv'
<1> USE DEF FixedInv, args, alloc
<1>1. ASSUME NEW p \in Addresses, NEW n \in Nat, NEW who, Allocate(p, n, who)
      PROVE  memSize' = memSize
  <2>1. CASE /\ p \in Room(n)
             /\ memSize' = IF p + Need(n) > memSize THEN p + Need(n) ELSE memSize
    <3>1. p + Need(n) <= memSize
      BY <2>1 DEF Room, Fits
    <3>2. Need(n) \in Nat /\ p \in Nat /\ memSize \in Nat
      BY Numbers DEF Need, Addresses, TypeOK, MemoryType
    <3> QED
      BY <2>1, <3>1, <3>2
  <2> QED
    BY <1>1, <2>1 DEF Allocate
<1>2. ASSUME NEW p \in Addresses, NEW n \in Nat, NEW at, Malloc(p, n, at) PROVE memSize' = memSize
  BY <1>1, <1>2 DEF Malloc
<1>3. Size[msg] \in Nat /\ \A q \in Requests : Size[Reply[q]] \in Nat
  BY MessageTypes DEF TypeOK, CallType
<1>4. ASSUME NEW p \in Addresses, InputHeader(p) \/ OutputHeader(p) PROVE FixedInv'
  BY <1>2, <1>4 DEF InputHeader, OutputHeader
<1>5. ASSUME NEW d \in Addresses, InputData(d) PROVE FixedInv'
  BY <1>2, <1>3, <1>5 DEF InputData
<1>6. ASSUME NEW q \in Requests, NEW p \in Addresses, GuestReplies(q, p) PROVE FixedInv'
  BY <1>1, <1>3, <1>6 DEF GuestReplies
<1>7. ASSUME NEW q \in Requests, NEW k \in Kinds, Call(q, k) PROVE FixedInv'
  BY <1>7 DEF Call
<1>8. ASSUME NEW q \in Requests, GuestEchoes(q) \/ GuestReturns(q) PROVE FixedInv'
  BY <1>8 DEF GuestEchoes, GuestReturns
<1>9. ASSUME GuestTraps PROVE FixedInv'
  BY <1>9 DEF GuestTraps
<1>10. ASSUME NEW y \in Replies, ReadResult(y) PROVE FixedInv'
  BY <1>10 DEF ReadResult
<1>11. ASSUME ReadThrows \/ CloseOutput \/ CloseInput PROVE FixedInv'
  BY <1>11 DEF ReadThrows, CloseOutput, CloseInput, Free
<1>12. ASSUME UNCHANGED vars PROVE FixedInv'
  BY <1>12 DEF vars
<1>13. ASSUME MallocThrows PROVE FixedInv'
  BY <1>13 DEF MallocThrows
<1>14. ASSUME FreeOutputThrows \/ FreeDataThrows \/ FreeInputThrows PROVE FixedInv'
  BY <1>14 DEF FreeOutputThrows, FreeDataThrows, FreeInputThrows, FreeThrows
<1> QED
  BY <1>4, <1>5, <1>6, <1>7, <1>8, <1>9, <1>10, <1>11, <1>12, <1>13, <1>14
  DEF Next, Host, Guest, Finished

(* In a memory that cannot grow a call throws only if the guest trapped or a *)
(* malloc returned 0.                                                        *)
THEOREM ThrowsCorrect ==
    HasMalloc /\ ~CanGrow => (Spec => []ThrowsOnlyIfGuestFails)
<1> SUFFICES ASSUME HasMalloc, ~CanGrow PROVE Spec => []ThrowsOnlyIfGuestFails
  OBVIOUS
<1>1. Init => FixedInv
  BY DEF Init, FixedInv
<1>2. TypeOK /\ FixedInv /\ [Next]_vars => FixedInv'
  BY FixedStep
<1>3. TypeOK /\ FixedInv /\ ThrowsHaveCause => ThrowsOnlyIfGuestFails
  BY Numbers DEF FixedInv, ThrowsHaveCause, ThrowsOnlyIfGuestFails, TypeOK, MemoryType
<1> QED
  BY <1>1, <1>2, <1>3, CauseCorrect, RunnerTypeCorrect, PTL DEF Spec

-----------------------------------------------------------------------------
(* A call that is about to end, ends with something. *)
AnsweredInv == pc \in {"closeOutput", "closeInput"} => answer # None

LEMMA AnswersAreSome ==
    /\ Threw # None
    /\ \A y : <<"message", y>> # None
    /\ \A k \in Kinds, q \in Requests : Answer(k, q) # None /\ <<k, q>> # None
BY DEF Answer, Threw, None

LEMMA AnsweredStep ==
    ASSUME TypeOK, AnsweredInv, [Next]_vars
    PROVE  AnsweredInv'
<1> USE AnswersAreSome DEF AnsweredInv
<1>1. ASSUME NEW q \in Requests, NEW k \in Kinds, Call(q, k) PROVE AnsweredInv'
  BY <1>1 DEF Call
<1>2. ASSUME NEW p \in Addresses, InputHeader(p) \/ InputData(p) \/ OutputHeader(p)
      PROVE AnsweredInv'
  BY <1>2 DEF InputHeader, InputData, OutputHeader, ConstructorThrows
<1>3. ASSUME NEW q \in Requests, NEW p \in Addresses, GuestReplies(q, p) PROVE AnsweredInv'
  BY <1>3 DEF GuestReplies
<1>4. ASSUME NEW q \in Requests, GuestEchoes(q) PROVE AnsweredInv'
  BY <1>4 DEF GuestEchoes
<1>5. ASSUME NEW q \in Requests, GuestReturns(q) PROVE AnsweredInv'
  <2>1. answer' # None
    BY <1>5 DEF GuestReturns, TypeOK, CallType
  <2> QED
    BY <2>1
<1>6. ASSUME GuestTraps PROVE AnsweredInv'
  BY <1>6 DEF GuestTraps
<1>7. ASSUME NEW y \in Replies, ReadResult(y) PROVE AnsweredInv'
  BY <1>7 DEF ReadResult
<1>8. ASSUME ReadThrows PROVE AnsweredInv'
  BY <1>8 DEF ReadThrows
<1>9. ASSUME CloseOutput \/ CloseInput PROVE AnsweredInv'
  BY <1>9 DEF CloseOutput, CloseInput
<1>10. ASSUME UNCHANGED vars PROVE AnsweredInv'
  BY <1>10 DEF vars
<1>11. ASSUME MallocThrows \/ FreeOutputThrows \/ FreeDataThrows \/ FreeInputThrows
       PROVE  AnsweredInv'
  BY <1>11 DEF MallocThrows, ConstructorThrows, FreeOutputThrows, FreeDataThrows,
               FreeInputThrows, FreeThrows
<1> QED
  BY <1>1, <1>2, <1>3, <1>4, <1>5, <1>6, <1>7, <1>8, <1>9, <1>10, <1>11
  DEF Next, Host, Guest, Finished

(* A step within a call: what was asked stays, and what went wrong is kept. *)
Within ==
    /\ pc # "idle" /\ UNCHANGED <<msg, kind>>
    /\ (exhausted => exhausted') /\ (trapped => trapped')
    /\ cap' = cap /\ memSize <= memSize'
    /\ pc' = "idle" => answer' = Threw \/ (UNCHANGED answer /\ pc = "closeInput")

LEMMA WithinCall ==
    ASSUME TypeOK, Next
    PROVE  (\E q \in Requests, k \in Kinds : Call(q, k)) \/ Within \/ UNCHANGED vars
<1> USE DEF Within, args, alloc
<1>0. /\ memSize \in Nat /\ Size[msg] \in Nat
      /\ \A q \in Requests : Size[Reply[q]] \in Nat
  BY MessageTypes, Numbers DEF TypeOK, MemoryType, CallType
<1>1. ASSUME NEW p \in Addresses, NEW n \in Nat, NEW who \in {"host", "guest"},
             Allocate(p, n, who)
      PROVE  (exhausted => exhausted') /\ memSize <= memSize'
  <2>1. memSize <= memSize'
    BY <1>1, RoomMade
  <2>2. exhausted => exhausted'
    BY <1>1 DEF Allocate
  <2> QED
    BY <2>1, <2>2
<1>2. ASSUME NEW p \in Addresses, NEW n \in Nat, NEW at, Malloc(p, n, at)
      PROVE  (exhausted => exhausted') /\ memSize <= memSize'
  BY <1>0, <1>1, <1>2 DEF Malloc
<1>3. ASSUME NEW p \in Addresses, InputHeader(p) \/ OutputHeader(p) PROVE Within
  <2>1. (exhausted => exhausted') /\ memSize <= memSize'
    BY <1>2, <1>3 DEF InputHeader, OutputHeader
  <2> QED
    BY <1>3, <2>1 DEF InputHeader, OutputHeader, ConstructorThrows
<1>4. ASSUME NEW d \in Addresses, InputData(d) PROVE Within
  <2>1. (exhausted => exhausted') /\ memSize <= memSize'
    BY <1>0, <1>2, <1>4 DEF InputData
  <2> QED
    BY <1>4, <2>1 DEF InputData, ConstructorThrows
<1>5. ASSUME NEW q \in Requests, NEW p \in Addresses, GuestReplies(q, p) PROVE Within
  <2>1. (exhausted => exhausted') /\ memSize <= memSize'
    BY <1>0, <1>1, <1>5 DEF GuestReplies
  <2> QED
    BY <1>5, <2>1 DEF GuestReplies
<1>6. ASSUME NEW q \in Requests, GuestEchoes(q) \/ GuestReturns(q) PROVE Within
  BY <1>0, <1>6 DEF GuestEchoes, GuestReturns
<1>7. ASSUME GuestTraps PROVE Within
  BY <1>0, <1>7 DEF GuestTraps
<1>8. ASSUME NEW y \in Replies, ReadResult(y) PROVE Within
  BY <1>0, <1>8 DEF ReadResult
<1>9. ASSUME ReadThrows PROVE Within
  BY <1>0, <1>9 DEF ReadThrows
<1>10. ASSUME CloseOutput \/ CloseInput PROVE Within
  BY <1>0, <1>10 DEF CloseOutput, CloseInput, Free
<1>11. ASSUME MallocThrows PROVE Within
  BY <1>0, <1>11 DEF MallocThrows, ConstructorThrows
<1>12. ASSUME FreeOutputThrows \/ FreeDataThrows \/ FreeInputThrows PROVE Within
  BY <1>0, <1>12 DEF FreeOutputThrows, FreeDataThrows, FreeInputThrows, FreeThrows
<1> QED
  BY <1>3, <1>4, <1>5, <1>6, <1>7, <1>8, <1>9, <1>10, <1>11, <1>12
  DEF Next, Host, Guest, Finished

LEMMA CallerStep ==
    ASSUME TypeOK, TypeOK', AnsweredInv, ResultInv, ResultInv', ThrowsHaveCause', [Next]_vars
    PROVE  [Caller!Next]_(Caller!vars)
<1> USE AnswersAreSome DEF Caller!Next, Caller!vars
<1>0. /\ msg \in Requests /\ kind \in Kinds /\ msg' \in Requests /\ kind' \in Kinds
      /\ cap \in Nat /\ memSize \in Nat /\ memSize' \in Nat
  BY Numbers DEF TypeOK, MemoryType, CallType
<1>1. ASSUME NEW q \in Requests, NEW k \in Kinds, Call(q, k) PROVE Caller!Ask
  BY <1>0, <1>1 DEF Call, Caller!Ask, alloc
<1>2. CASE Within /\ pc' # "idle"
  BY <1>0, <1>2 DEF Within, Caller!Fail, Caller!Known
<1>3. CASE Within /\ pc' = "idle"
  <2>1. <<kind, msg>> # None /\ Caller!Known
    BY <1>0, <1>3 DEF Within, Caller!Known
  <2>2. CASE answer' = Threw
    <3>1. HasMalloc => exhausted' \/ trapped' \/ cap' < memSize'
      BY <2>2 DEF ThrowsHaveCause
    <3> QED
      BY <1>3, <2>1, <2>2, <3>1 DEF Within, Caller!Return
  <2>3. CASE answer' # Threw
    <3>1. answer' # None
      BY <1>3, <2>3 DEF Within, AnsweredInv
    <3>2. CASE exhausted'
      BY <1>3, <2>1, <3>1, <3>2 DEF Within, Caller!Return
    <3>3. CASE ~exhausted'
      <4>1. answer' = Answer(kind, msg)
        BY <1>3, <2>3, <3>1, <3>3 DEF Within, ResultInv
      <4>2. answer' = [c \in Kinds \X Requests |-> Answer(c[1], c[2])][<<kind, msg>>]
        BY <1>0, <4>1
      <4> QED
        BY <1>3, <2>1, <4>2 DEF Within, Caller!Return
    <3> QED
      BY <3>2, <3>3
  <2> QED
    BY <2>2, <2>3
<1>4. CASE UNCHANGED vars
  BY <1>4 DEF vars, args, alloc
<1> QED
  BY <1>1, <1>2, <1>3, <1>4, WithinCall

(* Whatever the allocator and the guest do, the caller sees each call come   *)
(* back at most once: with the answer to its own request, or an exception     *)
(* that has a cause, or anything once a malloc returned 0.                   *)
THEOREM CallCorrect ==
    HasMalloc \/ HeapBase >= HeaderSize => (Spec => CallSpec)
<1> SUFFICES ASSUME HasMalloc \/ HeapBase >= HeaderSize PROVE Spec => CallSpec
  OBVIOUS
<1>1. Spec => []ResultInv
  BY ResultAlways
<1>2. Init => AnsweredInv /\ Caller!Init
  BY Numbers DEF Init, AnsweredInv, Caller!Init
<1>3. TypeOK /\ AnsweredInv /\ [Next]_vars => AnsweredInv'
  BY AnsweredStep
<1>4. /\ TypeOK /\ TypeOK' /\ AnsweredInv /\ ResultInv /\ ResultInv'
      /\ ThrowsHaveCause' /\ [Next]_vars
      => [Caller!Next]_(Caller!vars)
  BY CallerStep
<1> QED
  BY <1>1, <1>2, <1>3, <1>4, CauseCorrect, RunnerTypeCorrect, PTL DEF Spec, CallSpec, Caller!Spec
=============================================================================
