----------------------------- MODULE WasmRunner -----------------------------
(***************************************************************************)
(* WasmRunner.call and its Wrapper class: how a host passes a protobuf     *)
(* message to a guest function, and reads the answer, through the linear   *)
(* memory of one instance.  Calls of one runner follow one another.        *)
(*                                                                         *)
(* The memory is counted in cells of one i32.  A wrapper's header          *)
(* (Wrapper.SIZE, 8 bytes) takes two: a pointer and a length.  The         *)
(* encoding of message x takes Size[x] cells, each unlike any other.       *)
(*                                                                         *)
(* External: the guest's malloc and free (exported together or not at all; *)
(* any allocator that never hands out cells in use, and returns 0 when it  *)
(* has no room), and the guest function, which takes the answer to a       *)
(* request from Reply or Score, and answers anything to a request it       *)
(* cannot make sense of.  Each of the three may trap, and the lookup of an *)
(* export throws once the store is disposed: then nothing has changed in   *)
(* the guest.  The guest exports its memory.                               *)
(***************************************************************************)
EXTENDS Integers

CONSTANTS
    Requests, Replies,  \* messages to and from the guest
    Size,               \* cells of the encoding of a message
    Reply, Score,       \* the guest's answer: a message, or an i32
    HasMalloc,          \* the guest exports malloc and free
    CanGrow,            \* the guest's memory may grow
    HeapBase,           \* first cell the allocator may hand out
    MemorySize,         \* cells of the memory at first
    MaxMemory,          \* cells the memory can grow to
    MaxCalls            \* bound on the calls of a behaviour

Messages == Requests \cup Replies

ASSUME RunnerAssumption ==
    /\ Size \in [Messages -> Nat]
    /\ \A x, y \in Messages : Size[x] = 0 /\ Size[y] = 0 => x = y
    /\ Reply \in [Requests -> Replies]
    /\ Score \in [Requests -> Nat]
    /\ "int" \notin Messages
    /\ HasMalloc \in BOOLEAN /\ CanGrow \in BOOLEAN
    /\ HeapBase \in Nat \ {0}
    /\ MemorySize \in Nat \ {0} /\ MaxMemory \in Nat /\ MaxCalls \in Nat
    /\ MemorySize <= MaxMemory

VARIABLES
    memory,     \* the cells of the linear memory
    memSize,    \* how many of them there are by now
    blocks,     \* what the guest's allocator has handed out, and to whom
    pc,         \* where the host is in call
    msg, kind,  \* arguments of call: the message and the return type
    cap,        \* limit of the ByteBuffer, taken once at the start of call
    order,      \* byte order of that buffer
    in, out,    \* the input wrapper (ptr, data) and the output wrapper's ptr
    answer,     \* how the last call ended
    lost,       \* history: blocks of wrappers whose constructor or close threw
    exhausted,  \* history: in this call, a malloc returned 0
    trapped,    \* history: in this call, a use of the guest's exports threw
    calls

alloc == <<memSize, blocks>>
args == <<msg, kind, cap, calls>>
vars == <<memory, alloc, pc, args, order, in, out, answer, lost, exhausted, trapped>>

HeaderSize == 2
Addresses == 0..(MaxMemory - 1)
Kinds == {"message", "boolean", "value"}
Word(n) == <<"int", n>>
Encoding(x) == [i \in 1..Size[x] |-> <<x, i>>]
Zeros(n) == [i \in 1..n |-> Word(0)]

(* buffer.put(s) at position p of memory m; n cells of the memory from p on *)
Put(m, p, s) ==
    [a \in Addresses |-> IF a - p + 1 \in DOMAIN s THEN s[a - p + 1] ELSE m[a]]
Cells(p, n) == [i \in 1..n |-> memory[p + i - 1]]

(* What call returns when the guest means answer x to its request. *)
Answer(k, q) ==
    CASE k = "message" -> <<k, Reply[q]>>
      [] k = "boolean" -> <<k, Score[q] # 0>>
      [] k = "value" -> <<k, Score[q]>>
Threw == <<"threw">>
None == <<"none">>

Init ==
    /\ memory = [a \in Addresses |-> Word(0)]
    /\ memSize = MemorySize /\ blocks = {} /\ lost = {}
    /\ pc = "idle" /\ calls = 0 /\ answer = None
    /\ msg \in Requests /\ kind = "message" /\ cap = MemorySize /\ order = "BE"
    /\ in = [ptr |-> 0, data |-> 0] /\ out = 0
    /\ exhausted = FALSE /\ trapped = FALSE

-----------------------------------------------------------------------------
(* The guest's allocator. *)
Cover(p, n) == p..(p + n - 1)
Need(n) == IF n = 0 THEN 1 ELSE n
Fits(n, limit) ==
    {p \in HeapBase..MaxMemory :
        /\ p + Need(n) <= limit
        /\ \A b \in blocks : Cover(b.base, b.size) \cap Cover(p, Need(n)) = {}}
Room(n) == IF Fits(n, memSize) # {} \/ ~CanGrow THEN Fits(n, memSize)
                                                 ELSE Fits(n, MaxMemory)

Bases(bs) == {b.base : b \in bs}

(* malloc(n) for owner who returns p *)
Allocate(p, n, who) ==
    \/ /\ p \in Room(n)
       /\ blocks' = blocks \cup {[base |-> p, size |-> Need(n), owner |-> who]}
       /\ memSize' = IF p + Need(n) > memSize THEN p + Need(n) ELSE memSize
       /\ UNCHANGED exhausted
    \/ /\ p = 0 /\ Room(n) = {}
       /\ exhausted' = TRUE
       /\ UNCHANGED alloc

(* WasmRunner.malloc: without the export, the position of the buffer. *)
Malloc(p, n, position) ==
    \/ HasMalloc /\ Allocate(p, n, "host")
    \/ ~HasMalloc /\ p = position /\ UNCHANGED <<alloc, exhausted>>

(* WasmRunner.free of each of the pointers ps. *)
Free(ps) ==
    /\ blocks' = IF HasMalloc THEN {b \in blocks : b.base \notin ps \ {0}} ELSE blocks
    /\ UNCHANGED memSize

-----------------------------------------------------------------------------
(* call takes the memory's buffer and starts on the input wrapper. *)
Call(q, k) ==
    /\ pc = "idle" /\ pc' = "header"
    /\ calls < MaxCalls /\ calls' = calls + 1
    /\ msg' = q /\ kind' = k
    /\ cap' = memSize /\ order' = "BE"
    /\ exhausted' = FALSE /\ trapped' = FALSE /\ answer' = None
    /\ UNCHANGED <<memory, alloc, in, out, lost>>

(* A constructor throws: no one closes its wrapper, its blocks are lost. *)
ConstructorThrows(mine, next) ==
    /\ answer' = Threw /\ pc' = next
    /\ lost' = lost \cup mine \cup Bases(blocks' \ blocks)
    /\ UNCHANGED <<memory, order, in, out>>

(* Input wrapper: malloc of the header, and a look at where it ends. *)
InputHeader(p) ==
    /\ pc = "header"
    /\ Malloc(p, HeaderSize, 0)
    /\ \/ /\ p + HeaderSize <= cap
          /\ in' = [in EXCEPT !.ptr = p] /\ pc' = "data"
          /\ UNCHANGED <<memory, order, out, answer, lost>>
       \/ p + HeaderSize > cap /\ ConstructorThrows({}, "idle")
    /\ UNCHANGED <<args, trapped>>

(* Faulty: the buffer keeps its big-endian order. *)
InputData_BigEndian(d) ==
    /\ pc = "data"
    /\ Malloc(d, Size[msg], in.ptr + HeaderSize)
    /\ \/ /\ d + Size[msg] <= cap
          /\ memory' = Put(Put(memory, d, Encoding(msg)), in.ptr,
                           <<Word(d), Word(Size[msg])>>)
          /\ in' = [in EXCEPT !.data = d]
          /\ UNCHANGED order
          /\ pc' = IF kind = "message" THEN "output" ELSE "invoke"
          /\ UNCHANGED <<out, answer, lost>>
       \/ d + Size[msg] > cap /\ ConstructorThrows({in.ptr} \ {0}, "idle")
    /\ UNCHANGED <<args, trapped>>

(* Faulty: the block for the data is too small. *)
InputData_TooSmall(d) ==
    /\ pc = "data"
    /\ Malloc(d, 1, in.ptr + HeaderSize)
    /\ \/ /\ d + Size[msg] <= cap
          /\ memory' = Put(Put(memory, d, Encoding(msg)), in.ptr,
                           <<Word(d), Word(Size[msg])>>)
          /\ in' = [in EXCEPT !.data = d]
          /\ order' = "LE"
          /\ pc' = IF kind = "message" THEN "output" ELSE "invoke"
          /\ UNCHANGED <<out, answer, lost>>
       \/ d + Size[msg] > cap /\ ConstructorThrows({in.ptr} \ {0}, "idle")
    /\ UNCHANGED <<args, trapped>>

(* Faulty: the header holds its own length, not that of the data. *)
InputData_WrongLength(d) ==
    /\ pc = "data"
    /\ Malloc(d, Size[msg], in.ptr + HeaderSize)
    /\ \/ /\ d + Size[msg] <= cap
          /\ memory' = Put(Put(memory, d, Encoding(msg)), in.ptr,
                           <<Word(d), Word(HeaderSize)>>)
          /\ in' = [in EXCEPT !.data = d]
          /\ order' = "LE"
          /\ pc' = IF kind = "message" THEN "output" ELSE "invoke"
          /\ UNCHANGED <<out, answer, lost>>
       \/ d + Size[msg] > cap /\ ConstructorThrows({in.ptr} \ {0}, "idle")
    /\ UNCHANGED <<args, trapped>>

(* Faulty: the buffer still stands where the header starts. *)
InputData_NoAdvance(d) ==
    /\ pc = "data"
    /\ Malloc(d, Size[msg], in.ptr)
    /\ \/ /\ d + Size[msg] <= cap
          /\ memory' = Put(Put(memory, d, Encoding(msg)), in.ptr,
                           <<Word(d), Word(Size[msg])>>)
          /\ in' = [in EXCEPT !.data = d]
          /\ order' = "LE"
          /\ pc' = IF kind = "message" THEN "output" ELSE "invoke"
          /\ UNCHANGED <<out, answer, lost>>
       \/ d + Size[msg] > cap /\ ConstructorThrows({in.ptr} \ {0}, "idle")
    /\ UNCHANGED <<args, trapped>>

(* Input wrapper: malloc and copy of the data, then the header, which makes *)
(* the buffer little-endian.                                                *)
InputData(d) ==
    /\ pc = "data"
    /\ Malloc(d, Size[msg], in.ptr + HeaderSize)
    /\ \/ /\ d + Size[msg] <= cap
          /\ memory' = Put(Put(memory, d, Encoding(msg)), in.ptr,
                           <<Word(d), Word(Size[msg])>>)
          /\ in' = [in EXCEPT !.data = d]
          /\ order' = "LE"
          /\ pc' = IF kind = "message" THEN "output" ELSE "invoke"
          /\ UNCHANGED <<out, answer, lost>>
       \/ d + Size[msg] > cap /\ ConstructorThrows({in.ptr} \ {0}, "idle")
    /\ UNCHANGED <<args, trapped>>

(* Faulty: keeps where the header ends. *)
OutputHeader_End(p) ==
    /\ pc = "output"
    /\ Malloc(p, HeaderSize, 0)
    /\ \/ /\ p + HeaderSize <= cap
          /\ out' = p + HeaderSize /\ pc' = "invoke"
          /\ UNCHANGED <<memory, order, in, answer, lost>>
       \/ p + HeaderSize > cap /\ ConstructorThrows({}, "closeInput")
    /\ UNCHANGED <<args, trapped>>

(* Output wrapper: a header only.  If it throws, the input is closed. *)
OutputHeader(p) ==
    /\ pc = "output"
    /\ Malloc(p, HeaderSize, 0)
    /\ \/ /\ p + HeaderSize <= cap
          /\ out' = p /\ pc' = "invoke"
          /\ UNCHANGED <<memory, order, in, answer, lost>>
       \/ p + HeaderSize > cap /\ ConstructorThrows({}, "closeInput")
    /\ UNCHANGED <<args, trapped>>

(* malloc itself throws.  The data's block is the second of its wrapper. *)
MallocThrows ==
    /\ pc \in {"header", "data", "output"}
    /\ UNCHANGED <<alloc, args, exhausted>>
    /\ ConstructorThrows(IF pc = "data" THEN {in.ptr} \ {0} ELSE {},
                         IF pc = "output" THEN "closeInput" ELSE "idle")
    /\ trapped' = TRUE

-----------------------------------------------------------------------------
(* The guest finds message x through the header at p. *)
Points(p, x) ==
    /\ memory[p + 1] = Word(Size[x])
    /\ \E d \in Addresses : /\ memory[p] = Word(d)
                            /\ d + Size[x] <= memSize
                            /\ Cells(d, Size[x]) = Encoding(x)

(* The request the guest answers: the one it was given, if it can read it. *)
Heard == LET given == {q \in Requests : Points(in.ptr, q)}
         IN IF given = {} THEN Requests ELSE given

(* It writes its reply to a buffer of its own, and the header of the output. *)
GuestReplies(q, p) ==
    /\ pc = "invoke" /\ kind = "message" /\ pc' = "read"
    /\ q \in Heard
    /\ Allocate(p, Size[Reply[q]], "guest")
    /\ p + Size[Reply[q]] <= memSize'
    /\ memory' = Put(Put(memory, p, Encoding(Reply[q])), out,
                     <<Word(p), Word(Size[Reply[q]])>>)
    /\ UNCHANGED <<args, order, in, out, answer, lost, trapped>>

(* A guest whose reply is the request may point back at the input. *)
GuestEchoes(q) ==
    /\ pc = "invoke" /\ kind = "message" /\ pc' = "read"
    /\ q \in Heard /\ Reply[q] = q
    /\ memory' = Put(memory, out, Cells(in.ptr, HeaderSize))
    /\ UNCHANGED <<alloc, args, order, in, out, answer, lost, exhausted, trapped>>

(* It returns an i32, which is the value or is compared with 0. *)
GuestReturns(q) ==
    /\ pc = "invoke" /\ kind # "message" /\ pc' = "closeInput"
    /\ q \in Heard
    /\ answer' = Answer(kind, q)
    /\ UNCHANGED <<memory, alloc, args, order, in, out, lost, exhausted, trapped>>

(* It traps; or it is not exported, or returns no i32, which throws as well. *)
GuestTraps ==
    /\ pc = "invoke"
    /\ pc' = IF kind = "message" THEN "closeOutput" ELSE "closeInput"
    /\ answer' = Threw /\ trapped' = TRUE
    /\ UNCHANGED <<memory, alloc, args, order, in, out, lost, exhausted>>

-----------------------------------------------------------------------------
(* The output's header, read through the buffer, names l cells from d on. *)
Readable(d, l) ==
    /\ order = "LE"
    /\ memory[out] = Word(d) /\ memory[out + 1] = Word(l)
    /\ d + l <= cap

(* output.get: bytes that are no encoding may still parse as something. *)
ReadResult(y) ==
    /\ pc = "read" /\ pc' = "closeOutput"
    /\ \E d \in Addresses, l \in 0..MaxMemory :
          /\ Readable(d, l)
          /\ Cells(d, l) = Encoding(y)
             \/ \A z \in Messages : Cells(d, l) # Encoding(z)
    /\ answer' = <<"message", y>>
    /\ UNCHANGED <<memory, alloc, args, order, in, out, lost, exhausted, trapped>>

(* Faulty: the exception of parsing the answer is swallowed. *)
ReadThrows_Swallowed ==
    /\ pc = "read" /\ pc' = "closeOutput"
    /\ \A d \in Addresses, l \in 0..MaxMemory, y \in Replies :
          Readable(d, l) => Cells(d, l) # Encoding(y)
    /\ UNCHANGED <<memory, alloc, args, order, in, out, answer, lost, exhausted, trapped>>

(* The exception leaves call, once the wrappers are closed. *)
ReadThrows ==
    /\ pc = "read" /\ pc' = "closeOutput"
    /\ \A d \in Addresses, l \in 0..MaxMemory, y \in Replies :
          Readable(d, l) => Cells(d, l) # Encoding(y)
    /\ answer' = Threw
    /\ UNCHANGED <<memory, alloc, args, order, in, out, lost, exhausted, trapped>>

(* The try statements close the output, then the input.  What the guest     *)
(* allocated for its reply is not the wrapper's to free.                    *)
CloseOutput ==
    /\ pc = "closeOutput" /\ pc' = "closeInput"
    /\ memory' = Put(memory, out, Zeros(HeaderSize))
    /\ Free({out})
    /\ UNCHANGED <<args, order, in, out, answer, lost, exhausted, trapped>>

(* Faulty: leaves the data of the request in the memory. *)
CloseInput_LeavesData ==
    /\ pc = "closeInput" /\ pc' = "idle"
    /\ memory' = Put(memory, in.ptr, Zeros(HeaderSize))
    /\ Free({in.data, in.ptr})
    /\ UNCHANGED <<args, order, in, out, answer, lost, exhausted, trapped>>

(* Faulty: frees the data and not the header. *)
CloseInput_KeepsHeader ==
    /\ pc = "closeInput" /\ pc' = "idle"
    /\ memory' = Put(Put(memory, in.data, Zeros(Size[msg])), in.ptr, Zeros(HeaderSize))
    /\ Free({in.data})
    /\ UNCHANGED <<args, order, in, out, answer, lost, exhausted, trapped>>

CloseInput ==
    /\ pc = "closeInput" /\ pc' = "idle"
    /\ memory' = Put(Put(memory, in.data, Zeros(Size[msg])), in.ptr, Zeros(HeaderSize))
    /\ Free({in.data, in.ptr})
    /\ UNCHANGED <<args, order, in, out, answer, lost, exhausted, trapped>>

(* A free throws: the rest of that close is skipped, and the exception      *)
(* leaves call, though it has an answer, once the other wrapper is closed.  *)
FreeThrows(mine, next) ==
    /\ pc' = next
    /\ answer' = Threw /\ trapped' = TRUE
    /\ lost' = lost \cup (mine \ {0})
    /\ UNCHANGED <<memSize, args, order, in, out, exhausted>>

FreeOutputThrows ==
    /\ pc = "closeOutput" /\ FreeThrows({out}, "closeInput")
    /\ memory' = Put(memory, out, Zeros(HeaderSize))
    /\ UNCHANGED blocks

(* Faulty: the data is freed before it is wiped. *)
FreeDataThrows_FreeFirst ==
    /\ pc = "closeInput" /\ FreeThrows({in.data, in.ptr}, "idle")
    /\ UNCHANGED <<memory, blocks>>

(* That of the data leaves the header as it is, too. *)
FreeDataThrows ==
    /\ pc = "closeInput" /\ FreeThrows({in.data, in.ptr}, "idle")
    /\ memory' = Put(memory, in.data, Zeros(Size[msg]))
    /\ UNCHANGED blocks

FreeInputThrows ==
    /\ pc = "closeInput" /\ FreeThrows({in.ptr}, "idle")
    /\ memory' = Put(Put(memory, in.data, Zeros(Size[msg])), in.ptr, Zeros(HeaderSize))
    /\ Free({in.data})

Finished == pc = "idle" /\ calls = MaxCalls /\ UNCHANGED vars

Host ==
    \/ \E q \in Requests, k \in Kinds : Call(q, k)
    \/ \E p \in Addresses : InputHeader(p) \/ InputData(p) \/ OutputHeader(p)
    \/ (\E y \in Replies : ReadResult(y)) \/ ReadThrows
    \/ CloseOutput \/ CloseInput
    \/ MallocThrows \/ FreeOutputThrows \/ FreeDataThrows \/ FreeInputThrows

Guest ==
    \/ \E q \in Requests :
          (\E p \in Addresses : GuestReplies(q, p)) \/ GuestEchoes(q) \/ GuestReturns(q)
    \/ GuestTraps

Next == Host \/ Guest \/ Finished

Spec == Init /\ [][Next]_vars
-----------------------------------------------------------------------------
Cell == ({"int"} \cup Messages) \X Nat
Answers == {None, Threw} \cup ({"message"} \X Replies)
           \cup ({"boolean"} \X BOOLEAN) \cup ({"value"} \X Nat)
Blocks == [base : Addresses, size : Nat \ {0}, owner : {"host", "guest"}]

MemoryType ==
    /\ memory \in [Addresses -> Cell]
    /\ memSize \in MemorySize..MaxMemory
    /\ blocks \subseteq Blocks
    /\ lost \subseteq Addresses
    /\ cap \in 0..memSize

CallType ==
    /\ pc \in {"idle", "header", "data", "output", "invoke", "read",
               "closeOutput", "closeInput"}
    /\ msg \in Requests /\ kind \in Kinds
    /\ order \in {"BE", "LE"}
    /\ in \in [ptr : Addresses, data : Addresses] /\ out \in Addresses
    /\ answer \in Answers
    /\ exhausted \in BOOLEAN /\ trapped \in BOOLEAN
    /\ calls \in 0..MaxCalls

(* The variables hold values of the intended kind. *)
TypeOK == MemoryType /\ CallType

HasInputHeader == pc \notin {"idle", "header"}
HasInput == HasInputHeader /\ pc # "data"
HasOutput == pc \in {"read", "closeOutput"} \/ (pc = "invoke" /\ kind = "message")

(* The pointers the open wrappers keep. *)
Held == (IF HasInputHeader THEN {in.ptr} ELSE {})
        \cup (IF HasInput THEN {in.data} ELSE {})
        \cup (IF HasOutput THEN {out} ELSE {})

HostBlocks == {b \in blocks : b.owner = "host"}

(* Whichever way a call goes, a block the host allocated is the header or   *)
(* data of an open wrapper, or was lost with a constructor or a close that  *)
(* threw: no path through the nested try statements forgets another one     *)
(* (WasmRunner.java:56).                                                    *)
HostBlocksAccounted ==
    HasMalloc => Bases(HostBlocks) = (Held \ {0}) \cup lost

(* Between calls nothing of a request is left in the memory, but for what   *)
(* a guest's own reply repeats: close() overwrites the data it wrote before *)
(* anything in it can throw, even when the guest had no room for it         *)
(* (WasmRunner.java:169).                                                   *)
NoResidue ==
    pc = "idle" => \A a \in Addresses : memory[a][1] \notin Requests \ Replies

(* A call that returns, returns the guest's answer to this very request,    *)
(* whatever earlier calls left in the memory, unless the guest ran out of   *)
(* memory, which neither side looks at (WasmRunner.java:52).                *)
ResultFaithful ==
    answer \notin {None, Threw} /\ ~exhausted => answer = Answer(kind, msg)

(* With an allocator in the guest a call throws for one of three reasons: the *)
(* guest trapped (in malloc or free, too), it ran out of memory, or its       *)
(* memory grew beyond the limit of the buffer the call took at its start      *)
(* (WasmRunner.java:54).                                                      *)
ThrowsHaveCause == HasMalloc /\ answer = Threw => trapped \/ exhausted \/ cap < memSize

(* A call throws only if the guest trapped or ran out of memory. *)
ThrowsOnlyIfGuestFails == answer = Threw => trapped \/ exhausted

(* A step of the host changes no cell outside the blocks it allocated, if   *)
(* the guest lets it allocate any.                                          *)
HostWritesItsOwn ==
    [][Host /\ HasMalloc => \A a \in Addresses :
          memory'[a] # memory[a] =>
              exhausted' \/ \E b \in HostBlocks \cup HostBlocks' :
                                 a \in Cover(b.base, b.size)]_vars

(* The caller sees a call between its start and the last close. *)
Caller == INSTANCE RunnerCall WITH
    call <- IF pc = "idle" THEN None ELSE <<kind, msg>>,
    answer <- IF pc = "idle" THEN answer ELSE None,
    Meant <- [c \in Kinds \X Requests |-> Answer(c[1], c[2])],
    Allocates <- HasMalloc,
    grown <- cap < memSize

(* Each call comes back at most once, with the answer to its own request or *)
(* with an exception that has a cause the caller can know of; never empty   *)
(* handed, and never before its wrappers are closed (WasmRunner.java:50).   *)
CallSpec == Caller!Spec
=============================================================================
