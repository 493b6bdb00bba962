# Verification of the WASM loader, its runners, its guests and their hosts

This directory holds TLA+ models of the program, the TLC configurations that
check them on small instances, and proofs that TLAPS checks for instances of
any size. Paths below are relative to the repository.

    tlc -workers 2 -config Loader.cfg WasmLoader        # a run
    tlapm WasmLoaderProofs.tla                          # its proofs

## The system

A Java library (`loader/`) loads WebAssembly modules with wasmtime and calls
functions of theirs, passing protobuf messages through the guest's linear
memory. Two applications use it: a Spring Cloud Gateway whose predicate and
filters are guest functions (`gateway/`), and a Spring Cloud Function that
decorates events with one (`function/`). The guests are C programs compiled to
WASM and kept next to the applications; most of their code is what protoc-c
generated for their messages.

| component | state it keeps | operations | talks to |
|---|---|---|---|
| **Module loader**, `WasmLoader.java` | engine, store, cache from resource to compiled module | constructor, `runner`, `close` | request threads of the applications, at once and without a lock of its own; `close` comes from the thread that closes the application context |
| **Guest calls**, `WasmRunner.java` | linker and store; per call two `Wrapper`s over one `ByteBuffer` | `call`, `malloc`, `free`, `close`, `Wrapper` constructors, `get`, `close` | the guest's exports `memory`, `malloc`, `free` and the function called |
| **Guests**, `gateway/src/main/proto/message.c`, `function/src/main/proto/message.c`, `loader/src/test/proto/message.c` | the heap of their instance | `predicate`, `request`, `response`, `filter` | host, through pointers to headers of a pointer and a length |
| **Protobuf codecs**, `*.pb-c.c`, `*.pb-c.h` | objects on the guest's heap | `init`, `get_packed_size`, `pack`, `unpack`, `free_unpacked` of 12 messages | the guests' functions, the protobuf-c library |
| **Gateway filters**, `gateway/.../DemoApplication.java`, `MessageUtils.java` | attributes of an exchange (the cached request body), bean fields | predicate, `request` and `response` filters and their body rewrites, bean `close` | loader, Spring's body rewriting filters, the upstream server |
| **Event function**, `function/.../DemoApplication.java` | a loader | `decorateEventWithWasm` | loader |
| **Generic converter**, `GenericMessageConverterUtils.java` | none | `toMap`, `fromMap` (recursive) | generated protobuf classes |

Where these parts meet: the applications borrow a runner with
`try (WasmRunner runner = loader.runner(resource))`, test it for null, and make
one call; `WasmRunner.call` and the guest share a linear memory and must agree
on who owns which block of it; a guest's function and the generated code share
the objects on its heap; several runners share one store.

### What makes each part correct, and what is hard about it

*Module loader.* Many requests may ask for a resource that is not compiled yet
while another thread closes the loader. It must compile once, must not tell a
request that a module is absent because of somebody else's failure, must give
every request an instance of its own, must not forget a native object, and must
leave no request waiting. The hard part is the interleavings of three look-ups
of the cache, of plain fields that `close` clears, and of exceptions at every
native call.

*Guest calls.* A call allocates two or three blocks with the guest's `malloc`,
writes and wipes them, and may throw wherever it uses the guest's exports or the
buffer. It must return the guest's
answer to this very request, free what it allocated on every path, stay inside
its blocks and leave nothing of the request behind. The hard parts are a buffer
taken before the guest runs, a `malloc` that may be missing or return 0, and
a byte order that one wrapper sets for the other.

*Guests.* The result shares strings, arrays and the union of an event's data
with the message it was made from; it must be packed before that is freed, and
of the two only the message may be freed, all of it and once.

*Codecs.* Tables say which member of a struct a field is kept in, which member
counts it or tells which of a union is there, and what its default is. Decoding
and freeing go wrong if a table does not fit its struct.

*Gateway filters.* Only what the plugin matched may be routed. Headers and body
of request and response must get through a plugin that is shown only the first
value of a header, through an attribute an earlier callback leaves, and in the
order in which Spring runs filters, whichever call fails.

*Event function.* An event is answered decorated or not at all, even while the
context closes.

*Generic converter.* A map converted to a message and back should be the map.

## The modules

| module | what it is |
|---|---|
| `RunnerLease` | abstract: what a caller of `runner` and `close` is promised |
| `WasmLoader` | the loader, with request threads and the thread that closes it |
| `WasmLoaderProofs` | theorems about it, and that it implements `RunnerLease` |
| `RunnerCall` | abstract: what a caller of `call` gets back |
| `WasmRunner`, `MCWasmRunner` | a runner's calls and its wrappers over a linear memory |
| `WasmRunnerProofs` | theorems about it: memory and blocks; what a call returns, and that it implements `RunnerCall` |
| `Descriptors` | the structs and tables protoc-c generated |
| `ProtobufC` | the generated functions over a heap, for any of these tables |
| `Codec`, `MCCodec` | a message unpacked, measured, packed and freed |
| `CodecProofs` | theorems about it, and the lemmas about the generated code |
| `MCTrees` | encoded messages for the runs, from sequences of their fields |
| `Promises` | what the guests' functions promise in terms of Java's messages, and how Java reads those |
| `Plugin` | abstract: a plugin whose calls are answered as `Promises` says |
| `GuestObjects`, `MCGuestObjects` | the guests' C functions by who owns which object; implements `Plugin` |
| `GuestObjectsProofs` | theorems about it, and that it implements `Plugin` |
| `GuestPlugin`, `MCGuestPlugin` | the same functions over a heap, with the generated code; implements `GuestObjects` |
| `GuestPluginProofs` | theorems about it |
| `GatewayFilters`, `MCGatewayFilters` | an exchange through predicate, filters and upstream server |
| `GatewayFiltersProofs` | theorems about it |
| `EventFunction`, `MCEventFunction` | the event function, composed with `WasmLoader` |
| `EventFunctionProofs` | theorems about it |
| `GenericConverter`, `MCGenericConverter` | maps to messages and back |
| `GenericConverterProofs` | theorems about it |

How they compose: `EventFunction` instantiates `WasmLoader` on its own
variables, so its threads take the loader's steps. `GatewayFilters` takes of the
loader only what `RunnerLease` lets a caller see (granted, refused, threw) and
of a plugin only `Promises`. That the guests keep them is shown in two steps:
`GuestPlugin`, on top of `ProtobufC` with the tables of `Descriptors`, implements
`GuestObjects`, and `GuestObjects` implements `Plugin`. `WasmRunner` carries
messages between host and guest without looking into them, and implements
`RunnerCall`.

Definitions named `Operation_Defect` are faulty variants of an operation. No
specification uses them. Each shows that a property would notice the defect.

### WasmLoader

`engine` and `store` are the loader's fields, with what they refer to: a live
native object, a disposed one, or null. `close` is four steps, one for each
statement, because a request may run between any two. `modules` is the cache;
`computing` is the lock that `ConcurrentHashMap.computeIfAbsent` takes for a
key while it computes it. A thread's `pc` says where it is:

    idle -> compute -> compiling -> lookup -> linker -> instantiate -> call -> close -> idle

with exits to `idle` at a failed compilation, a missing entry, and a linker or
instance that cannot be made. The exception of a failed read is caught and
becomes null, so no entry is made and the request goes on to `lookup`; all
other exceptions leave `runner`. A request thread then does what every caller
in the repository does: use the runner in a try statement that closes it.

`created`, `open` and `instances` follow the native linkers: how many there
have been, which are not closed, and which put an instance into the store.
`compiled`, `readFailed`, `orphans` are history variables: they change no step.

A native call is one step. What two native calls do that overlap within one
store is decided by wasmtime's binding and not by this repository. The map
locks keys in bins and may lock other keys than the one computed; the model
locks the key alone, which allows more interleavings.

Constants: `Threads`, `Resources`, those that are `Compilable` and those that
are `Linkable`, and `MaxRunners`, the bound on the linkers ever created (a
request begins only while one is left for it).

### RunnerLease

A request asks, is granted a runner that nobody had before or is refused, and
returns it. The mapping takes `compute` to `instantiate` as asking, `call` and
`close` as holding the linker's instance, and `instances` as what was issued.

### WasmRunner

The linear memory is a function from addresses to cells of one i32. A header
takes two cells (8 bytes), the encoding of message `x` takes `Size[x]` cells,
each different from any cell of another message, so that a wrong pointer or
length is always noticed. `blocks` is what the guest's allocator has handed
out. The steps are those of `WasmRunner.call`:

| action | code |
|---|---|
| `Call` | arguments, `memory.buffer(store)`: its limit is `cap`, its order big-endian |
| `InputHeader`, `InputData` | the constructor of the input `Wrapper`, split between its two allocations |
| `OutputHeader` | the constructor of the output `Wrapper` |
| `GuestReplies`, `GuestEchoes`, `GuestReturns`, `GuestTraps` | the function called (external) |
| `ReadResult`, `ReadThrows` | `output.get` |
| `CloseOutput`, `CloseInput` | `Wrapper.close`, run by the nested try statements |
| `MallocThrows` | `malloc` throws in any of the three allocations |
| `FreeOutputThrows`, `FreeDataThrows`, `FreeInputThrows` | `free` throws at the one use of it in the output's close, and at either in the input's |

Accesses beyond `cap` throw, as those of a `ByteBuffer` do; a constructor that
throws leaves its blocks in the history variable `lost`, since a try statement
does not close a resource it never got. A close that throws leaves there what it
had yet to free: if the data's `free` throws, the header is neither wiped nor
freed. The exception replaces an answer that was read before, and the other wrapper
is still closed. Without an exported `malloc` the
pointer is the position of the buffer (0 for a header, right behind the header
for the data) and nothing is freed.

External are the allocator (any free block at `HeapBase` or above, existing
memory first, 0 if there is no room; `malloc` and `free` are exported together or
not at all) and the guest function. The guest answers a request that it can read
with `Reply` or `Score`, and one it cannot with anything. All three may trap, and
looking them up throws if `WasmLoader.close` has disposed of the store meanwhile:
`trapped` is true of a call in which one of these happened, and nothing changes in
the guest then. Its temporary objects are left out here: `GuestPlugin`
has them.

Constants: `Requests`, `Replies`, their `Size`, the guest's `Reply` and
`Score`, `HasMalloc`, `CanGrow`, `HeapBase`, the `MemorySize` at first and
`MaxMemory`, and `MaxCalls`, the bound on the number of calls. A null message is
left out: no caller passes one.

### RunnerCall

What the code that calls `call` may rely on: it asks, and the guest's answer to
this request comes back or an exception does. A guest with an allocator
(`Allocates`) leads to an exception only if it trapped, a `malloc` returned 0 or
the memory grew in the call. After a `malloc` that returned 0 anything may come
back. The mapping takes any `pc` but
`idle` as a call, and `answer` as seen when the call is over.

### Descriptors, ProtobufC and Codec

`Descriptors` has one definition for each struct with its initializer
(`SpringMessageStruct`, ...), for each table of fields with its descriptor
(`SpringMessage`, ...) and for the functions of each message
(`spring_message`, ...), as the generated files have them. A struct maps members
to the 32-bit words they take; the members of a C union are one member, so that
reading the wrong one gives the words of another. The generated functions of all
messages are the same five lines around a descriptor and an assert, so
`ProtobufC` defines them once, parameterised by it, with what the protobuf-c
library (external) does from the table: fields are found by their position in a
range of numbers, merged into the struct, written in the table's order if they
are set, and freed if they are neither NULL nor the default.

The heap maps addresses, never used twice, to objects; `fault` records what C
leaves undefined. The addresses of what one `unpack` allocates are told apart by
the path of the message they belong to and the number of the field.

An encoded message is a tree: a function from paths to the messages in it, each
with the values of its fields by their numbers. The library recurses over
messages within messages. Here its `unpack` makes the struct of every path of the
tree at once (`StructOf`, `PartOf`), and `pack` and `free_unpacked` take the
structs that its recursion reaches, level by level (`Below`, `Reached`). `Depth`
bounds the levels. That is what recursion does in a heap in which no struct is
within itself, and it can be reasoned about. `IsEncoding` says which trees Java
writes: fields of the table, as often and with such values as their `.proto` says,
at most one of a union, and for each message within a message a path of its own.

`Codec` takes a message through `Decodes` (unpack), `Sizes` (get_packed_size),
`Encodes` (pack) and `Frees` (free_unpacked).

### GuestPlugin, GuestObjects and Plugin

`Called` is the host's call; `Unpacks`, `Scans` (predicate),
`BuildsRequest`, `BuildsResponse`, `BuildsFilter`, `Measures`, `Packs` and
`Returns` are the statements of the C functions in their order. One instance
serves several calls. `GuestPlugin` and `GuestObjects` have the same actions and
see different things.

`GuestPlugin` has the heap of `ProtobufC`. `Shared` copies members of the message
into the result, pointers and all; what pack writes follows from the tables. `own`
is a history variable, the objects the functions took themselves.

`GuestObjects` has no tables and no encodings. A struct has an address, refers
for each of its parts to the objects that hang there, and says what its encoding
would say. `Unpacks` takes any objects that are free, at any addresses that are;
an address can be used again. The array of headers and what is in it are two
parts, because `response` has an array of its own and shares the entries. `Packs`
writes what the result says if all of its objects are still there.

`ObjectsSpec` is the first step. `Struct` collects the objects that hang on each
field of a struct, `Content` is what Java or a reader finds in an encoding, and `seen` is a history variable with what the mapping needs of both:
the structs, the input and the buffer as `GuestObjects` has them. The step says
that unpack makes new objects only, that the copied members carry all of what
pack writes, and that free takes what unpack made and nothing else. `PluginSpec`
is the second step: the reply is what `Promises` says, as Java reads it, where the
last entry of a key counts.

### GatewayFilters

One exchange, from the route's configuration and a request with any headers and
body. `Predicates` and `Filters` are the `apply` methods; `ReadsBody`, `Hands`
and `Relay` the two steps of the request filter with `readBody`, which leaves
the changed request in an attribute (`cached`) and passes on what it finds there
later; `Granted`, `Absent`, `AskThrows` what the loader says; `CallPredicate`,
`CallRequest`, `CallResponse` and `CallThrows` the plugin's call; `Close` the end
of the try statement; `Upstream` and `Sends` the server and the client.
`FromHeaders`, `ToRequest` and `ToResponse` are those of `MessageUtils`.

Spring's part is external and taken as its interfaces say: the body filters call
the rewrite function with a body if there is one; the cached body is read a second
time from an exchange that need not have it; an exception of a predicate is a
route that does not match or an error of the exchange.

Exchanges share nothing of this code but the loaders, so one exchange at a time
shows all there is; `WasmLoader` has the threads.

### EventFunction

Each action is a step of `WasmLoader` with what the function does at it:
`Receive` (an event comes in and `runner` is entered), `Call`, `Close` (the try
statement ends, the answer is decorated), `NoRunner` (null or an exception),
`Underway`, `Waits`, `ContextCloses`. An event's two classes say the same; the
conversion of one into the other fails for no event that comes in.

### GenericConverter

A map is the tree of the objects in it: a function from paths (the keys and
indexes that lead to an object) to nodes of a class and a content. The recursive
methods visit every node of it and change none but the one they are at, so
`fromMap` and `toMap` are `extract` and `tcartex` at every path. The order of the
instanceof tests decides what a byte array, a ByteString, an array, a List or a
Map becomes. `FromMap`, `ToMap` and `FromMapAgain` convert a map, back, and again.

## The runs

| run | instance | what it shows |
|---|---|---|
| `loader` | 2 threads, 3 resources (one does not compile, one does not link), 3 linkers, fair | `TypeOK`, `CompiledOnce`, `AbsentOnlyAfterOwnReadFailure`, `LinkersAccountedFor`; `LeaseSpec`: the loader implements the lease; `RequestEnds`: no request waits for ever |
| `runner` | 2 calls, 3 requests of size 0, 1, 2, 9 cells of memory that grow to 11 | `TypeOK`, `NoResidue`, `ResultFaithful`, `ThrowsHaveCause`, `HostWritesItsOwn`; `HostBlocksAccounted`, also when a constructor throws half way, or `malloc` or `free` does; `CallSpec`: a call is one of `RunnerCall` |
| `runner_fallback` | a guest without `malloc` | `ResultFaithful` |
| `codec` | 8 types of message, two elements in a repeated field, nested once or twice | `RoundTrip`, `Released` |
| `guest` | 2 calls of 4 functions; messages with 2 headers, events with 2 attributes and every kind of data | `SoundHeap`; `ObjectsSpec`: the heap and the generated code implement `GuestObjects` |
| `guest_objects` | 4 functions, as many calls as 7 addresses allow; messages with no or 2 headers, an event | `SoundObjects`, `MessageReleased`; `PluginSpec`: the guests implement `Plugin` |
| `gateway` | every configuration of a route, 2 header names with up to 2 values, a body or none | `TypeOK`, `OnlyMatchedRouted`, `RequestKept`, `ResponseKept`, `RunnerReturned`, `ExchangeEnds` |
| `converter` | maps of up to 2 entries, nested twice, values of every class | `ConvertsBack`, `ConvertsAgain` |
| `event_function` | 2 threads, 3 linkers, a plain event and one that was decorated before | `OnlyDecorated`, `EventEnds`; `LoaderSpec`: its threads are request threads of the loader |

Why the bounds are enough. *Loader:* two threads let one compile while the other
waits, finds the entry, or compiles after a failure, and two hold a runner each;
three linkers let a thread come back after its first runner was closed. What a
third thread would add the theorems cover, which hold for any set of threads.
*Runner:* two calls let a cell of an earlier call be met by a later one, and
eleven cells are so few that the second call may find no room, because the first
one's reply is still there: `malloc` returns 0 for the host, for the guest, or
for neither. The last two of them come only by growth, for the host, whose
constructor then throws, for the guest, whose reply is out of sight, or for
neither. Requests of size 0, 1 and 2 tell an empty message, one shorter than a
header and one as long as a header apart. *Codec and guest:* two elements
reach the growth of an array and tell the order of its elements; one more level
of nesting repeats a step that depends on the table alone. `Depth` is more than any
of these messages has. Two calls show what the
first leaves behind; `Addresses` covers all the objects two calls make. Seven
addresses hold a message with its array and entries, a result with its own, and
the buffer: `response` fills them, and after the shorter calls addresses that were
freed are used again. *Gateway:* of two values of a header one is passed on and one
is not; "one" is the header the plugins know and "x" any other.

`ResultFaithful` and `ThrowsHaveCause` speak of calls in which no
`malloc` returned 0. The host does not look at the result of `malloc`
(`WasmRunner.java:42`), and with 0 it writes its header and data over one
another; what a call returns then is anybody's guess. `NoResidue` holds even
then. `ConvertsAgain` excludes messages with bytes: a ByteString is an Iterable
of Bytes, for which `fromMap` throws. `ResponseKept` promises the plugin's value of
a header only with `readBody`: without it the response filter runs before the
server answers, and what the server sends takes the place of the plugin's.

### Fairness

*Loader and event function* (`RequestEnds`, `EventEnds`). `Proceed`, the steps of
a request once it is past the lock, is weakly fair: a running thread goes on
running, and native calls return. `Compute` (`Waits` in `EventFunction`) is
strongly fair, because `ConcurrentHashMap` synchronizes on a bin, and a thread
that waits for it can be overtaken by others whose reads fail, each of which takes
the lock and lets it go. The JVM does not promise an order among waiting threads;
the assumption is that it does not let one of them starve for ever. No fairness is
assumed for the beginning of requests or for `close`.

*Gateway* (`ExchangeEnds`). `WF_vars(Step)`: Reactor delivers every signal of an
exchange, and calls of the loader, the plugin and the upstream server come back.

### Where code and documentation disagree

| run | property violated | behaviour |
|---|---|---|
| `loader_reuse` | `InstancesReused` | one thread, three requests one after the other: three instances, all in the store until it is disposed of, though `README.md:7` has "re-use instances of the WASM" |
| `gateway_cached_request` | `CachedRequestThere` | a request without a body on a route with the request filter and `readBody`: the attribute is never written, and the exchange fails with "cached request shouldn't be null" (`gateway/.../DemoApplication.java:126`) |
| `runner_stale_buffer` | `ThrowsOnlyIfGuestFails` | the guest's memory grows in `malloc`: the block lies beyond the limit of the buffer the call took before, and moving the buffer there throws, before the function has even run; a reply beyond the limit is lost the same way (`README.md:17` says any language and compiler with WASI would do; the guests in the repository have a memory of fixed size) |

`InstancesReused` asks for no more than one instance per resource and thread,
which sequential calls never need to exceed.

Seen while modelling, and stated by the models as they are: `close()` of the
loader leaves compiled modules open (at most one per resource, `CompiledOnce`); a
`runner(..)` that throws after it made the linker leaves it open (`orphans`, and
no others, `LinkersAccountedFor`); a reply's buffer stays allocated in the
guest (`blocks` owned by the guest), as do the guest's result, its array of headers
and the header it adds (`own`, and nothing else, `MessageReleased`).

## The proofs

Every theorem holds for any values of the constants that satisfy the named
assumptions. Invariants below were first checked with TLC on the instances above.

`WasmLoaderProofs`, for any threads and resources and any bound:

| theorem | statement |
|---|---|
| `TypeCorrect` | `Spec => []TypeOK` |
| `CompiledOnceCorrect`, `AbsentCorrect` | `Spec => []CompiledOnce`, `Spec => []AbsentOnlyAfterOwnReadFailure` |
| `LinkersAccountedForCorrect` | `Spec => []LinkersAccountedFor` |
| `LeaseCorrect` | `Spec => LeaseSpec`, the refinement |

Neither property of the cache is inductive. `CacheInv` adds what they rest on:
a thread that compiles is the only one in the key's lock and the resource has
no entry as yet; the entry is the number of compilations, which is at most 1;
and a thread that looks the entry up and would miss it has had its own read
fail. For two threads at `compiling` the same key would have to be locked by
both alone. `LinkerInv` adds to `LinkersAccountedFor` that a linker waiting for
its instance has none, which makes the instance that `Grant` issues a new one.
That linkers are told apart rests on the type invariant: all are numbers up to
`created`, so the next one is new. `LeaseStep` shows each action to be a step
of the lease or none.

No assumption on the constants is used. The assumption `LoaderAssumption` says
what they are for.

`WasmRunnerProofs`, for any messages and sizes, any memory, a guest with or without `malloc` unless stated, and any number of calls:

| theorem | statement |
|---|---|
| `RunnerTypeCorrect` | `Spec => [](TypeOK /\ InBounds)` |
| `HostBlocksCorrect` | `Spec => []HostBlocksAccounted` |
| `NoResidueCorrect` | `Spec => []NoResidue` |
| `HostWritesCorrect` | `Spec => HostWritesItsOwn` |
| `ResultCorrect` | `HasMalloc \/ HeapBase >= HeaderSize => (Spec => []ResultFaithful)` |
| `CauseCorrect` | `Spec => []ThrowsHaveCause` |
| `ThrowsCorrect` | `HasMalloc /\ ~CanGrow => (Spec => []ThrowsOnlyIfGuestFails)` |
| `CallCorrect` | `HasMalloc \/ HeapBase >= HeaderSize => (Spec => CallSpec)`, the refinement |

*Types.* That a pointer stays an address needs `InBounds`: what an open wrapper
points at ends at or before the limit of the buffer, because the constructor
looked there before it went on.

*Blocks.* `HostInv` adds to `HostBlocksAccounted` that the pointers an open
wrapper holds are `HeldApart`: from each other, where they are not 0, and from
the lost ones (those of a constructor or a close that threw), and that no block starts at 0. Without it a `free` might take two
blocks, or one that is not its wrapper's. It is kept because the allocator
covers no cell that is covered already (`AllocateBlocks`), and `Free` takes
exactly the blocks that start at its pointers (`FreeBlocks`).

*Residue.* `ResidueInv` says where the request is while a call runs: in the
cells of the input's data and nowhere else, and not in the input's header, which
the guest may copy. It assumes nothing about pointers being apart, which is why
it holds even when `malloc` returned 0: closing the input wipes all the cells
that the data could have been written to, and does so before the first `free`,
which may throw.

*Writes.* `OwnInv` says that while no `malloc` of the call returned 0, the
header and data of the input and the header of the output are blocks of the
host's that are still allocated, of the right sizes, and that the output's
header does not overlap the input's data. A close then wipes cells of blocks it
has not freed yet.

*Results.* `ResultInv` follows the message: when the guest is called the input's
header and data say it (`Says`), so that the guest hears this request and no other
(`HearsIt`: encodings tell messages apart), and when the host reads, the output's
header and the data it names say the guest's reply. What keeps one write from
spoiling another is that header and data never overlap: by `OwnInv` and the
allocator, or, without `malloc`, because both headers lie at 0, the data behind
them and the guest's own heap above the header (`FallbackInv`; hence the condition
on `HeapBase`). `ThrowsInv` adds that the limit of the buffer is not beyond the end of
the memory: what is allocated lies in the memory (`RoomMade`), so an access that
throws shows that the memory has grown. In one that cannot grow the two are the
same (`FixedInv`), and `ThrowsOnlyIfGuestFails` holds, which `runner_stale_buffer`
shows to fail when the memory grows.

*Calls.* `CallerStep` shows each step of the runner to be one of `RunnerCall`.
`AnsweredInv` adds that a call past the guest has an answer or an exception;
`WithinCall` that nothing that happened in a call is forgotten before its end.

`RunnerAssumption` is used for the numbers it gives a type, for the bounds of the
memory, for words being unlike any cell of a message, and for at most one message
having an empty encoding.

`GatewayFiltersProofs`, for all names, values, bodies, configurations and
failures:

| theorem | statement |
|---|---|
| `GatewayTypeCorrect` | `Spec => []TypeOK` |
| `RunnerReturnedCorrect` | `Spec => []RunnerReturned` |
| `RequestKeptCorrect` | `Spec => []RequestKept` |
| `OnlyMatchedRoutedCorrect` | `Spec => []OnlyMatchedRouted` |
| `ResponseKeptCorrect` | `Spec => []ResponseKept` |

The invariants say what an exchange knows at each place. `RunnerInv`: between a
grant and a close, and nowhere else, it holds a runner. `KeepInv`: the request at
hand, the one in the attribute and the one sent upstream all keep what came in.
`RouteInv`: past the match there was an answer of the predicate and the header it
asks for. `ResponseInv`: before the upstream server the response has at most the
plugin's header, and after it what the server sent. `RequestPuts` and `ResponsePuts`
say what the plugin's answer does to headers, `KeptFirst` that doing it twice is
doing it once. Used is `GatewayAssumption`, for the configurations there are and
"one" being a name.

`EventFunctionProofs`, for any events and threads:

| theorem | statement |
|---|---|
| `OnlyDecoratedCorrect` | `FairSpec => []OnlyDecorated` |
| `LoaderCorrect` | `FairSpec => LoaderSpec`, the refinement |

`EventInv` adds that between the plugin's answer and the close the answer is the
one to the thread's own event, and that `outcome` tells whether there is one. All
steps of the loader but three are shown to be `Silent`. `EventAssumption` says
that events have an id and attributes. `LoaderStep` finds in each action of the
function the loader's action it contains; with it the theorems of
`WasmLoaderProofs` hold of the loader inside the function.

`GuestObjectsProofs`, for any messages and events, any layout unpack gives them
and any allocator, and any number of calls:

| theorem | statement |
|---|---|
| `SoundObjectsCorrect` | `Spec => []SoundObjects` |
| `MessageReleasedCorrect` | `Spec => []MessageReleased` |
| `PluginCorrect` | `Spec => PluginSpec`, the refinement |

`SoundObjects` is not inductive: that a result is whole does not say what is in
it. `ObjectsInv` has three parts. `CallInv`: the call at hand is one that Java
makes, with the content the input has. `MessageInv`: what is allocated is the
message's objects and the functions' own, and no object is both; that is why
freeing the one leaves the other. `ResultInv`: the result hangs on nothing but
those, and what it says is what the function promises, in terms of entries. That
Java then reads the promise in terms of a map takes `HeadersRead` and
`HeadersAppended`: entries with different keys are read one by one, and an entry
appended to them overrides the one with its key and no other.

`ObjectsAssumption` gives contents and layouts their types, and says that the
headers Java writes have different keys, since it writes a map.

`GenericConverterProofs`, for maps of any size, depth and classes:

| theorem | statement |
|---|---|
| `ConvertsBackCorrect` | `Spec => []ConvertsBack` |
| `ConvertsAgainCorrect` | `Spec => []ConvertsAgain` |

`ReadBack` and the lemma after it say what two and three conversions make of one
object, class by class; since a tree is a function from paths the theorems follow
path by path, without induction. `ConverterInv` says which of the three trees is
the conversion of which. `MapsAssumption` is what makes a function a tree: a root
that is a map, parents that are containers, and contents that are kept apart.

`CodecProofs`, for any of the generated types, any encodings of their messages and
any `Depth`:

| theorem | statement |
|---|---|
| `RoundTripCorrect` | `CodecSpec => []RoundTrip` |
| `ReleasedCorrect` | `CodecSpec => []Released` |
| `AssertsCorrect` | `CodecSpec => []AssertsHold`: no assert of a generated function fails |

They rest on one fact about the generated code, `DescriptorsFit`: each of the twelve
tables fits its struct (`Fits`), which is shown row by row (`Row`). A field has a
member of its size, shares it only with the others of its union (`PairFits`), and
its default is what the initializer leaves there. Everything after that holds for
any table that fits. `WrittenWords` and `UnwrittenWords` say what unpack leaves in
the members of a struct; `WrittenPacked`, `WrittenLeads` and `WrittenOwned` what
pack writes from those words, where they lead, and what free takes of them.

`HoldsTree` says that the heap holds a message: at every path of the tree a struct
that fits it (`StructFits`), and `Made` is what was allocated for it. `UnpackHolds`
and `UnpackMakes` establish both. That the library's recursion reaches the paths of
the tree and nothing else is `WalkReached`, by induction over the levels: an
induction over natural numbers as a set (`NatInd`, from the well-foundedness of
`<`), so that no operator has to be a parameter. `PackedTree` and `FreedTree` follow,
and `CodecInv` says at which stage which of them holds. What is packed is `Meant`,
the tree without the fields that tell nothing, and `MeantIsMeaning` that both
encodings mean the same.

`DepthAssumption` makes the levels numbers, and `SamplesAssumption` says that what is
unpacked is an encoding. No struct has more than one of a union's fields set and no
message repeats a field that is not repeated, which is what Java's builders promise.

`GuestPluginProofs`, for any functions of the guests, any messages and any number of
calls:

| theorem | statement |
|---|---|
| `SoundHeapCorrect` | `Spec => []SoundHeap` |
| `ObjectsCorrect` | `Unbounded => (Spec => ObjectsSpec)` |
| `ResultPacked` | what is packed of a result is the message, with the header or the new id |

`SoundHeap` says that nothing bad has happened yet and not why. `GuestInv` follows the
heap through a function: after unpack it holds the message (`HoldsMessage`); once
built, the result is a struct of its own that shares members with the message
(`HoldsBuilt`, `Shares`, `HoldsExtended`); and the buffer is apart from both
(`HoldsBuffer`), with `len` the size of what pack will write (`ResultWire`). That what
get_packed_size measured is what pack writes takes knowing both: `AsideWalk` walks
through a struct that leads to another's messages, `RequestPacked`, `FilterPacked` and
`ExtendedPacked` say what is packed of each function's result, and `BuiltStays` that
allocating and filling the buffer changes none of it. `RequestBuilt`, `FilterBuilt`
and `ResponseBuilt` show that the statements of the C functions build such results,
and `MessageFreed` that freeing the message makes no fault, since it is all there.

`ObjectsCorrect` maps each step of a function to the step of `GuestObjects` with its
name. The mapping reads structs and encodings, so the proof first says what there is to
read: by `SeenTells` the history variable `seen` is, at each statement, the content of
the message, the struct that unpack made of it (`MessageStruct`) and the result
(`ResultStruct`, `Told`). Two things go into that. What a struct says: leaving out
fields that tell nothing, renaming the event and adding a header change the content as
they should and nowhere else (`SpringMeant`, `EventMeant`, `FilterContent`,
`ResponseContent`). And what it hangs on: `MessageObjects` finds every object that
unpack made under exactly the fields of the message, since each level of the tree is
within a field of the outermost (`PartsHang`), and `RequestRefs`, `FilterRefs` and
`ResponseRefs` tell which of them the result has and which are its own. The steps then
follow one by one (`UnpacksSeen` to `ReturnsSeen`); `KeyText` is that predicate compares
the key Java wrote.

`Unbounded` says that `Addresses` has every address an object can have, a call's number,
a path and a field. A run of TLC has to make do with finitely many, and one more object
than there are addresses would be a step `GuestObjects` does not allow; the code knows
no such bound, since `malloc` always succeeds here. With `PluginCorrect` the functions
as they run on the heap keep the promises of `Promises`, for messages whose headers have
each key once, as those of Java's map do.

`EncodingsAssumption` says that what the host passes is an encoding of the function's
type; `ExportsAssumption` which functions there are; `DepthSuffices` that the bound on
nesting does not cut off the headers of a message.

Only model-checked are `RequestEnds`, `EventEnds` and `ExchangeEnds`: liveness under
fairness is beyond the prover.

## Not modelled

- A `malloc` that fails inside a guest's function or the protobuf-c library, which
  the guests do not look at either; `WasmRunner` has a memory that is full.
- `pack_to_buffer` and the tables sorted by name, which nothing calls; fields of
  numbers a table does not have, which neither side writes.
- `call` with a null message: no caller passes one.
- What a guest's `malloc` or `free` has done before it throws: it counts as nothing
  here, a block that was to be freed stays. Nor the memory of a store that was
  disposed of, which the buffer may still show: it is the wasmtime binding's.
- Native calls of several threads that overlap in one store: what they do is the
  wasmtime binding's, which is not in the repository.
- Spellings of a header. `strcmp` tells "one" from "One", which HTTP does not; the
  models have names that are spelled as the guests look for them.
- The response filter with `readBody` for an answer without a body: Spring then
  does not call the rewrite function, and whether it sends the answer on is its own.
- Build files, the Maven wrapper, the JShell session, logging and the guest's
  `debug` import keep no state of the running system. The function application's
  `Foo` class and its message converter only carry values.

## The plan

Done: every component above, the refinements `LeaseSpec`, `CallSpec`,
`LoaderSpec`, `ObjectsSpec` and `PluginSpec`, the composition of function and
loader, the proofs of all of these and those of every invariant the runs check.
Left:

1. `call` with a null message, whose reply would be read big-endian, since only
   the input's data sets the order of the buffer.
2. Overlapping native calls, if the loader ever gets a lock or a store per request.
3. A pool of instances, should `runner` come to re-use them: `RunnerLease` would
   grant a runner again, and `NoResidue` is what makes that safe.
