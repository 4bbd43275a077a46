# YaFF in TLA+

YaFF is a wire format for Protobuf schemas: a C++ library that builds messages
back to front in one growing buffer and reads them in place, and a compiler
that turns a schema into the serializers and accessors that use it. This
directory holds TLA+ models of its core, the TLC configurations that check
them, and proofs checked by TLAPS. `PROJECT.json` lists the runs, the mutants
each property is tested against, the source lines behind every definition, the
hazards and the theorems.

## The system

| Component | State it keeps | Operations | What makes it correct |
|---|---|---|---|
| `DualBuffer` (`buffer.h`) | one heap block, two cursors, `Allocated_` | push, pop, fill, clear and detach on each side; growth | the sides never disturb each other, offsets survive growth, a failed allocation breaks only the current block |
| `Serializer` (`serializer.h`) | a `DualBuffer`, the open message (a variant), `Depth_`, `ObjectSet_`, `Finished_`, `ForcedAlternative_` | serialize strings and arrays; start, fill and finish a message of four kinds; finish, clear, reset, release | every offset handed out keeps reading back as what was written, content is shared only if equal, a rejected call harms nothing else |
| Readers (`message.h`, `array.h`, `base.h`) | none | `ReadValue`, `ReadLayout`, `ReadPresence`, `Get`, `find`, `equal_range` | agree with the serializer, for readers of other versions of the schema too; lookup finds what was written |
| IR processor (`ir_processor.cpp`, `ir.cpp`) | the set of processed messages | sort fields, assign flat offsets, validate; recursion into the types of fields | every message once, offsets and gaps the readers rely on |
| Compatibility check (`ir_compat.cpp`) | pairs already compared | compare two versions | its recursion ends and leaves nothing out; what it accepts keeps live fields where they are |
| Front end (`proto_front.cpp`) | the IR under construction | register schemas, messages, fields; recursion into nested types and the types of fields | nothing is lost or doubled by reference cycles; deprecated and reserved fields keep ids, and sizes if they have types |
| Generator (`cpp_gen.cpp`) | the output text | emit metadata, accessors, serializers, `ParseTo` | a protobuf message survives `Serialize` and `ParseTo`; static metadata and the writer's mode match the readers |
| Dependency order (`util.cpp`) | visited schemas and messages | two depth-first orders | definitions before their uses |
| Driver and protoc plugin | none | `Compile`, `Generate` | order of parse, process, check and generate |
| `AnyMessage`, reflection, visitor | none | the same reads by descriptor, a walk over a message | agree with the typed accessors |

The client calls the generated serializers, which call `Serializer`, which owns
the `DualBuffer`: the right stack is the output, the left one holds the fields
of the open sparse message and, below them, one entry for every metadata table
written so far. The deduplication set holds offsets, not bytes, and compares
through the buffer. Array callbacks call back into the serializer. The bytes
are then read by programs compiled from another version of the schema; what the
compiler derives from a schema (offsets, deleted ids, the sized flag) is the
only thing writer and reader share.

Nothing in the library runs concurrently: it is a passive object. What is hard
are long sequences of legal calls over shared storage, exceptions halfway
through a call, values kept across a growth of the block, numeric edges of the
format, and pairs of schema versions nobody tested together. `hazards` in
`PROJECT.json` lists them by line.

## Modules

| Module | Models | Refers to |
|---|---|---|
| `TwoStacks` | what `DualBuffer` promises: two byte stacks, the right one indexed by offset | - |
| `DualBuffer` | `buffer.h`: the block, both cursors, growth, a throwing `operator new` | refines `TwoStacks` |
| `DualBuffer_proofs` | its theorems | `DualBuffer` |
| `Wire` | the accessors of the four layouts, arrays and strings over a buffer of words | - |
| `Serializer` | `serializer.h`, every call that changes state | `Wire`; its two stacks are `TwoStacks`' |
| `Views` | generated accessors, `ParseTo`, lookup in sorted arrays, the visitor, over `Wire`'s words | extends `Wire` |
| `Serializer_proofs` | its theorems, with lemmas about the operators on its stacks | `Serializer` |
| `Serializer_content` | the theorem that what was written is read back | `Serializer`, `Wire` |
| `Serializer_sharing` | the theorem that equal content is stored once | `Serializer_content` |
| `Conversion` | the generated serializers: protobuf messages through the serializer and back | drives `Serializer` by `INSTANCE`, reads through `Views` |
| `FlatCodec` | the exact bits of one flat message, its encoder, its typed and its run-time readers | - |
| `Evolution` | a message type through the versions of its schema, its writers and readers | `FlatCodec` |
| `Evolution_proofs` | the theorems of both | `Evolution` |
| `Compatibility` | `ir_compat.cpp`: whole schemas through chains of versions, each compared with the last | - |
| `Compatibility_proofs` | its theorems | `Compatibility` |
| `FrontEnd` | `proto_front.cpp`: from descriptors to the IR | - |
| `Compiler` | `ir_processor.cpp` and `util.cpp`: the IR is processed, then generated in order | extends `FrontEnd` |
| `FrontEnd_proofs` | lemmas: the front end keeps its part of the invariant | `FrontEnd`, extends `Compiler` |
| `Compiler_proofs` | the theorems of both | extends `FrontEnd_proofs` |
| `MC*` | values for the constants | |

### DualBuffer

Pointers are distances from `Buf_`. The model keeps the true size of the block
(`block`) beside `Allocated_`, because the code increases `Allocated_` before
`new` and trusts it afterwards: after a `bad_alloc` the two differ until the
block is dropped. A read outside the block yields `Garbage`. Each operation is
one action; the overflow test of `Reallocate` throws before any member changes
and is therefore a stutter, the throwing `new` is the action
`AllocationFails`. `LeftFill` and `RightFill` are pushes of zeros, the
`PushSmall` variants pushes of one value. The refinement mapping reads the two
stacks out of the memory; a broken buffer maps to `broken`, in which `TwoStacks`
promises nothing but that a reset or a detach repairs it.

### Wire and Serializer

A buffer is a sequence of words indexed by the library's offsets. An offset, a
length, a typed limit and a scalar take one word; so does the metadata of one
flat field, whose bits are the subject of `FlatCodec`. Sparse metadata is kept
byte by byte with a small `ByteMod` and `TinyMaxId`, so both entry widths, the
arithmetic of their places and the cut to a byte are there. Scalars are one bit,
which is what XOR with a default needs.

`msg` is the variant with the members of the alternative that is open. An
action is a whole call: `AddSparse` pushes the value, then looks at the id, and
leaves the value behind when it refuses. A call that throws before it changes
anything is a stutter. A call that throws afterwards is a step: the client may
catch the exception and go on, so that message is `tainted` and promises
nothing, while everything handed out before or later must survive
(`SerializerExceptions`). `objects` and `root` record what the client was told;
no guard of a call reads more of them than an offset a client may hold.

Offsets keep their width where the code lets it matter. `Start` of a flat message is
the size of the buffer cut to an `Offset` (`% OffsetMod`; nothing checks it,
`serializer.h:630`), and the offset of a field of a preallocated message is a
difference in a `FieldOffset` (`OffsetsBelow`; `serializer.h:1027`). The first wraps
when calls that threw at `MAX_OFFSET` left the buffer beyond 4 GiB, the second when a
client goes on with a message whose `Finish` threw, since that sets `PrevOffset` before
it may throw. From then on the serializer may write over objects it has handed
out. `wrapped` records that one of the two has happened: no guard of the code
reads it, and what the properties about the contents of the buffer promise, they
promise until then.

The unguarded serializers (`G = false`) turn the guards into assumptions; they
are the same actions for clients that keep the contract. A client of a
preallocated sparse message adds only what it accounted for, leaves no more
room unused than the metadata of the fields it does add can tell (unused room
moves them away from the base), and adds nothing after a start that has thrown
(the null `Base`). A callback of an inline array writes
one fixed message a call and closes it, or abandons the array. A null element
of an array of offsets has no defined reading. `Clear`, `Reset` and `Release`
differ only in what happens to the block, which is `DualBuffer`'s subject.

### Views and Conversion

`Conversion` composes the generator with the serializer. A generated function
makes the arguments of a message (strings, arrays, nested messages) before it
opens the message, and the functions recurse over types; what they do to the
serializer is a sequence of calls, so `MessageCalls` flattens a protobuf message
into that sequence and the actions make its calls one by one. `results` holds
the offsets that are made and not passed on yet, which in the code are the
arguments and local variables of the functions. Every action is the action of
`Serializer` it is named for, on the same variables; what `Conversion` adds is
what the generator decides: the order of arguments and fields, which keys come
first, what a preallocated message accounts for, and which alternative a dynamic
message takes. An alternative that is neither flat nor sparse makes the function of a
dynamic message throw when its arguments have been written
(`ThrowUnknownAlternative`); the client drops that message and goes on.

A protobuf message is the function from the ids of the fields it has to their
values. An implicit scalar or string that equals its default, and an empty array or
map, are not there, as protobuf does not tell the two apart either; the functions
then pass null. `ParseTo` fills an empty message; `Filled`
keeps what the code does to one that is not, since the value of a map entry is
parsed into its pair.

`VisitMessage` knows the layout and the fields of the descriptor and nothing else.
It yields the sequence of calls the visitor receives. Both readers are compared with
the protobuf message itself (`RoundTrip`, `VisitorAgrees`), never with each other.

### FlatCodec and Evolution

A metadata byte is the set of its one bits, so masks, shifts and the sizes that
straddle two bytes are set operations, exact to the bit. `Encode` is what
`AddField` of every field and `Finish` leave behind; `ReadValue` and
`ReadPresence` are the reader's, with the static metadata the generator derives
from the reader's own schema; `AnyReadValue` and `AnyReadPresence` are those of a
reader that computes the corrections at run time from its descriptor. Bytes outside
the message read as all ones (`Beyond`), so that a reader that strays is noticed.

In `Evolution` a team changes a schema by the documented safe changes: it adds
fields with fresh numbers, deprecates them, deletes them, changes the sign of an
integer, and turns a static layout into the dynamic one when no static reader is
left. `Publish` keeps what the compiler accepts. `reserved` without a type is
skipped by the front end (`SkipTypeReserved`), hence the same as a deletion;
`deprecated`, or a reserved field with a type, keeps its room. At some point one
message is written under the current version and stays; read-back compares one
writer with one reader, so one stored message is enough. Fixed messages are
frozen by design and left out. A sparse message is the map from ids to values
that `Serializer` shows it to be.

### Compatibility

A version maps the name of every message to its layout and its fields with
their types. `Propose` is `Compile` with a base version: the next version differs
from the accepted one in one field, one layout or one missing message, and a
chain of accepted versions grows. `CheckMessage` recurses through `CheckField` and
`CheckTypes`; a call compares a field and goes on with one pair of messages at
most (`NestedOnce`), so an open call is a pair and the next place, and `CheckField`
is one step from field to field. `checked` is `CheckedMessages_`; as in the code, a
pair enters it before its fields are compared. `CheckThrows` is the requirement that ids
at one place are equal. A field that is retired keeps its size and loses its
default and what it refers to, as the front end registers it (`Retired`). The offsets
are sums of sizes modulo `FieldOffsetMod`, also of dynamic messages, as `ProcessMessage` gives them. An
accepted version becomes the base of the next one; a refused one ends the chain,
because its author has to start over from the same base.

### FrontEnd and Compiler

A program is what protoc hands over: top-level messages, and for each message
its file, nested types, fields, markup and reserved numbers. `TraverseMessage`
and `ProcessMessage` are recursive and change the IR between their own calls, so
each has an explicit stack of calls and an action for every stretch of code
between two calls: `TraverseNested` and `NestedReturned` are the loop over
nested types; `Contradiction`, `Drop`, `Known` and `Emplace` the ways the middle
of the function can go; `TraverseType`, `SkipField`, `AddField` and
`FinishMessage` the loop over fields and what follows it. A message is its own
symbol: that two names may become one after adaptation is left out. The tables
of symbols are maps ordered by name and the names are open, so `ProcessNext` and
`VisitSchema` take any order; `std::sort` is not stable, so fields of one id come
in any order. An exception ends the compilation in `rejected` with its reason.

The depth-first orders of `util.cpp` are explicit too: `walk` is the path of open
calls, `used` the set of what was visited. `OrderSchemas`, `VisitSchema`,
`SchemaVisited` and `SchemasOrdered` make the order of the schemas;
`VisitMessage` and `MessageVisited` that of the messages of the schema that
is first in it, and `SchemaGenerated` goes on to the next. A message may be marked with
`LAYOUT_UNKNOWN`, which passes the front end and the processor; generation throws when
it meets one (`GenerationThrows`).

`Placed` sums the sizes of fields in a `FieldOffset` and wraps
(`% FieldOffsetMod`), as `ir_processor.cpp:83` does. The documents allow 8190 fields of
up to eight bytes, which fit in 16 bits: `CompilerAssumption` says so of `FieldLimit`
and `FieldOffsetMod`. Beyond the limit places overlap, and `StaticLayoutsDense` promises
ids only; the compiler does not enforce the limit, and for a fixed layout nobody does. `FlatCodec`,
which is about messages the serializer accepts, needs no width: `serializer.h:640`
refuses flat messages beyond the limit.

`WellFormed` is what protoc guarantees of a valid file and what the code takes for
granted: names of types are distinct, an entry of a map has the two fields of
`MapEntry` and is used in its own file, names of fields are unique in a message, and
imports have no cycle.

Left out are the checks that cannot fail for what this front end builds from a
valid file (two-dimensional arrays, presence of arrays, messages and oneof
members), modifiers that only custom traits can set (keys, inline fields),
default values, groups, and the comparison with a base version, which is
`Compatibility`.

## Runs

Two specifications assume fairness. `Compiler` has `WF_vars(Next)`: the compiler is one
sequential program that takes its next step until it ends, so `Terminates` says
that its recursions do. `Compatibility` has `WF_vars(Check)`: once called, the check is a
function that runs to its end, while nobody has to propose another version. The
library does nothing on its own and every call returns at once, so there is
nothing that must eventually happen that a client's choice would not decide; the
other runs claim no liveness.

| Run | Shows | Bounds |
|---|---|---|
| `DualBuffer` | `TypeOK`, `Separated`, and that `TwoStacks` is implemented | two byte values, strings of one and two bytes, `SizeMax` 4, `new` may fail: every growth factor (the initial size, half of the old, the length itself), an exact fit and a refused growth occur |
| `DualBufferLeftDetach` | violated: `LeftDetach` starts at the end of the left bytes | as above, no failures |
| `SerializerMessages` | flat, sparse and preallocated messages, one after the other above strings and each other, read back; tables are shared and stored once; `Base` stays valid; no call touches a word below the open message | three fields, one a reference, default 1 for odd ids; id 1 takes one byte of metadata, ids 2 and 3 two (`TinyMaxId` 2); a new object starts up to word 4; two strings |
| `SerializerArrays` | strings, scalar, offset and inline arrays | strings of up to one character, arrays of up to two elements, callbacks of any length that fits |
| `SerializerExceptions` | all of the above when calls throw halfway, until an offset is truncated | `MaxOffset` 6, so objects cross the limit; `OffsetMod` 7, so a flat message started above it wraps, and `FieldOffsetMod` 4; foreign offsets, ids out of order and out of range, abandoned arrays |
| `Evolution` | every running reader, compiled or by descriptor, reads what was written; corrections find sizes; explicit presence is recorded | ids up to 5 (sizes straddle bytes from id 3 on with 3 bits a field, a second byte from id 5 on with 2), four dynamic and two static first schemas over sizes 1, 4, 8 and floats with both zeros, two changes |
| `EvolutionGeneralize` | violated: unsized data is corrected after a generalization and a deletion | as above |
| `Conversion` | protobuf messages survive both generated directions; accounts are exact; lookup finds what is there; visitors see the message | nine types of every layout: scalars explicit and implicit, strings and their arrays, messages nested, repeated, inline and in maps with numbers and strings as keys, a oneof, a deprecated and a missing id; up to two messages in a buffer, the second of type `Choice`, in either alternative, or a message refused for another one |
| `Compatibility` | the check ends and is complete; between accepted versions a live field changes its representation only after it was absent, or was reported | two messages that refer to each other and to themselves through arrays, fields up to id 3, all single changes over seven types, two layouts, two versions after the first; `FieldOffsetMod` 8, so offsets wrap |
| `CompatibilitySafe` | violated: the check refuses documented safe changes | as above |
| `Compiler` | both recursions end; the IR holds every kept message once; nothing the processor asserts of itself fails; static layouts are dense and do not overlap; exactly the entries of maps are pairs; definitions come before their uses | three families of programs. `Shapes`: five messages in two files that nest and refer to each other and themselves, a map, an ignored message, an empty one, with every target and `SkipEmptyMessages`. `Numberings`: three fields live or deprecated, numbers with and without a gap, id overrides, slices, typed and untyped reserved numbers, both options for gaps. `Wide`: one message of `FieldLimit` doubles, or two more, in each layout, the unknown one too; `FieldLimit` 4 and `FieldOffsetMod` 33 stand for 8190 and 65536 |
| `CompilerDeprecation` | violated: deprecating a field takes the flat layout away | `Numberings` |

`MaxDepth` bounds the stacks of `Compiler` (12) and `Compatibility` (6); no call of
their programs is deeper than 7 and 4, so nothing is cut off unless a recursion is
endless, which `Terminates` then reports. `MaxRight` bounds the size at which a
client of `Serializer` starts an object, not the size an object may reach. Above
`MaxOffset` only a flat message can be started and written before it is
refused, so a client starts one up to `MaxStart` and nothing else; and once an offset
has been truncated clients only go on with what is open, finish, or start over
(`Room`, `RoomToStart`).
`MaxMessages` and `Later` bound the messages of one buffer of `Conversion`, whose
`MaxOffset` is never reached; `MaxVersions` bounds the changes of a schema in
`Evolution` and `Compatibility`, and two of them are what it takes to drop something
and take it up again. The `Evolution`, `Compatibility` and `Compiler` runs switch deadlock
checking off: the number of changes is bounded, and a compilation or a refused
check ends. All others check it.

`Separated` and `TypeOK` of `DualBuffer` and the serializer's `NothingOpenUnnested`,
`LeftHoldsTables` and `BaseStaysValid` are the internal invariants on which the
observable ones rest: `ObjectsReadBack`, `RootReadsBack` and, of the whole path
from a protobuf message and back, `RoundTrip`.
`EarlierWordsStay` is an action property: no call changes or removes a word
below the open message.

## Proofs

Every theorem holds for all values of the constants that satisfy the named
assumption of its module, and uses nothing else; where it needs more, it says so in
its own `ASSUME`. Induction over the steps of a specification is the temporal rule;
the lemmas about numbers take the least element of a set of counterexamples
(`LeastExists`), because the library's induction theorems are out of reach.

### DualBuffer

- `TypeCorrect`: `Spec => []TypeOK`, one step per action.
- `Separation`: `Spec => []Separated`. The inductive invariant is
  `TypeOK /\ Separated`: no pop takes more than its side holds only because the
  sides' sizes are naturals, and after a failed allocation `right <= allocated`
  is all that is left to say, because `Allocated_` has outgrown the block.
  `EnsureSpaceShape` says what every push relies on: the sizes of both stacks
  are unchanged and there is room between them.
- `Implementation`: `Spec => ImplementsTwoStacks`. The lemmas describe the stacks of
  a reallocated block (both are what they were); each action then maps to the
  `TwoStacks` action of its name, or a stutter.

### Serializer

`TypeCorrect`, `NestingCounted`, `BaseIsStable`, `LeftStackSound`, `RootIsReadBack`,
`EarlierWordsAreKept`, `ObjectsAreReadBack` and `ContentStoredOnce` prove eight of the
runs' properties, for sequences of calls of any length, with clients that make mistakes (`BadCalls`) and
go on after an exception. `NestingCounted` holds whatever happens. The others hold
until an offset is truncated: `TypeCorrect` is `Spec => [](~wrapped => TypeOK)`, and the
properties of the rest say so themselves, because afterwards the code does write over
earlier words. `WrappedStays` shows that nothing but emptying the buffer takes
`wrapped` back, and every step is proved under `~wrapped'`, where `StartIsSize` and
`OffsetIsBelow` make the two truncating conversions exact. `RootIsReadBack` assumes `~BadCalls`: `Finish` takes any
offset up to the size of the buffer, so that the root is an object of the client
only if the client says so. `RootWordIsReadBack` is the part that needs no such
assumption.

The inductive invariant `IInv` has one part for each thing the calls rely on:

- `MessageInv`: the members of the open message and where its words lie, kind by
  kind. A fixed message is as long as its fields. A flat one has its block reserved
  by the first field, its presence bits below that, and `Base` equal to `End` unless
  an earlier attempt threw and left words behind, which is why `Base` cannot be read
  off the stack and has to be part of the invariant. A sparse one has as many
  entries on the left stack as fields.
- `LeftInv`: below `TablesHeld` entries the left stack holds tables, whose bytes lie
  inside the right stack below the open message; above it holds the fields of the
  open message. `FinishMetadata` relies on the first, `FinishSparse` on the second.
- `NestingInv`, `PoolInv`, `ObjectsInv`, `RootInv`, `ScalarsInv`: `Depth_` counts at
  least the open array and the open message; what is pooled, handed out or
  promised lies below `Floor`, the first word of the open message; the first word of
  a finished buffer is the distance to its root.

`NothingOpenUnnested`, `LeftHoldsTables` and `BaseStaysValid` follow from single
parts but none of them is inductive alone: a finished message drops its entries
from the left stack correctly only if it counted them (`MessageInv`), and a table
found to be equal is popped without touching an earlier one only if `LeftInv`
bounds where it begins.

`EarlierWordsAreKept` is an action property. Each call is shown to leave all
words up to `Floor` alone (`Kept`): what is pushed lies above, what is popped
(a duplicate object, a shared table) was pushed by the same call or message, and what
is written in place lies in the block of the open message. `Serializer_proofs` says first
what pushing, popping and overwriting words return and which words they leave alone.

`ObjectsAreReadBack` (`Serializer_content`) is the serializer's main promise: every
offset a method has returned reads back as what was written there, whatever is
written, pooled, shared, rejected or thrown afterwards. It assumes `ForeignIsOutside`:
an offset the client took from another buffer is larger than this one ever is. The
code compares an offset with the place of the message only, so that a foreign offset
equal to a place of this buffer is a legal reference to what is there, and one equal
to the place of the field itself would read as null. The runs are within the hypothesis.

- An object is `Settled` if every stack that agrees with this one up to `Floor` reads
  it back. With `EarlierWordsAreKept` a settled object stays settled (`SettledStays`), so
  that each call owes only the object it promises.
- `FixedIsRead`, `FlatIsRead`, `SparseIsRead`, `StringIsRead`, `ScalarsAreRead`,
  `RefsAreRead` and `InlineIsRead` are about the readers of `Wire` alone: which words make
  an object that reads back. A sparse one is read through the offset to its table,
  so its words are those of the message and those of a table that may belong to an
  earlier one.
- `MessageContent` says of the open message which of these words are there already,
  kind by kind. A fixed message has its fields. A flat one has each word at `Base`
  minus the offset of its id, defaults and gaps included, and the presence bit of every
  id above the last one added. A sparse one has a run of words on the
  right stack and the ids and offsets that describe it on the left (`SparseRun`), a
  preallocated one has each word at the place the table in front of it says, and an
  empty entry for every other id. An open array has its elements (`InlineContent`).
- A message that was `tainted`, because an earlier attempt threw and the client went on
  with it, is promised nothing; `CInv` says nothing of its words, but still bounds
  them, through `IInv`.
- `FinishSparse` is the long case. `RunLinked` shows that linking the fields one by
  one gives every word of the run and of the new table the value its one field
  makes of it, because no two entries share a word (`PlacesDiffer`) and an offset
  fits its digits (`EntryWritten`); `SparseTable` that the outcome is the message that
  was opened. `FinishMetadataContent` then follows the table to where it is
  stored: it stays, or it is popped and the message refers to an equal one.

`ContentStoredOnce` (`Serializer_sharing`) is what deduplication is for: two strings, two
arrays of scalars or two tables with the same content lie at one place. `StoredOnce`
speaks of objects and of what they were made of, deduplication of bytes, so that
`OnceInv` has to relate them:

- `PoolOnce`: no two entries of the pool have the same bytes, and every string and array
  handed out has an entry, of the same place and size, whose bytes are its words. An
  entry keeps its bytes because it lies below `Floor` (`EntryKept`), also while later
  calls throw and leave words behind.
- `TablesOnce`: no two tables on the left stack are equal, and the signature of each is
  that of the bytes it stands for. Without the second half `FinishMetadata`, which
  compares signatures first, could pass over an equal table. A preallocated message
  compares all tables, a sparse one those below its own fields, which are the same
  ones because its fields have been popped (`TablesHeld`).

### Evolution and FlatCodec

`ReadersRead` is the format's main promise: whatever documented changes lie between
the version that wrote a flat or sparse message and the one that reads it, in either order, a
reader reads every one of its live fields back to the bit. `VisitorsRead` says
the same of the resolver made at run time. Both, and `CorrectionsSized`, assume
`"flat" \notin Generalized`: flat data without sizes is misread after such a change,
as the run `EvolutionGeneralize` shows. `TypeCorrect` and `ExplicitIsRecorded`
need no such assumption.

The proof has two halves. The first is about the bytes of one message, for any
dense schema (`FlatReads`):

- `MaskBits` and `MaskBytes`: in the size mask the two bits of a field's size are
  those of `CorrectionOf`, also when they lie in two bytes, and no two fields share a
  bit (`IndicesApart`). `SizesApplied` keeps this through the cut after the largest
  id and the merge with the presence bits.
- `ImplicitSizeRead` and `ExplicitSizeRead`: the reader's shifts find those two bits,
  with the metadata byte it starts from and, for explicit data, the next one. With
  `CorrectionIs` the correction is the size itself (`EncodedSizes`); that
  `SizeFrom(CorrectionOf(n)) = n` needs sizes of 1, 4 and 8, which
  `FlatCodecAssumption` states as `InlineSize` has them.
- `EncodedPresence`: likewise for presence bits, in sized and unsized data.
- `SumOfSums` and `OffsetFound`: the offset among the reader's own fields plus the
  corrections of its deleted ones is the offset among the writer's fields, because
  the two sums run over the same ids. `BytesApart` then gives the word
  (`EncodedWords`), and taking the difference to the default twice the value.

The second is the inductive invariant `EInv`. `VersionsInv`: all versions that run
have the current layout and agree with the current version in the sizes of common
fields. `StoredInv`: so do they with the version of the stored message, whose numbers
are all `used`; the message is what `Encode` or `Stored` makes of values, a
writer of flat bytes had no gaps, and what was written without sizes is read by
versions without gaps only. That numbers are never used again is what keeps both
through `AddField`: `Follows` is the condition under which a new version may be
published.

An implicit writer drops a value that equals its default. For floats that is
an epsilon comparison, so that what is dropped is read as the default, bits included, and
what is kept must differ from it in some bit; this needs a default that is
not infinite or no number (`DefaultsDropped`), as the generator writes no literal
for one, which `EvolutionAssumption` says.

### Compatibility

- `VerdictCorrect`: `Spec => []VerdictIsComplete`. What must
  be shown is that cutting the recursion at a pair met before loses nothing, although the
  pair may still be half compared. The inductive invariant therefore says, beside types
  (`TypeInv`), that whatever is missing is still to come: a message of both versions
  is checked or in the loop (`RootsMet`), a pair a compared pair refers to is
  checked or an open call has the field that refers to it ahead (`NestedMet`), and a fault is
  reported or ahead likewise (`FaultsMet`); reported faults are real (`FaultsReal`), and a
  verdict is given with no call open (`Ended`). With no call open nothing is
  ahead, and `InvariantSuffices` follows. It needs `NestedOnce` (a field leads to
  one pair) and `CommonNumbered` (the common fields are `1 .. n`), both lemmas.
- `RepresentationKept`: `Spec => []ChangedOnlyWithNotice`. The code compares
  neighbours; the property is about versions any number of steps apart. A step that
  accepts a version has to add all pairs that end in it, so the invariant `HInv`
  carries the property itself, `FieldsMet` (the fields of a checked pair have equal
  ids and a field taken up again is reported, or the call that finds out is still
  ahead) and `HistoryInv` (accepted versions compile). Through a chain, a field
  that is present all along keeps its size because sizes never change, its default
  because that may only go with deprecation and come back with a report, and its
  offset because the fields before it keep theirs.
- `TypeCorrect`: `Spec => []TypeOK`, from the same invariant.

### FrontEnd and Compiler

All six invariants of the run hold for every program that is `WellFormed` and
every set of options: `TypeCorrect`, `MessagesOnce`, `AssertionsNeverFail`,
`LayoutsDense`, `PairsComplete` and `DefinitionsInOrder`. Nothing but
`FrontEndAssumption` and `CompilerAssumption` is assumed. The stacks are cut at `MaxDepth`, which
is any number; a run that needs a deeper one just stops there.

`CompilerInv` is inductive, and has a part for each stretch of the compilation:

- `IRInv`, at every step: what is registered has the shape of the IR, a schema
  depends on files its file imports, a message is listed once by its own schema and
  refers to messages of that schema and those it depends on, and its nested messages
  are the kept ones of its descriptor (`KeptPlaces`).
- `ParseInv`, while the front end runs. A message that is met again while it is open
  is in the table but has no fields yet, so no invariant can say that tables
  are complete; what holds is that whatever is missing is still to come. `StackInv`
  says of each open call how far it is: the nested messages before its index have been
  collected, and so have the fields, each under a name of its own (`LiveIn`);
  a call that is not the topmost waits for the next one. `OpenInv` says that a
  message of a target file without its definition has an open call, exactly one.
  `ReachInv` is the upper bound: what was met lies in every set that is closed under
  `Traversed`. `Seen` is the lower one: there is a set of messages that contains what
  the calls so far have decided and that is closed but for what open calls have ahead;
  it has to be bound by a quantifier, because dropped messages leave no trace in the
  IR. With no call open the two meet, and `KeptAll` says that the
  table is what the program leads to.
- `CallsInv` and `ProcessInv`, from the processor on: the same table, and `DefinedInv`, that what is
  defined lies in schemas that are; `ProcessedInv`, that a message is as the front end
  left it until it is processed and laid out from then on, and that the loop does not
  lose any; `PairsInv`, that the type of a map's field is a pair or an open call has
  that field ahead, and that nothing else is a pair. A pair's key survives because
  protoc's key types cannot be ignored (`EntryIn`, `EntryPlaced`); `Placed` is
  shown to number and place fields of any size; within `FieldLimit` the sum before a
  field is at most eight bytes for each and has not wrapped (`PlacedApart`).
- `PhaseInv`: the errors of `Internal` are never reported, and what a phase has not
  reached is empty.

`GenerationInv` carries the order, on top of `CompilerInv`. `Walking` is what both
walks keep: nothing is twice on the path or in what is done, and each element of
the path leads to the next. For schemas, a dependency that is visited and not done
would close a cycle on the path (`OpenCycle`), which imports do not have
(`DepsEnd`), so all dependencies are done first (`OrderInv`). For messages a cycle is
possible; then what is referred to leads back along the path (`OpenLeads`), which is
the exception `DefinedBeforeUse` makes. `OutputIn` adds that the schemas that are no longer in
the order are complete, so that a type of another schema is before, or in a
schema that is not generated (`LastJustified`).

### What is model-checked only

- Everything of `Conversion` and `Views`: their readers are recursive operators over
  nested messages, in modules the provers cannot enter.
- `Terminates` of `Compiler` and of `Compatibility`: liveness, which needs `ENABLED`.
- That `Encode` is the result of the single calls of `AddField` in any order: it is a
  definition by its result, and the fold over calls would be induction over data.

## Disagreements between code and documents

Four, each with a run: `LeftDetach` (`buffer.h:163`) hands over the wrong
bytes; unsized flat data is corrected after a generalization
(`message.h:251`); the compatibility check compares by place
(`ir_compat.cpp:84`); a deprecated field loses its compact id, and its message the
flat layout (`proto_front.cpp:146`). `findings` in `PROJECT.json` quotes what they contradict. Two documented limits are not enforced
either, which the models allow for rather than check: the fields of a fixed message
(`limits.md:13`, `ir_processor.cpp:138`), and the size of a finished buffer, of which
`Finish` checks only the distance to the root (`limits.md:7`, `serializer.h:408`).

## Not modelled

The bytes of values, hashing, iterators, the text the generator writes, name
adaptation, the construction of descriptors from the IR, the names a visitor is
given and its printer, moves of protobuf strings, file and parameter handling of the
plugin, and the warnings of the compatibility check that change nothing. Columnar
arrays of sequential messages are only declared (`::yaff::exp`, `yaff.h:15`), and no
front end of the repository asks for them. Parsing into a protobuf message that is not
empty follows protobuf's own merging and is not checked. Reading untrusted bytes
is documented as unsupported without validation, so readers meet only what
serializers wrote.

## Plan

1. `FrontEnd` further: name adaptation and its collisions, `ShouldIgnore`, which
   takes the first option that applies where the other options are resolved
   slice first, and typed reserved numbers that equal a live id, which a dynamic
   layout lets through.
2. The descriptors built at run time (`ir_reflect.cpp`) as a view of the IR that `Compiler` builds.
3. Proofs: `AccountedIsAdded` of `Conversion`, once the sequence of calls of a message
   is written without recursion.
