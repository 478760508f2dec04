# vmproto in TLA+

vmproto is a prototype virtual machine: a client builds a module with
`ModuleBuilder`, instruction by instruction; the builder verifies statically
that the code is memory safe; the module is stored in the process's `Runtime`
and reached through `Module` handles; unpacking a module compiles it with LLVM,
and a procedure is then called as native code that checks almost nothing, since
the builder has. The project models the verifier, the bytes instructions are
kept in, what the code generator takes for granted of the verifier, what the
compiled code then does to stack, heap and reference counts, the life of modules
and handles, and the lexer of the language to come; it checks them with TLC on
small instances and proves the main invariants with TLAPS for all.

Paths below are relative to `src/src/` unless they begin with `src/`.

## 1. Inventory

| Component | State | Operations | Hard about it |
|---|---|---|---|
| `ModuleBuilder`, frames and jumps (`vm/mbuilder.cpp:170-279`) | per procedure a stack of frames, each with the jumps made in it, and an instruction count | begin and end a frame, record a jump, finish | the checks of one jump are spread over three handlers and run at different times: when it is made, when frames open after it, when its frame closes |
| `ModuleBuilder`, tables and operands (`vm/mbuilder.cpp`, `vm/instr.h`, `vm/instr.cpp`) | tables of variable types, procedure types, registers, procedures | `addVarType`, `addVarTypeVRef`, `addProcType`, `addReg`, `addProc`, `addProcInstr`, `resetModule`, `createModule` | failed calls must leave nothing; tables refer to each other by index; a reset clears some of them |
| Code generator (`vm/mdata.cpp:54-858`) | frames, blocks, the block being filled, landing pads cached per frame | one emitter per instruction | trusts the builder; one walk in code order stands for all run-time paths |
| `Runtime`, `Module`, `ModuleData` (`vm/runtime.cpp`, `vm/module.cpp`, `vm/mdata.cpp:104-205, 1033-1101`, `retained.h`, `uuid.h`) | a map from ids to data, a reference count per data, an iterator per handle | create, look up, query, pack, unpack, drop, call, release | the order in which several handles find, drop and let go of one module; failures half way through `unpack` |
| Instruction encoding (`vm/util.cpp`, `vm/instr.h`, `vm/instr.cpp`) | the bytes of an instruction and of a procedure's code | construct, read an operand, measure, copy, walk | edges of each width, sign; operands read from objects that are not initialized and past the end of an instruction |
| Execution of compiled code (`vm/mdata.cpp:263-730`) | variables, references, reference counts | the instructions | exceptions against open frames, several procedures on one stack, reference counts |
| Lexer and characters (`lang/lexer.cpp`, `char.cpp`) | position in the input, line and column, last token | next token | location counted in three ways over read-ahead; exceptions inside a token; encodings |
| Support (`exception.h`, `singleton.h`, `farray.h`, `math.h`, `main.cpp`) | none | | |

The program is sequential: no threads, nothing is persisted. What is hard is
in the order of calls, through several handles or several procedures, and in
what one component assumes of another. A client calls the builder; the builder
calls `Runtime::insertModuleData` and `Module::id`; `Module` calls `Runtime` to
find, retain and release; `ModuleData` walks, at `unpack`, the code that the
builder accepted.

What makes each part correct:

* frames: every jump stays inside the frames open where it is made, and lands
  on an instruction, as long as every accepted instruction is in the code; a
  refused instruction leaves no trace;
* tables: every index stored names an entry, always;
* generator: frames, operands, blocks and landing pads fit the code accepted;
* encoding: whoever reads the code later meets the instructions that were
  checked, and those are the ones the client gave;
* execution: the frames the generator believes open have their variables on the
  stack; a count equals the references there are; a call touches nothing of its
  callers but what it was passed;
* lexer: the location is the place in the input, nothing is lost or read twice;
* runtime: counts equal holders, no iterator outlives its entry, a dropped
  module is refused to everybody and reclaimed in the end.

`PROJECT.json` lists the hazards at their lines with the properties that cover
them, and those no property covers yet.

## 2. Modules

| Module | What it is |
|---|---|
| `VMDefs` | ids, frame types, branches of an instruction |
| `ProcCon` | the record of a procedure under construction and the operators that check and update it: one operator per function of `mbuilder.cpp:170-279` |
| `ProcFrames` | `addProcInstr` on one procedure, as a state machine over `ProcCon`, with three history variables: the frames open at each instruction counted, the instructions that are in the code, and the jumps accepted |
| `ModuleBuilder` | the whole builder: the four tables, operand checks, reset, create |
| `Codegen` | the code generator as operators on a module: frames, blocks, landing pads, terminators |
| `BuiltCode` | `ModuleBuilder` and `Codegen` together: what the generator assumes of accepted code |
| `ModuleStore` | abstract: what a client of `Module` may rely on, without map, counts, deletion |
| `Runtime` | map, handles, counts, life of a module; it refines `ModuleStore` |
| `Execution` | `BuiltCode`, and what its code does when it is called: stack, heap, counts, calls in progress, exceptions |
| `MBInt` | multibyte integers: writing and reading, signed and unsigned |
| `InstrCode` | instructions as bytes over `MBInt`: constructed, read back, checked, copied to the code and walked |
| `Lexer` | `Lexer::readToken` over the bytes `Char::read` decodes |
| `ProcConProofs` | what the operators of `ProcCon` return and preserve |
| `ProcFramesProofs`, `RuntimeProofs`, `ExecutionProofs`, `InstrCodeProofs`, `LexerProofs` | the theorems about the module of that name |
| `BuiltCodeProofs`, `BuiltFramesProofs` | the theorems about `BuiltCode`: its tables; the code that was accepted, with lemmas about `Codegen` |
| `MCProcFrames`, `MCBuiltCode`, `MCExecution`, `MCInstrCode`, `MCLexer`, `MCRuntime` | instances for TLC |

`ModuleBuilder` EXTENDS `ProcCon`; `BuiltCode` joins it with `Codegen`, and
`Execution` EXTENDS `BuiltCode`. `InstrCode`, `Lexer` and `Runtime` stand alone.

### The builder

A call of the code either throws or assigns; here an operation computes a
verdict, the exception class or `OK`, with the checks in the order of the code
(`a & b` is "a, and if it did not throw, b"), and changes the tables only on
`OK`. `exc` holds the verdict of the last call. The state is that of
`mbuilder.h:52-61, 82-86`; a frame's `jumps` is a set because the code never
looks at order or multiplicity. `PUSHH` is the one instruction that assigns
before it has checked everything: `ApplyBeginHandler` pushes, checks, and takes
the frame off again.

**Instructions without bytes.** `Instr()` is a public constructor and makes an
`OPCODE_ILL` (`instr.h:19`, `vmdefs.h:138`). `addProcInstr` accepts it: no check
runs (`instr.cpp:58`), `size()` is 0, so nothing is copied to the code
(`instr.cpp:61-63`), and `instrCount` is incremented all the same
(`mbuilder.cpp:255-258`). From then on the indices the builder checks jumps,
handlers and targets against are not those the code generator walks. The modules
have this instruction (`ILL`): `AddIll` and the history `stored` in `ProcFrames`,
`Stored` and the history field `ills` in `ModuleBuilder`, an instruction of size 0
in `InstrCode`. `mcProcFramesIll` shows what it breaks; TLC refutes `BlocksFilled`
and `PadsLandInside` too when their condition is taken away (a target may then lie
past the end of the code, where `mdata.cpp:91` asserts a block). The properties
about jumps, blocks and pads are therefore about procedures whose code holds every
instruction accepted (`Whole`, `AllInCode`), and name that condition. `FramesAgree`
and `WalkedIsChecked` say what is left without it: frames of the same number,
types and registers; a code that is the other instructions in order.

Data abstracted: flag words are sets of names with all reserved bits as one;
an instruction is a record (`InstrCode` has its bytes); `prefs`
stay empty because nothing fills them. Byte arithmetic keeps its width: the
`uint32_t` addition `offset() + 1` is taken modulo `UINT32`. Instruction counts
are `size_t` and bounded by the limit the code checks.

One read out of bounds is a choice: `assertProcCallable` may index `regs` with
an id that `resetModule` left in `ptypes`; what the comparison finds is then
arbitrary (`guess` in `ProcCallable`).

### The code generator

`unpack()` walks the code of each procedure once, in order, so its state at
instruction *i* is a function of the first *i* instructions, and `Codegen` has
it as functions: `FramesAt`, `BlockIndexes`, `BuiltAt` (where a cached landing
pad was built), `Catcher` and `PadTarget` (where it leads). LLVM's own values
are left out. `LeavesBlock` says which instructions move to a block that is not
one of `blocks`, which matters for the final return only.

### Instructions as bytes

`MBInt` has the width of a group and the number of bytes as constants: 7 bits
and 9 bytes in the code, 2 and 6 in the run. All that the code treats apart is
there: the last byte that is all payload, the byte added for the sign, the
highest group that is dropped.

`AddProcInstr(in)` of `InstrCode` is a client that constructs an instruction and
calls `addProcInstr` with it. `Dat` is the object's array after the constructor
wrote into it; it is not initialized, so the bytes not written are any member
of `Garbage`, and so are the bytes a walk takes along past the end of the code
(`DatAt`). `Param` reads an operand as the code does, by reading all those
before it. The checks are those on one operand's value, against full tables of
`TABLE_MAX` entries; `ModuleBuilder` has the others. `given` and `checked` are
history variables.

### Compiled code

Each emitter of `mdata.cpp` writes LLVM code; an action of `Execution` is what
that code does. `mem` is the stack: one cell for each variable a `PUSH` made,
`POP` cuts it back to the pointer saved at the `PUSH`. `acts` are the calls in
progress, each with the instruction it is at and `env`, the SSA values of its
function: which cell each `PUSH` made last. The generator's static frames
(`FramesAt`) say which of them an operand means. `heap` has the reference
counts; a variable whose count becomes 0 stays, because the destructor the code
calls is an empty function.

Exceptions: `Throw` and `CallProcedure` are invokes, and `Unwind` runs the
landing pad of the instruction an exception leaves, with the frames that it
cleans up and the handler it was built for (`Catcher`, from `Codegen`). A failed
check (`Fail`) is a plain call and leaves the procedure at once.

Bytes are left out: conditional jumps and the index checks of LDE and STE go
either way. `Runnable` says what is called: code that LLVM would verify, that
holds every instruction accepted, and whose jumps keep to the frames open where
they are made, over variables of at most one reference. What the builder accepts
beyond that is the subject of other properties (`JumpsWithinFrame`,
`JumpsKeepFrames`) or of a statement TLC refutes (`CodeVerifies`), or is left out
(section 5).

Two history variables: `leaks` counts, for each heap variable, the references
abandoned without a release; `copied` says that LDE or STE has written one
reference over another. `leaks` is taken from what the code does at a RET, a
failed check and an exception that leaves the procedure: that nothing is
released there is recorded, not judged. So `CountsExact` finds a reference
released twice, or lost anywhere else, and not one more abandoned there.

### The lexer

A byte is its class: those that `readToken` tells apart. `pos` is the stream,
with `unget` as a step back. One action, since the class has one operation; it
is given as what a call leaves (`Result`), token or exception. `misled` is a
history variable: the location is wrong after an exception and after a dot that
ends a line, and in no other case.

### The runtime

`data[m]` is the `ModuleData` of module *m* with its count, `dropped` and
`unpacked` flags; `held` are the handles whose `iter` is not `end()`. Ids are
never reused: `uuid_generate` gives a new one for each module. `findable` is
the part of the map that `find` can reach. `UUID::operator<` is true of any two
different ids, so a search goes right at every node it does not equal and sees
only the rightmost path of the tree, while an insertion goes left all the way.
After an erasure the shape of the tree is left open (`Rebalanced`, external:
libstdc++), except that the root is on the path.

`Unpack` has the three ends of the code: generated, no engine
(`EnvironmentException`), not verified (`BugException`, in the debug build).

## 3. Runs

| Run | Question | Bounds |
|---|---|---|
| `mcProcFrames` | jumps, landings, refused instructions | 6 instructions, offsets -3..5 offered (-2..4 legal), one register, `ILL` |
| `mcBuiltTables` | indexes, limits and the agreement of calls through every order of table calls, failures and resets | tables of 2, 1, 3, 1 entries, 2 instructions; each argument below, at and above its limit; `ILL` |
| `mcBuiltAccepted` | builder and generator agree on frames, operands and byte offsets; branches, blocks and landing pads fit | 4 instructions of 27 over full tables (words, a record with a reference, a top-level word, an unknown register; offsets at the size of an element and at 2^32-1), or 6 instructions of 10 (frames, handlers, jumps, throw, return); `ILL` in both |
| `mcExecution` | stack, counts and calls while code runs | procedure 0 in one of five beginnings, 2 more instructions of 16 and the POPs it needs; four callees, one of which calls another; three heaps of one or two variables: a chain, a loop, no reference; no `ILL`, which `Runnable` refuses |
| `mcInstrCode` | the bytes stored are the instructions checked, and those the ones given | every pair of instructions of 10 classes, `ILL` among them, operands on both sides of each change of the encoding |
| `mcLexer` | locations, texts, progress | every text of at most 5 bytes of 8 classes, and of at most 3 of all 15 |
| `mcRuntime` | counts, iterators, drops; `Runtime` implements `ModuleStore`; a dropped module is reclaimed | 2 modules, 3 handles |

Why the bounds are enough.

* Six instructions hold two nested frames with a jump across either edge of
  each, or a frame opened and closed around a target, or an `ILL` in between.
  Jumps see frames, not what these assign, so one register does.
* Table sizes let every table be full and one entry be stale. `UINT32` is scaled
  to 64: any modulus above `ELT_BYTES_MAX` wraps in the same way. `OneModule`
  stops each builder behaviour at its first created module; what follows a
  creation is what follows a reset (`Cleared`), which the runs do explore.
* A refused instruction leaves the code as it was, so two accepted instructions
  show one after the other; each operand takes the values at which its encoding
  grows. With 2-bit groups and 6 bytes the longest instruction is to
  `MAX_INSTR_SIZE` what it is in the code.
* The beginnings of `mcExecution` put a loaded reference inside and outside a
  handler, a variable ready to be passed to a call, and a landing pad built
  before the handler is entered; the callees throw, fail, return inside a frame
  and replace what they were given. Two more instructions then reach every pair
  of instruction and situation. `Bounded` cuts loops that abandon references for
  ever, and counts that have become negative after LDE or STE.
  `CHECK_DEADLOCK FALSE`: a procedure returns or throws, and that is the end.
* Five bytes are a string with an escape, or a comment, a newline and a word, or
  two words; lines and columns wrap at 4.
* Three handles let one drop, one hold and one come late; two modules are enough
  for a handle to leave one for another, and for a search to miss one of them.

The other runs each refute one statement of a comment, a check or the
documentation; `PROJECT.json` quotes it under "findings":

| Run | What the code does |
|---|---|
| `mcProcFramesJumps` | accepts a jump into a frame that is not open where the jump is made: backward past the frame's PUSH, as in the run, or forward into a frame opened later |
| `mcProcFramesIll` | accepts an instruction without bytes and counts it, so a jump over it leads one instruction further in the code, out of its frame |
| `mcBuiltProcTypes` | keeps procedure types over `resetModule` |
| `mcExecutionCounted` | copies references without counting them in LDE and STE |
| `mcRuntimeFound` | loses modules in a map without an ordering |

Some properties hold up to an exception that is named in them:

* `NoJumpOutOfFrame`, `JumpsLand`, `JumpsWithinFrame` (`Whole`), `BlocksFilled`,
  `PadsLandInside` and one part of `FramesAgree` (`AllInCode`): procedures in
  which every instruction accepted is in the code;
* `WalkedIsChecked`: `ILL` instructions, which have no bytes to be met;
* `BytesStayInside`: byte offset 2^32-1 is accepted in LDB and STB, since
  `offset() + 1` wraps to 0 (`instr.h:330`);
* `OperandsResolve`: top-level registers, which are accepted as the reference
  operand of LDR and STR too;
* `OperandsKept`: `Folded` is the family of negative jump offsets that lose the
  zeros after their sign when they are written (`util.cpp:84-95`);
* `LegalIsAccepted`: `TooLong` is a CPI8 that does not fit in `MAX_INSTR_SIZE`
  bytes;
* `CountsExact`: the references in `leaks`, and everything after `copied`;
* `LocationIsTrue`: `misled`, so what the location is after an exception, or
  after a dot before a newline, is not checked.

Four more statements are kept in the modules beside the properties, and TLC
refutes them: `ExceptionReachesHandler` and `CodeVerifies` (`BuiltCode`: a
handler that is the first frame of a procedure is ignored, `fi > 1` at
`mdata.cpp:686`; a throw inside a handler re-enters it by a cached pad,
`mdata.cpp:679`; a conditional jump in last place reads past `blocks`; a
procedure whose last instruction starts a block of its own has no final return,
`mdata.cpp:856`), `NothingLeaks` (`Runtime`: the `llvm::Module` when no engine
is made, `mdata.cpp:1042`) and `GivenIsStored` (`InstrCode`: the folded
jumps). `PadsLandInside` and `ExceptionReachesHandler` look at the same landing
pads: the first holds and limits the harm of the second. Read in the code, with
no run: `callProc` runs internal procedures too (`mdata.cpp:1082`), while
`src/doc/vm.txt:71` keeps the outside to `PFLAG_EXTERNAL` ones.

### Fairness

Safety needs none. `DroppedIsReclaimed` assumes `WF(DestroyHandle(h))` for each
handle: a handle is a C++ object with a destructor (`module.h:18`), run by the
scope or owner that holds it, and nothing else erases a dropped module
(`runtime.cpp:24-28`). Nothing is assumed of any other call. `Progress` of the
lexer is an action property: each call takes something, so a client that calls
on comes to the end. Compiled code has no liveness property: a jump back may
loop for ever.

## 4. Proofs

**One procedure** (`ProcConProofs`): a lemma for each operator of `ProcCon`, for
every set of registers: the exceptions it can throw, that the record keeps its
type, what it is after success and that it is unchanged after a failure. The
lemmas about `ApplyBeginHandler` say that taking the frame off again restores
the record. They serve the two developments that follow.

**Frames** (`ProcFramesProofs`), for every `PROC_INSTR_MAX`, every offset range
around 0, every set of registers with ED in it (`BoundsAssumption`,
`RegsAssumption`): `TypeOK`, `NoJumpOutOfFrame`, `JumpsLand`, and
`RefusedChangesNothing` as a property of every step. None of the invariants is
inductive by itself; `IInv` adds

* `OpenSinceBegun`: a frame on the stack was open at each instruction since its
  `firstInstr`;
* every jump either has landed, inside the frames it was made in, or is still
  in the `jumps` of a frame on the stack, the innermost one open at the jump.

A pending jump is resolved when the instruction it leads to is added. If its
frame is then the innermost or further out, it lands inside frames still open;
`applyEndFrame` guarantees that a frame does not close over a jump still
pending, `applyBeginFrame` that a frame does not begin at a pending target, and
`applyDefault` with the range checks of `applyInstrIndex` does the rest. There
is one lemma for each way an `addProcInstr` changes the record. All this is in
the builder's count, where an instruction without bytes does no harm; the
properties are about the code, and `CountedAsStored` carries the one over to the
other: until the first such instruction the two count alike.

**Tables** (`BuiltCodeProofs`), for all sizes of the tables and every set of
arguments and instructions a client may offer: `TypeOK` (the limits among it),
`IdsResolve`, `BytesStayInside`. Assumed is `TablesAssumption`: limits are
positive, an element has room for a pointer, byte arithmetic is wider than an
element, and offsets are `uint32_t`.

* `IInv` says that the tables and the created module are sound (`Sound`: typed,
  within the limits, and every id names an entry), that there is one
  construction record per procedure and that each is typed. `IdsResolve` is not
  inductive without the rest: what an operation stores is what a check let
  through, and the check speaks of the tables as typed sequences.
* First what an accepted check says of the ids it saw, one lemma per helper of
  `mbuilder.cpp`; then what adding one entry of each kind does to sound tables;
  then one lemma per call. An entry is never removed except by a reset, which
  takes with it everything that refers to it but the procedure types: so
  `IdsResolve` leaves their registers to `ProcTypesResolve`, which does not
  hold.
* For `BytesStayInside` the step lemmas say that the element size of a register
  in the table never changes, and that a procedure's code is only extended, by
  instructions that were checked, or cleared.

**Accepted code** (`BuiltFramesProofs`), for code of any length
under the same assumptions: `FramesAgree`, `OperandsResolve`, `BlocksFilled`,
`PadsLandInside`, `CallsStayAgreed`. The builder has one record per procedure and
changes it call by call; the generator computes its frames from the code. The
frames at an instruction are a recursive function of the code (`FramesAt`), so
the lemmas about it are by induction on the instruction, over a set of naturals
(`SetInduction`, from the well-foundedness of `<`): what one more instruction
makes of the frames, that they depend on the code before them only, and that
the stack is its own history, each frame lying on the stack it was pushed on.
`FramesInv`, the inductive invariant, says of every procedure being built

* `Agrees`: `FramesAgree`, and that no POP of the code found one frame only. The
  builder's frames mirror those of the code whatever was accepted (`Mirrors`), and
  start where they do if all of it has bytes (`exact`);
* `Landing`: a jump has landed in the code, or a frame of the builder still
  has it in its `jumps`. Without this `createModule` could not know, from the
  one frame that is left, that all targets are there;
* `Guarding`: where a handler has been reached, the frames open there begin
  with those open just after its PUSHH; where it has not, these are still open
  and the handler's frame has the target in its `jumps`. It is what keeps
  `PadsLandInside` while the handler lies ahead: `applyEndFrame` does not
  close a frame that is owed a jump;
* `AllFound`: `OperandsResolve`, in a form a new entry of the tables keeps;

of every procedure of a created module that it is `Complete` (what is left of
these when nothing is pending). `Landing`, `Guarding` and `Complete` are about
procedures of which every accepted instruction is in the code (`AllInCode`);
`IllBuilt` is the step that ends them. It also says that register 0 stays a
top-level one (`PresetTop`), which the operand checks rely on for the preset
register.

`CallsAgree`, that every accepted CALL passes a variable of the callee's IO type,
is not an invariant: a procedure type left over from before a reset may name a
register that is only added after the CALL was compared (`mcBuiltProcTypes`
shows the stale id). `CallsStayAgreed` is the property of each step
that remains, and `ResolvedCallsAgree` proves `CallsAgree` of every behaviour in
which procedure types always name registers.

**Running code** (`ExecutionProofs`), for every heap and every caller's variable
(`RefsAssumption`: references lead to the heap or are null), and every module a
client may build that is `Runnable`: `FramesOnStack` and `CallsKeepToTheirIO`.
`EInv` adds to the invariants of the builder

* `Ready`: the module that runs is complete and its jumps keep the frames open;
* `Stacked`: the cells of each call lie between its own start and that of the
  next call, in the order of its frames, each made for the register and the
  type of its frame (`Placed`), and each call was passed the innermost variable
  of its caller (`Passes`). `FramesOnStack` alone does not survive a return: a
  caller's cells must be known to lie below those cut off.

There is one lemma per action. A loop or a handler gets to its target with the
frames it left, since `KeepsFrames` and `PadsLandInside` hold of the code; `env`
then still names the cells of the frames open there, as each is the latest one
its PUSH made. What KeepsFrames demands of jumps the builder does not check
(`mcProcFramesJumps`), so the theorems are about code that keeps to it.

**Reference counts** (second part of `ExecutionProofs`), under the same assumptions:
`CountsExact`. The references that count are in the heap and in the cells of
frames that are open (`Open`), so a step may write a cell, and may open or close
cells. The inductive invariant `CInv` adds one fact to it, that the first call
begins just above the cell of callProc's caller (`Based`), and rests on `EInv`.

* `OpenFacts` and `OpenSplit`: the cells of different frames and of different
  calls are different cells, by `Stacked`. So what leaves `Open` when a frame or
  a call is left is exactly what the generated cleanup releases, or what the
  code abandons (`leaks`).
* `WriteExact` and `StillExact` are the two ways a step keeps the counts: it
  moves the reference of one cell or element, having retained the new and
  released the old one; or it releases the cells it takes out of `Open`. That a
  heap variable is not counted too low for a release is part of the induction.
* `UnwindCounts` is the longest: an exception releases, pad by pad, the frames
  of each call down to a handler. `Guarding` says that the handler is reached with
  the frames its PUSHH found, and `SplitCount` divides the cells of the call
  left into those released and the one the first frame abandons.

**Runtime** (`RuntimeProofs`), for every set of ids and every finite set of
handles: `TypeOK`, `RefsMatchHolders`, `HeldIsMapped`, `DroppedIsHeld`; the
inductive invariant joins them with what is left of a module that is not in the
map (`UnmappedIsGone`). The count is a cardinality, so the lemmas are about
adding one handle to and removing one from a finite set of holders.

**Instructions as bytes** (`InstrCodeProofs`), for groups and numbers of any
size, any bytes left uninitialized and any instructions a client may construct
(`GivenAssumption`: an opcode, and operands of the types of the constructors'
parameters, `ParamType`). `InstrAssumption` has what the code's limits are to
the groups: at least five bytes to a number (the code has nine), table ids of
at most two bytes (`vmdefs.h:14-26`), 32-bit numbers of at most six of the nine.

`WalkedIsChecked`. How long a number is, and what it is, depends on
its own bytes only (`NumberSame`), so an instruction is the same in the object
it was checked in, followed by what was not initialized, and in the code,
followed by the next one (`InstrSame`). The inductive invariant is that the code
is the checked instructions one after the other (`Walk`); the property compares
them with a walk, a recursive function, by induction on the instruction.

`OperandsKept` and `LegalIsAccepted`, from a second invariant (`GivenInv`: an
accepted instruction was checked as it reads in its object, and the last verdict
is that of the instruction offered). They come down to what reading makes of a
number as it was written. `Power` and `ValueOf` are recursive functions with
natural arguments, so that what they are can be proved by induction over them
(`PowerIs`, `ValueIs`): an unsigned number is read as it was written
(`UIntWritten`). A signed one is written in one of three forms (`FormFacts`), of
which two are read as the number, or as one that `Folded` names, and the third
ends in a byte that announces another (`IntWritten`). Such a number runs on into
the bytes after it; only a jump is signed, jumps come last in an instruction
(`JumpIsLast`), and what comes of running on is out of a jump's range or again
in `Folded` (`RunsOnFolds`). A jump in range takes one byte and is read as it
was written (`SmallIntWritten`). `Layout` sets the operands side by side in the
object, `OneOperand` reads one of them there, and `LegalFits` adds up what those
of a legal instruction take: no more than the object holds, but for `TooLong`.

The proof corrected the model: `Folded` had named only the jumps of which the
lowest group alone is left, such as -16257 (read as -1). `IntWritten` could not
be proved of jumps of which more is left, such as -2080769 (read as -1 too);
TLC found a small case of them once the run offered it, and `Folded` and the
run's jumps now cover the family.

**Lexer** (`LexerProofs`), for texts of any length: `Progress`,
`LocationIsTrue` and `TextIsInput`. `CharsFacts` says that reading comes to the end of any text,
each character ending after it began, or within the text when it is cut off;
`ReadCharFacts` that a character put back is as long as it was when it was read. So a call that does not report the end
leaves the stream after the first character that is not white space.

`LocationIsTrue`, with the moduli and the texts left open but for a modulus of 1,
with which no location is the first one. The inductive invariant (`PInv`): until
`misled`, there is a number of characters of the text after which the stream
stands, and `loc` is the place after them (`Place`). The property itself is not
inductive: it does not say that the stream stands at the end of a character, and
from inside one the reading goes on with other characters. `ReadOn` says that
what is read from such a place is the rest of the text, `PlaceStep`,
`PlaceColumns` and `AdvancedIs` that each of the three ways of counting leads
from place to place, around the modulus too, `StringPlace` and `TokenPlace` that
every kind of token uses them for what it takes and nothing else.

`TextIsInput` says of a symbol that it is a whole word, which depends on where
the call before left the stream. The invariant (`TextInv`) adds that: until
`misled`, the stream stands at an end of the text or next to a delimiter.
`SkippedEnd` says that what is skipped before a token, comments included, ends
with white space, `TokenText` what each kind of token leaves. The text of a
symbol is a concatenation (`FlattenSeq`, which `FlattenParts` and
`FlattenAppend` make one of any length) of the bytes each character stands for
(`PlainThere`), joined without a gap (`ChainStep`, `FromJoins`, `WordText`). For
a string (`StringText`) the induction is over its characters, with the stream's
place one character behind while a backslash waits for what it escapes;
`EscapedStep` is the rule of the code's loop, from the count of backslashes the
model has. `TextOf` is a recursive function for that proof, a step of it a turn
of the loop.

**Refinement** (`RuntimeProofs`): `Spec => ImplementsStore`, each step of
`Runtime` mapped to a step of `ModuleStore` or a stutter, under
`StoreView` (`data` seen as a life: absent, packed, unpacked, dropped).

Model-checked only: `DroppedIsReclaimed`, as liveness under fairness is out of
the prover's reach.

## 5. Not modelled

* Copies of a `Module` object: the implicit copy constructor shares the iterator
  without retaining; nothing in the repository makes one.
* The lifetime of the `UUID` that `ModuleData` refers to (`mdata.h:111`): it is a
  local of `createModule` (`mbuilder.cpp:333`, passed on at `runtime.cpp:32`), gone
  when `unpack` reads it to name the `llvm::Module` (`mdata.cpp:1038`).
* `Instr(OpCode)` with an opcode that has operands (`instr.h:20`): it leaves them
  uninitialized, and in the repository only `opcodeMnemonic` calls it. Instructions
  here come from the constructors with operands, or are an `Instr()`; `Instr::set`
  on bytes (`instr.h:21`) gives what one of the former gives.
* LLVM: its types, values, linkage and optimisation passes. What the emitted
  code does is modelled, what LLVM makes of it is not.
* In `Execution`: bytes and element numbers; variables with several references
  or elements (the loop of `emitCleanupRegFrame`, `mdata.cpp:541`, is only right
  for one); the check of element 0 of a reference that is not fixed
  (`mdata.cpp:296-312`), which every variable of the modelled heap passes; top-level
  registers, which are LLVM globals and belong to no frame;
  several calls of `callProc` in a row, each of which starts from an empty stack.
* In `Lexer`: the values of numbers, whose extraction is the standard library's,
  and the exponent of a real; characters of more than two bytes.
* `prefs`, which nothing fills; `addVarTypePRef` and `Module::isExistent`,
  declared and never defined.
* Support code (`exception.h`, `singleton.h`, `farray.h`, `math.h`, an empty
  `main.cpp`), debug traces, mnemonics, the tests and Makefiles.
