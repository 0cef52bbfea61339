# A TLA+ verification of m68kdasm

m68kdasm is a Go library that disassembles Motorola 68000 code. This directory
holds TLA+ models of its core, TLC configurations that check them on small
instances, and proofs, checked by TLAPS, that the most important properties
hold for every instance.

## The system

| Component | Code | State | Operations | Here |
|---|---|---|---|---|
| Decode loop | `disasm.go` 37-221 | the bytes collected, the opcode, `readUntil`'s target, the last read's `n, err` | `Decode`, `DecodeReaderAt`, `DecodeFunc` -> `decodeInstruction` -> `readUntil` | modelled |
| Range walk | `disasm.go` 78-97 | `offset`, the instructions so far | `DisassembleRange` | modelled |
| Opcode table | `internal/decoders/types.go` | none (a constant table) | `FindDecoder` | modelled |
| Addressing modes | `internal/decoders/addressing.go` | none | `decodeAddressingMode`, `decodeEA` | modelled |
| Instruction decoders | the other files of `internal/decoders` | none | one function per instruction family | modelled |
| Register lists | `internal/decoders/special.go` 60-117 | the loops' indices | `formatRegisterList`, `formatRegisterRange` | modelled |
| Metadata, symbols | `disasm.go` 204-354, `types.go` 305-385 | the instruction being built, the operands rendered | `setInstruction`, `finalizeInstruction`, `formatOperands`, the `Symbolizer` callback | modelled |
| ELF helper | `elf.go` | the open file, the map being filled | `OpenELF`, `Close`, `ListSections`, `DisassembleSection`, `DisassembleAllExecutableSections` | modelled |

There are no goroutines and nothing is stored. `decodeInstruction` calls
`FindDecoder`, then the decoder on all bytes it has; a decoder that runs out of
bytes returns a `NeedMoreError`, on which `decodeInstruction` either returns a
`PartialDecodeError` (a byte slice: nothing more to be had) or fetches what is
missing through the caller's reader, by callback, and runs the decoder again
from scratch. `DisassembleRange` calls `Decode` on one suffix of its slice after
another; the ELF helper calls `DisassembleRange` once per section.

What is hard is therefore not inside one function but between them:

* the callback: the reader may deliver fewer bytes than asked for, an error with
  or without bytes, or nothing at all, and on a bus the memory may change between
  two reads of one instruction;
* the retry: a count computed for fewer bytes is used after more have come, and
  the decoder, run from scratch, must say of the longer slice what fits its
  verdict on the shorter one;
* the second callback: while an instruction is being formatted the symbolizer has
  control, and may reuse the slice the bytes came from;
* the two descriptions: the decoders give each instruction's operands as text and
  again in structured form, and with a symbolizer the text is made anew from the second;
* the end: how much is read (not a byte behind the instruction), that the call
  ends, what a slice cut inside an instruction leads to, and addresses that wrap
  at 2^32.

The full list, line by line, is under `hazards` in `PROJECT.json`.

What makes each component correct: a *decoder* reports a size within its bytes
or a shortage that shrinks byte for byte as bytes arrive; the *loop* answers what
`Decode` says about the bytes delivered, reads nothing behind the instruction and
returns; the *walk* tiles the slice without a gap and stops for a reason; the
*register list* text denotes exactly the mask; *metadata* agrees with the text, is the
caller's to keep, and names the address the processor would use; the *ELF helper*
returns all of every executable section, or no map.

## The modules

    Verdicts            what a decoder can report, the cursor from operand to operand
     +- Addressing      extension words of each addressing mode
     +- OpcodeTable     opcodeBuckets, FindDecoder
     |   +- Decoders    every decoder function: (decoder, opcode, length) -> verdict
     |       +- GrowingSlice   a caller that retries Decode as bytes come in
     |       +- Mnemonics      the name each decoder gives
     |       +- Operands       the operands each decoder describes, as text and structure
     |           +- Rendering  setInstruction, finalizeInstruction, formatOperands
     +- Answers         what decodeInstruction answers about given bytes
         +- DecodeSpec  the promise of one call (abstract)
         +- DecodeLoop  decodeInstruction and readUntil, step by step
         +- RangeWalk   DisassembleRange
             +- ElfSections    the ELF helper, its walks being RangeWalk's
    RegisterList        formatRegisterList, formatRegisterRange
     +- RegisterLists   two of their calls
    MC*                 instances for TLC; the real Decoders fill Answers' parameters
    *Proofs             theorems and proofs of the module named

**Verdicts, Addressing, OpcodeTable, Decoders** are operators. A decoder of the
code is a chain of `requireLength` checks and offset advances that returns at its
first error. Here it is a chain of `Fetch` steps over a verdict that doubles as the
cursor: `Ok(size)` is "so far so good, the offset is `size`", `More` and `Error` pass
through. No decoder looks at the value of an operand word before it decides how
long the instruction is, so a verdict is a function of the decoder, the opcode word
and the number of bytes, which is why `Decode(decoder, op, len)` needs no bytes.
(MOVEM and the index words use their values only for text.) The
table is written out pattern by pattern, and masks are compared bit by bit.

**Answers** gives meaning to `Decode`: `Outcome(bytes)` is an instruction, a partial
error or another error. It takes the opcode table and the decoders as parameters
(`Known`, `Verdict`) with an assumption, `DecoderContract`, that says what the loop
relies on: `Bounded` (success within the bytes, or a request for at least one more
that stays within `MaxLen`) and `Continues` (how a verdict on a prefix restricts the
one on a longer slice).

**DecodeLoop** has one action per block of `decodeInstruction` and `readUntil`:

| Action | Code |
|---|---|
| `FetchOpcode`, `HaveOpcode` | `disasm.go` 105-117: fewer than two bytes or not |
| `Dispatch` | 119-143: `FindDecoder`, or the `DC.W` fallback |
| `RunDecoder` | 145-170: run the decoder; return, or enter `readUntil` |
| `Read` | 175-180: one `ReadAtAddress`; what came is appended before `err` is looked at |
| `Enough` | 181-183: target reached, the error is dropped |
| `GiveUp` | 184-189 and 168-170: error or empty read -> partial error |
| `ReadAgain` | 190: a short read, once more |
| `MemoryChanges` | not code: the rest of the machine writes to what the reader shows |

`image` is what the reader can see, a partial function from addresses to bytes;
how many bytes a read delivers, and whether it fails, is the reader's choice. A
read is only assumed to honour `io.ReaderAt`: a count between 0 and the length of the chunk.

**DecodeSpec** is the abstract call: bytes are delivered while the answer about them
would be a partial one, never more than that answer reports missing, and the reply
is `Outcome` of what was delivered. DecodeLoop implements it under
`delivered <- data, reply <- answer`.

**GrowingSlice** is the other way to use the API: a caller that holds part of an
instruction, calls `Decode`, and calls again whenever some of the missing bytes have
come in. Its steps are the caller's and stand for no code of the library (they are marked external); what
the library does in them is `DecodeSlice`.

**RangeWalk** has one action per way round the loop of `DisassembleRange`:
`DecodeNext`, `StopAtError`, `ReachEnd`. A call of `Decode` is one step there, as it
does not interact with anything; that it answers `Outcome` is what DecodeLoop shows.

**ElfSections** composes a file with the walk: `Walk` is a step of RangeWalk's `Next`,
on its variables, while a section is being disassembled.

| Action | Code |
|---|---|
| `OpenELF`, `Close`, `ListSections` | `elf.go` 14-37, 49-70 |
| `DisassembleSection` | 41-46: the first section of the name, or an error |
| `DisassembleAllExecutableSections`, `SkipSection` | 84-91: the loop and its `continue` |
| `ReadSection`, `ReadFails` | 104-112: `section.Data()`; the address is cut to 32 bits |
| `CollectSection`, `SectionFails` | 93-98: into the map, or the whole call fails |
| `ReturnAll`, `ReturnSection` | 101, 46 and 111 |

`debug/elf` is modelled from its use: headers stay readable after `Close`, contents do not.

**RegisterList** has an action for each bit of the mask (`TestBit`) and for each way through the two nested
loops of `formatRegisterRange` (`StartRange`, `ExtendRange`, `CloseRange`). A mask is a
set of registers, a text the sequence of its ranges, without slashes and dashes.

**Operands** and **Mnemonics** are operators again: what each decoder hands to `setInstruction`, from the
instruction's words. A text is a tuple of what is printed, so two operands have the same
text exactly if the code prints them alike; values keep their widths and signs.
Operands are described twice, as in the code, and `reads` remembers which words one was made of.

**Rendering** takes such an instruction through to the caller:

| Action | Code |
|---|---|
| `RunDecoder` | `common.go` 41-55 and `types.go` 305-325; `Bytes` is still a part of the caller's slice |
| `Finalize` | `disasm.go` 204-311: copies, converts, and decides whether to format |
| `Ask` | 325-341: one question to the symbolizer, in the order branch target, resolved, absolute |
| `ShowText` | 343: no address, or none that has a symbol |
| `Join` | 318-322, 346-354 |
| `ReuseBuffer` | not code: the caller's slice after the return (`Ask` has the same during a callback) |

The symbolizer may answer each question as it likes, also differently to the same question.

Abstracted throughout: wording and punctuation, also of errors (an error is a reason; a branch's
context omits its condition); and the copies of a value in `EffectiveAddress` that only repeat the text
(`Mode`, `Base`, `Displacement`, `Index`).

## What is checked with TLC

| Run | Instance | What it shows |
|---|---|---|
| `decode_loop` | 6 opcodes of different shape, 9 memories, 8 addresses, slices up to 12 bytes, one memory change | `AnswersWhatWasDelivered`, `NoByteTooMany`, `BytesAreMemory`, `SliceAgrees`, `CauseIsTheLastRead`, the inductive invariant `IInv`, the refinement `ImplementsPromise`, and `Returns` |
| `growing_slice` | all 65536 opcode words, every way to portion the bytes | `EndsWithTheInstruction`, `NeverBeyondTheLongest`, `CountsDown`, `Settles`; and `MostSpecificFirst`: the order of the opcode table hides no special encoding behind a general one |
| `range_walk` | two or three instructions of 7 kinds in every order, cut off by 0 to 3 bytes, from each of 8 start addresses | `Adjacent`, `Tiled`, `StopsForAReason`, `CutShort`, the inductive invariant `WalkIInv`, `WalkReturns` |
| `elf_sections` | files of up to three sections out of eight, every sequence of calls | `MapIsWhole`: a map covers the last executable section of every name, from first byte to last; `CallsAgree` between the two methods; the inductive invariant `ElfIInv`; `CallsReturn` |
| `register_list` | all 65536 masks | `TextIsMask`, `RangesAreMaximal`, the inductive invariant `RegIInv` |
| `rendering` | every form of every instruction, with and without symbolizer | `SilentSymbolizer`, `SymbolsInPlace`, `BytesOutliveBuffer`, `WordsUsedOnce`, `ImmediatesFit`, `AsksForTheAddressMeant`, `EveryBitShows`, the inductive invariant `RenderIInv` |

Three of these say exactly where the code departs from what one would wish, because a
property without the exception is false and one with a vague exception is empty. `TextIsMask` holds but for the masks whose
data registers end one number below their first address register (`Straddles`).
`AsksForTheAddressMeant`: the address the symbolizer is asked about is the processor's, but for
branches with displacement words, whose target is too high by the size of those words
(the tests, `disasm_test.go` 208-210, expect the code's value), and for absolute short
addresses from $8000, which are not sign-extended. `EveryBitShows`: flipping any bit of an opcode
word changes the text, but for a shift's type, which the code reads from the count field instead of
its place, and for the direction of an operation between a register and itself. So the first of these
faults is recorded in the property, as an equivalence, and not ruled out by it. `ImmediatesFit` goes by the
size the code itself gives: that ADDI.B, SUBI.B, ANDI.B, ORI.B, EORI.B and CMPI.B keep the high byte of
their immediate's word and call it two bytes long does not violate it; a byte immediate in an effective
address that kept it would.

Bounds. The opcodes of `decode_loop` cover each way a call can go: no operand word,
one, four in two operands (so two rounds of the retry loop), an error at once, an
error behind an operand, and no decoder; every other instruction has one of these
shapes, and `growing_slice` goes through all of them. The slices exceed the longest
instruction (ten bytes) by two, so that bytes behind an instruction exist. Memories are full of
one instruction, or cut off in the middle of it; one differs beyond the top of the address space from
what it has at the bottom. `AddressSpace = 8` makes ten-byte
instructions wrap, at every alignment. One change of the memory during a call
(`MaxChanges`) is enough to mix two instructions in one, the proofs need no bound.
The walk's slices put every kind of instruction behind every other, and cut the last one at each of its last three bytes.
The ELF sections include two of one name, an empty one, one that ends inside an
instruction, one that does not decode, ones that are not executable, and addresses beyond `AddressSpace = 8`;
three of them are enough for a replaced, a kept and a failing one in any order. The instance of `rendering` takes register
fields 0 and 5 and count fields 0 to 4 (the border between the two forms of a shift is 3/4), three
tuples of extension words with and without sign bits, and every displacement byte of a
branch; the instruction lies at the end of an address space of 2^20 bytes, because TLC's own
integers have 32 bits. Nothing in the models depends on the number but that it is a multiple of 2^16.

Fairness. `WF(Step)` in DecodeLoop: `decodeInstruction` never waits for anything but
the reader's return, so a call whose reads return takes its next step. It is not
assumed that the reader ever delivers. `WF(Next)` in RangeWalk: the loop waits for
nobody. `WF(Library)` in ElfSections: the two methods wait only for the file system; the caller need not
ever call again. `WF(Next)` in GrowingSlice is about the caller, not the library: `Settles`
says that *if* the caller keeps supplying bytes, it gets an answer. TLC's deadlock check is
off where a state machine ends: a call that has returned takes no further step.

### Where the code and its documents disagree

Six runs end in a counterexample; each checks what a document of the repository says.

* `unknown_falls_back` - `copilot-instructions.md`: "Unknown opcodes fall back to
  `DC.W $XXXX`". An opcode that a broad pattern claims and its decoder rejects, such as
  `$00C0`, is an error instead, and stops `DisassembleRange`.
* `long_immediate_is_long` - `README.md`: "`Instruction.Size`: exact decoded byte
  length". ANDI.L, ORI.L, EORI.L and CMPI.L are decoded with a two-byte immediate.
* `missing_is_exact` - `README.md`: "Precise partial-decode errors that report
  missing-byte counts". The count is that of the next operand only.
* `streamed_example` - the README's `io.ReaderAt` example calls
  `DecodeReaderAt(reader, 0x1000)` on a six-byte reader; the address is also the
  offset, and the call fails with a partial error.
* `every_executable_section` - `elf.go` 82: "disassembles all executable sections". Of
  two executable sections of one name the map has only the last.
* `same_text_same_mask` - `copilot-instructions.md`: "Verify reconstructed assembly exactly
  matches source". The lists D0/D1/A2 and D0/A1/A2 are both printed D0-A2.

The two findings about lengths do not touch the properties above: those say
that the library is consistent with itself, not with the processor's manual.

## What is proved

Assumptions (`ASSUME` in the modules, evaluated by TLC in every run): bytes are
0..255, `MaxLen >= 2`, callers' slices are sequences of bytes no longer than `MaxLen`,
the address space is not empty, memories map addresses to bytes, a file's sections are
sections, masks have bits 0 to 15, an instruction to be rendered is a sequence of 16-bit words that
its decoder accepts, there the address space is a multiple of 2^16 and larger, and `DecoderContract`. Nothing is assumed about how many opcodes there are, what the
reader does or how often the memory changes.

1. **DecodersProofs** - `DecodersHonourContract`: every decoder function,
   on every opcode and any two lengths, is `Bounded` by ten bytes and `Continues`.
   `LibraryContract` says the same in the words of `DecoderContract`, for the decoder that
   `FindDecoder` names and any `MaxLen >= 10`: the one assumption about the decoders is discharged.
   The contract is compositional: `Twins(c, len, d, m, limit)` relates the cursors of one
   chain of operands run on `len` and on `m >= len` bytes, `FetchTwins` shows that one more
   operand keeps it, and each decoder is a few such steps. `FindDecoderFindsADecoder`
   closes the gap between the table and the decoders. `FirstIsMostSpecific`: the first pattern that
   matches fixes every bit that any other matching pattern fixes. Of each two patterns of a bucket
   either the later one's mask is contained in the earlier one's, or a bit that both fix differently
   tells them apart (`BucketsOrdered`); only the nibble 4 needs the second.
2. **GrowingSliceProofs** - all safety properties of the run for every set of opcodes,
   from `IInv`: the verdict is the one on the bytes held, and a success ends with them.
3. **AnswersProofs** - a final answer does not depend on what follows the instruction; an
   instruction fits the bytes it came from.
4. **DecodeLoopProofs** - `Invariance` (`Spec => []IInv`) and from it all safety properties of
   the run, and the refinement `LoopImplementsPromise`. The properties alone are not inductive:
   they speak of the end of the call, and say nothing of a count that was computed
   two reads ago. The core of `IInv` is `InRead`: while `readUntil` is short of its
   target, the decoder - although last run on fewer bytes - would ask for exactly the
   bytes missing; at the target, a success would end there. `Read` keeps this because of
   `Continues`, and `GiveUp`, `Enough` and `RunDecoder` live on it.
   `NoByteLost` proves `BytesAreMemory`, across the top of the address space too. What the bytes are
   there depends on where the reads were cut: each read is at the wrapped address but goes on
   linearly (`disasm.go` 177). A byte therefore has up to two `Places`, its address cut to the
   address space and, within a read that crossed the top, the one beyond; no read begins beyond.
   Two consequences go further than the run. `StreamsWhatSlicesHold` joins the two ways into
   the library: streaming from a memory that nobody writes to finds what `Decode` finds in a
   slice copied from there (`CopiedFromMemory`; across the top this asks that the memory repeats itself
   there, below it asks nothing: `BelowTheTop`). `CallsAreFinite` is the safety half of `Returns`: `Fuel`, six for every
   byte that may yet come and less than six for the way to the next read, is a natural number that
   every step of the call decreases. It needs one more invariant, `NothingCame`: behind
   a read that delivered nothing, the target is not reached, so that the only way leads out.
5. **RangeWalkProofs** - `WalkIInv` and all safety properties of the run.
   `Adjacent` has to be carried with the offset, because the address of an
   instruction is computed from the offset and compared with one computed from its predecessor;
   the lemma `Wraps` (in AnswersProofs) shows that the two agree modulo any address space.
   `Tiled` and `CutShort` speak of sums and concatenations along the list of
   instructions. The library's induction theorems cannot be instantiated here, but an induction whose
   statement is membership of a *set* of numbers needs none of them: `Induction` follows
   from the least number outside the set (`Least`). The invariant carries `Walked`: each
   instruction found is what `Decode` says at the end of those before. With that `Listing` says what the
   loop computes without the loop. `NothingLost` and `CutShortHolds` prove the two properties; the second
   rests on `OutcomeFits`: by the contract, an instruction that fits into a
   shorter slice is found there too. `OneListing`: there is exactly one listing of a
   slice at an address, and that is what is returned. `StandsAlone`: `Decode` finds each
   instruction again in every slice that begins with its `Bytes`. `ComesNearer`, the safety half
   of `WalkReturns`: the bytes left decrease with every round.
6. **ElfSectionsProofs** - `ElfInvariance`, and from it `MapCovers`, `CallsAgreeHolds` and type correctness, for
   every file. The invariant adds to RangeWalk's, which is used as proved, that the map is
   complete up to the section the loop is at (`ResultSoFar`); `WalkCovers` turns the end of a
   walk without an error into a listing of the whole section. Sections of one name make the
   difference to the obvious invariant: only the latest of a name is covered.
   That two calls made at different times agree is not a fact about either of them: `ListingsRight`
   says that each answer that is kept is a `Listing` of its section, and a section has only one.
   `CallsComeNearer` is the safety half of `CallsReturn`: `Work`, a fixed allowance
   for every section still to be visited (`PerSection`, more than any walk has left) and for the present
   one what its walk has left (`Left`), is decreased by every step that is not the caller's.
7. **RegisterListProofs** - `TextExact`: for every mask the text names exactly the
   registers of the mask unless the mask straddles the two kinds, and then never; and
   `Maximal`. The invariant follows the inner loop: the range being followed has consecutive numbers
   (`OpenRange`), the ranges written stand for all registers before it (`ClosedRanges`), and
   the converse for straddling masks needs that the last data register and its follower are in one
   range, which is why `ClosedRanges` speaks of a register's successor.
8. **RenderingProofs** - every safety property of the run but `EveryBitShows`, for all opcode words,
   all extension words, every address and every behaviour of the symbolizer and of the caller. It has two
   halves. What a decoder describes is a pure function, and is proved decoder by decoder, one
   lemma each: the operands use the words behind the opcode once, as many as the length
   checks of Decoders count (this ties the two readings of the same code together), their immediates are
   in range, and their addresses are the processor's but for the stated exceptions.
   Here the arithmetic of wrapping addresses and of their 64 KiB pages is needed, hence the
   assumption on the address space. What becomes of the description is an
   invariant, `RenderIInv`. `SymbolsInPlace` is about the end of `formatOperands`; on the way
   there one has to know that the operands before the current one are `Settled`, that no address of the
   current one was answered, and that every address it has was refused or is still to be asked about
   (`AskedInOrder`). `BytesOutliveBuffer` needs that nothing was written to the slice before
   `finalizeInstruction` copied it (`DescribedOnce`), and that the instruction is
   made of copies alone (`OwnInstruction`).

Only model-checked:

* liveness (`Returns`, `WalkReturns`, `Settles`, `CallsReturn`), which needs fairness. For all but `Settles` the
  proved part is that a call or walk cannot take steps for ever; that it takes them is left to TLC;
* `EveryBitShows`. It compares the text of two different
  instructions, so a proof would go through pairs of decoders, not decoders; its run has all
  instructions with two register numbers and three sets of extension words;
* that the instances, the real decoders among them, satisfy the assumptions
  (for `DecoderContract` this is 1. above as well).

## Not modelled, and why

* The copies of a value in `EffectiveAddress` that repeat the operand's text, and
  `RegisterList []string` next to its text: the library never reads them again.
* The `Error()` and `String()` methods, and the German or English wording of errors: formatting.
* `debug/elf`: a library; how it parses a file, and a file that changes while it is open.
* Readers that break the contract of `io.ReaderAt` (a count below zero or above the
  chunk's length): the code does not defend itself against them.
* `OpcodeTable`, the flattened table: only tests use it.

Seen while modelling, with no document to hold it against: the register forms of the bit
instructions are recognised with D2 alone (`types.go` 203, `$0500` under mask `$FFC0`); the second MOVEM
pattern never matches (its value has a bit its mask lacks) and the first covers EXT; CMPA.L with an
address register as source is named `CMPM.?`; MOVEM
to D0 has an empty operand; the reversed mask of MOVEM to `-(An)` is not
reversed; PC-relative operands are never shown to the symbolizer.

## What is left

* `EveryBitShows` for all register numbers and extension words: one lemma per pair of decoders whose
  patterns are one bit apart, and one per decoder for the bits of its operands.
