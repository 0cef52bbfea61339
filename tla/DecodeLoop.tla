----------------------------- MODULE DecodeLoop -----------------------------
(***************************************************************************)
(* decodeInstruction and readUntil (disasm.go): one call of Decode,        *)
(* DecodeReaderAt or DecodeFunc, step by step, against a reader that may   *)
(* deliver short, fail, deliver nothing, or show a memory that changes     *)
(* between two reads.                                                      *)
(*                                                                         *)
(* Outside the call: `image` is what the reader can see (a file, a bus), a *)
(* partial function from addresses to bytes; the counts and errors in Read *)
(* are the reader's choice, MemoryChanges is the rest of the machine.      *)
(***************************************************************************)
EXTENDS Answers

CONSTANTS
  AddressSpace,  \* 2^32 in the code: addresses are uint32
  Images,        \* what a reader may see
  MaxChanges     \* bound on the changes of the memory during the call

ASSUME AddressSpaceAssumption == AddressSpace \in Nat \ {0}

ASSUME ImagesAssumption ==
  \A im \in Images : /\ DOMAIN im \subseteq Nat
                     /\ im \in [DOMAIN im -> Byte]

ASSUME MaxChangesAssumption == MaxChanges \in Nat

VARIABLES
  pc,       \* where decodeInstruction is
  source,   \* "slice": reader == nil; "reader" otherwise
  address,  \* the instruction's address
  data,     \* the bytes collected
  opcode,   \* the opcode word, once read
  need,     \* readUntil's target length
  context,  \* what the missing bytes are for
  n, err,   \* the last ReadAtAddress's count, and whether it failed
  answer,   \* the call's result, or NoAnswer
  cause,    \* the Cause of a partial error: "none", "reader" or "eof"
  image,    \* what the reader sees now
  changes   \* how often the memory has changed

vars == <<pc, source, address, data, opcode, need, context, n, err, answer, cause,
          image, changes>>

\* The memory, and the arguments of the call.
outside == <<source, address, image, changes>>

\* Before the opcode word is read.
NoOpcode == -1

Init ==
  /\ pc = "entry"
  /\ address \in 0..(AddressSpace - 1)
  /\ image \in Images
  /\ \/ source = "slice"  /\ data \in Slices
     \/ source = "reader" /\ data = << >>
  /\ opcode = NoOpcode
  /\ need = 0
  /\ context = ""
  /\ n = 0
  /\ err = FALSE
  /\ answer = NoAnswer
  /\ cause = "none"
  /\ changes = 0

-----------------------------------------------------------------------------
Return(result, why) ==
  /\ pc' = "done"
  /\ answer' = result
  /\ cause' = why

\* Mutation: readUntil is given a count, and takes it for more than there is.
ReadUntilCounts(target, what) ==
  /\ pc' = "read"
  /\ need' = Len(data) + target
  /\ context' = what

\* Mutation: the word behind the operand is fetched along with it.
ReadUntilPrefetches(target, what) ==
  /\ pc' = "read"
  /\ need' = target + 2
  /\ context' = what

\* readUntil is entered with a target length.
ReadUntil(target, what) ==
  /\ pc' = "read"
  /\ need' = target
  /\ context' = what

\* len(data) < 2: a partial error, or a read of the opcode word.
FetchOpcode ==
  /\ pc = "entry"
  /\ Len(data) < 2
  /\ \/ /\ source = "slice"
        /\ Return(Partial(Len(data), 2 - Len(data), "opcode"), "none")
        /\ UNCHANGED <<need, context>>
     \/ /\ source = "reader"
        /\ ReadUntil(2, "opcode")
        /\ UNCHANGED <<answer, cause>>
  /\ UNCHANGED <<outside, data, opcode, n, err>>

HaveOpcode ==
  /\ pc = "entry"
  /\ Len(data) >= 2
  /\ pc' = "dispatch"
  /\ UNCHANGED <<outside, data, opcode, need, context, n, err, answer, cause>>

\* FindDecoder; an opcode without a decoder is a data word.
Dispatch ==
  /\ pc = "dispatch"
  /\ opcode' = OpcodeOf(data)
  /\ \/ /\ OpcodeOf(data) \in Known
        /\ pc' = "decode"
        /\ UNCHANGED <<answer, cause>>
     \/ /\ OpcodeOf(data) \notin Known
        /\ Return(Instruction(2, SubSeq(data, 1, 2), TRUE), "none")
  /\ UNCHANGED <<outside, data, need, context, n, err>>

\* The decoder runs from scratch on all bytes collected so far.  Only a
\* NeedMoreError with a reader at hand leads to another round.
RunDecoder ==
  /\ pc = "decode"
  /\ LET v == Verdict(opcode, Len(data))
     IN  \/ /\ v.kind # "more" \/ source = "slice"
            /\ Return(Answer(v, data), "none")
            /\ UNCHANGED <<need, context>>
         \/ /\ v.kind = "more" /\ source = "reader"
            /\ ReadUntil(Len(data) + v.missing, v.context)
            /\ UNCHANGED <<answer, cause>>
  /\ UNCHANGED <<outside, data, opcode, n, err>>

-----------------------------------------------------------------------------
\* Mutation: every read starts at the instruction's address.
ReadAddressOfInstruction == address

\* Mutation: the address of the next read is not cut to 32 bits.
ReadAddressUncut == address + Len(data)

\* address+uint32(len(*data)): the address of the next read wraps.
ReadAddress == (address + Len(data)) % AddressSpace

\* The `count` bytes the reader delivers for a read at `at`: linear from
\* there, wherever that leads, and no more than the image holds.
Holds(at, count) == \A i \in 0..(count - 1) : at + i \in DOMAIN image
Bytes(at, count) == [i \in 1..count |-> image[at + (i - 1)]]

\* Mutation: the chunk is as long as the target, whatever there is already.
ReadWholeTarget ==
  /\ pc = "read"
  /\ n' \in 0..need
  /\ Holds(ReadAddress, n')
  /\ err' \in BOOLEAN
  /\ data' = data \o Bytes(ReadAddress, n')
  /\ pc' = "check"
  /\ UNCHANGED <<outside, opcode, need, context, answer, cause>>

\* One ReadAtAddress: any count up to the chunk's length, with or without an
\* error; what was delivered is appended before the error is looked at.
Read ==
  /\ pc = "read"
  /\ n' \in 0..(need - Len(data))
  /\ Holds(ReadAddress, n')
  /\ err' \in BOOLEAN
  /\ data' = data \o Bytes(ReadAddress, n')
  /\ pc' = "check"
  /\ UNCHANGED <<outside, opcode, need, context, answer, cause>>

\* len(*data) >= need: back to the caller of readUntil, error or not.
Enough ==
  /\ pc = "check"
  /\ Len(data) >= need
  /\ pc' = IF opcode = NoOpcode THEN "dispatch" ELSE "decode"
  /\ UNCHANGED <<outside, data, opcode, need, context, n, err, answer, cause>>

\* Mutation: the count is the one of before the last read.
GiveUpWithStaleCount ==
  /\ pc = "check"
  /\ Len(data) < need
  /\ err \/ n = 0
  /\ Return(Partial(Len(data), need - (Len(data) - n), context),
            IF err THEN "reader" ELSE "eof")
  /\ UNCHANGED <<outside, data, opcode, need, context, n, err>>

\* Mutation: a truncated instruction is taken for a data word.
GiveUpAsDataWord ==
  /\ pc = "check"
  /\ Len(data) < need
  /\ err \/ n = 0
  /\ Return(IF Len(data) < 2 THEN Partial(Len(data), need - Len(data), context)
            ELSE Instruction(2, SubSeq(data, 1, 2), TRUE),
            IF err THEN "reader" ELSE "eof")
  /\ UNCHANGED <<outside, data, opcode, need, context, n, err>>

\* Mutation: n == 0 is looked at before err.
GiveUpEOFFirst ==
  /\ pc = "check"
  /\ Len(data) < need
  /\ err \/ n = 0
  /\ Return(Partial(Len(data), need - Len(data), context),
            IF n = 0 THEN "eof" ELSE "reader")
  /\ UNCHANGED <<outside, data, opcode, need, context, n, err>>

\* The reader failed, or delivered nothing (io.ErrUnexpectedEOF): the
\* partial error counts from the bytes there are.
GiveUp ==
  /\ pc = "check"
  /\ Len(data) < need
  /\ err \/ n = 0
  /\ Return(Partial(Len(data), need - Len(data), context),
            IF err THEN "reader" ELSE "eof")
  /\ UNCHANGED <<outside, data, opcode, need, context, n, err>>

\* Mutation: a read that delivers nothing is retried.
ReadAgainAfterNothing ==
  /\ pc = "check"
  /\ Len(data) < need
  /\ ~err
  /\ pc' = "read"
  /\ UNCHANGED <<outside, data, opcode, need, context, n, err, answer, cause>>

\* A short read without an error: readUntil goes round again.
ReadAgain ==
  /\ pc = "check"
  /\ Len(data) < need
  /\ ~err /\ n > 0
  /\ pc' = "read"
  /\ UNCHANGED <<outside, data, opcode, need, context, n, err, answer, cause>>

\* Another part of the machine writes to the memory the reader shows.
MemoryChanges ==
  /\ pc = "read"
  /\ changes < MaxChanges
  /\ image' \in Images \ {image}
  /\ changes' = changes + 1
  /\ UNCHANGED <<pc, source, address, data, opcode, need, context, n, err, answer, cause>>

-----------------------------------------------------------------------------
Step == \/ FetchOpcode \/ HaveOpcode \/ Dispatch \/ RunDecoder
        \/ Read \/ Enough \/ GiveUp \/ ReadAgain

Next == Step \/ MemoryChanges

Spec == Init /\ [][Next]_vars

\* decodeInstruction never blocks by itself: as long as the reader returns
\* from each call, the call takes its next step.
FairSpec == Spec /\ WF_vars(Step)

-----------------------------------------------------------------------------
\* The values every variable of decodeInstruction and readUntil takes.
TypeOK ==
  /\ pc \in {"entry", "dispatch", "decode", "read", "check", "done"}
  /\ source \in {"slice", "reader"}
  /\ address \in 0..(AddressSpace - 1)
  /\ data \in Seq(Byte) /\ Len(data) <= MaxLen
  /\ opcode \in Opcodes \cup {NoOpcode}
  /\ need \in 0..MaxLen
  /\ n \in 0..MaxLen
  /\ err \in BOOLEAN
  /\ cause \in {"none", "reader", "eof"}
  /\ image \in Images
  /\ changes \in 0..MaxChanges

\* However the bytes came - in one slice, in short reads, with an error behind
\* them - the call answers what Decode answers about exactly those bytes.  In
\* particular the missing count of a partial error, which readUntil's caller
\* computed for fewer bytes (partialError, disasm.go), is still right.
AnswersWhatWasDelivered == pc = "done" => answer = Outcome(data)

\* A successful streaming decode has taken no byte behind the instruction
\* from the bus: everything it read is in Instruction.Bytes.
NoByteTooMany ==
  pc = "done" /\ source = "reader" /\ answer.kind = "ok" => answer.size = Len(data)

\* Where the i-th byte may come from: its address, cut to the address space, or, if the
\* read that brings it has crossed the top of the address space, the address uncut.
Places(i) ==
  {at \in DOMAIN image : /\ at <= address + (i - 1)
                         /\ at % AddressSpace = (address + (i - 1)) % AddressSpace}

\* No byte is lost, read twice or taken from the wrong place, however the
\* reads were cut: while nothing writes to the memory, each byte collected is the
\* memory at its place.  A read goes on linearly across the top of the address
\* space, but never begins there.
BytesAreMemory ==
  source = "reader" /\ changes = 0 =>
    /\ \A i \in 1..Len(data) : \E at \in Places(i) : data[i] = image[at]
    /\ pc = "check" /\ n > 0 =>
         LET first == (address + (Len(data) - n)) % AddressSpace
         IN  first \in DOMAIN image /\ data[Len(data) - n + 1] = image[first]

\* An instruction or a decoder's error found while streaming is the one
\* Decode finds in any longer slice that begins with the same bytes.
SliceAgrees ==
  pc = "done" /\ source = "reader" /\ answer.kind # "partial" =>
    \A s \in Slices :
      Len(s) >= Len(data) /\ SubSeq(s, 1, Len(data)) = data => Outcome(s) = answer

\* A partial error of a streaming decode has the last read to blame, and the
\* read before it cannot have been: it stopped short of its target.
CauseIsTheLastRead ==
  pc = "done" /\ source = "reader" /\ answer.kind = "partial" =>
    /\ answer.have + answer.missing = need
    /\ cause = "reader" <=> err
    /\ cause = "eof"    <=> n = 0 /\ ~err

\* The abstract promise of the API, with the collected bytes as the bytes
\* delivered: see DecodeSpec.
Promise == INSTANCE DecodeSpec WITH delivered <- data, reply <- answer

ImplementsPromise == Promise!Spec

\* A call returns: every round of the retry loop and of readUntil's loop is
\* paid for with a byte, and no decoder asks for bytes for ever.
Returns == <>(pc = "done")

\* README.md: "Precise partial-decode errors that report missing-byte counts".
\* Given the bytes reported missing, whatever they are, the decode is no
\* longer a partial one.
MissingIsExact ==
  pc = "done" /\ answer.kind = "partial" /\ Len(data) >= 2 =>
    \A b \in Byte :
      Outcome(data \o [i \in 1..answer.missing |-> b]).kind # "partial"

-----------------------------------------------------------------------------
(* Where the call is: the inductive invariant behind DecodeLoopProofs.     *)

\* The opcode word is there, and has a decoder.
Dispatched ==
  /\ Len(data) >= 2
  /\ opcode = OpcodeOf(data)
  /\ opcode \in Known

\* A success takes every byte there is.
Exact ==
  Verdict(opcode, Len(data)).kind = "ok" =>
    Verdict(opcode, Len(data)).size = Len(data)

AtEntry ==
  pc = "entry" => opcode = NoOpcode /\ (source = "reader" => Len(data) = 0)

AtDispatch ==
  pc = "dispatch" => /\ opcode = NoOpcode
                     /\ Len(data) >= 2
                     /\ source = "reader" => Len(data) = 2

AtDecode ==
  pc = "decode" => Dispatched /\ (source = "reader" => Exact)

InRead ==
  pc \in {"read", "check"} =>
    /\ source = "reader"
    /\ Len(data) <= need
    /\ pc = "read" => Len(data) < need
    /\ opcode = NoOpcode => need = 2 /\ context = "opcode"
    /\ opcode # NoOpcode =>
         /\ Dispatched
         /\ Len(data) < need => Verdict(opcode, Len(data)) = More(need - Len(data), context)
         /\ Len(data) = need => Exact

Answered ==
  /\ pc # "done" => answer = NoAnswer
  /\ pc = "done" => answer = Outcome(data)
  /\ pc = "done" /\ source = "reader" /\ answer.kind = "ok" => answer.size = Len(data)
  /\ pc = "done" /\ source = "reader" /\ answer.kind = "partial" =>
       /\ answer.have + answer.missing = need
       /\ cause = "reader" <=> err
       /\ cause = "eof" <=> n = 0 /\ ~err

\* At every point of the call its variables are what the code there relies on
\* (decodeInstruction and readUntil, disasm.go): above all, while readUntil is
\* short of its target, the decoder would ask for exactly the bytes missing.
IInv ==
  /\ TypeOK
  /\ AtEntry
  /\ AtDispatch
  /\ AtDecode
  /\ InRead
  /\ Answered

=============================================================================
