---------------------------- MODULE ElfSections -----------------------------
(***************************************************************************)
(* ELFDisassembler (elf.go): a caller opens an ELF file, lists its         *)
(* sections, disassembles one by its name or all executable ones, and      *)
(* closes the file.  Each section is a call of DisassembleRange, whose     *)
(* steps are those of RangeWalk, on its own variables.                     *)
(***************************************************************************)
EXTENDS RangeWalk

CONSTANTS
  Names,  \* names of sections
  Files   \* the ELF files: a machine and a sequence of sections

\* An elf.Section: its flags ALLOC and EXECINSTR, its 64-bit address, its bytes.
Section == [name : Names, alloc : BOOLEAN, exec : BOOLEAN, addr : Nat, contents : Slices]

ASSUME FilesAssumption == \A f \in Files : f.sections \in Seq(Section)

VARIABLES
  elf,      \* the file on disk
  file,     \* what the caller holds of it: "none", "open" or "closed"
  call,     \* the method running, or NoCall
  section,  \* the section it is at
  walking,  \* whether DisassembleRange is running
  result,   \* the map DisassembleAllExecutableSections fills
  reply,    \* what the last call returned
  listed    \* history: the map last returned, or NoReply

elfVars == <<elf, file, call, section, walking, result, reply, listed>>

NoCall == "none"

NoReply == [kind |-> "none"]

EmptyMap == [name \in {} |-> << >>]

WalkIdle ==
  /\ data = << >>
  /\ startAddress = 0
  /\ offset = 0
  /\ instructions = << >>
  /\ err = NoError
  /\ returned = FALSE

\* DisassembleRange's variables go with it.
WalkEnds ==
  /\ data' = << >>
  /\ startAddress' = 0
  /\ offset' = 0
  /\ instructions' = << >>
  /\ err' = NoError
  /\ returned' = FALSE

ElfInit ==
  /\ elf \in Files
  /\ file = "none"
  /\ call = NoCall
  /\ section = 0
  /\ walking = FALSE
  /\ result = EmptyMap
  /\ reply = NoReply
  /\ listed = NoReply
  /\ WalkIdle

-----------------------------------------------------------------------------
(* The caller.                                                             *)

\* OpenELF: only files for the 68000 are kept open.
OpenELF ==
  /\ call = NoCall
  /\ file = "none"
  /\ IF elf.machine = "EM_68K"
     THEN /\ file' = "open"
          /\ reply' = NoReply
     ELSE /\ file' = "none"
          /\ reply' = [kind |-> "refused"]
  /\ UNCHANGED <<elf, call, section, walking, result, listed, vars>>

\* Close: the sections' headers stay in memory, their bytes are out of reach.
Close ==
  /\ call = NoCall
  /\ file # "none"
  /\ file' = "closed"
  /\ reply' = NoReply
  /\ UNCHANGED <<elf, call, section, walking, result, listed, vars>>

ListSections ==
  /\ call = NoCall
  /\ file # "none"
  /\ reply' = [kind |-> "sections",
               infos |-> SelectSeq(elf.sections, LAMBDA s : s.alloc)]
  /\ UNCHANGED <<elf, file, call, section, walking, result, listed, vars>>

\* Mutation: file.Section returns the last section of a name.
NamedLast(name) ==
  {i \in DOMAIN elf.sections :
     /\ elf.sections[i].name = name
     /\ \A j \in DOMAIN elf.sections : elf.sections[j].name = name => j <= i}

\* debug/elf's file.Section(name): the first section of that name, if any.
Named(name) ==
  {i \in DOMAIN elf.sections :
     /\ elf.sections[i].name = name
     /\ \A j \in DOMAIN elf.sections : elf.sections[j].name = name => i <= j}

DisassembleSection(name) ==
  /\ call = NoCall
  /\ file # "none"
  /\ IF Named(name) = {}
     THEN /\ reply' = [kind |-> "not found"]
          /\ UNCHANGED <<call, section>>
     ELSE /\ reply' = NoReply
          /\ call' = "section"
          /\ section' \in Named(name)
  /\ UNCHANGED <<elf, file, walking, result, listed, vars>>

DisassembleAllExecutableSections ==
  /\ call = NoCall
  /\ file # "none"
  /\ call' = "all"
  /\ section' = 1
  /\ result' = EmptyMap
  /\ reply' = NoReply
  /\ UNCHANGED <<elf, file, walking, listed, vars>>

Caller ==
  \/ OpenELF
  \/ Close
  \/ ListSections
  \/ \E name \in Names : DisassembleSection(name)
  \/ DisassembleAllExecutableSections

-----------------------------------------------------------------------------
(* The library.                                                            *)

This == elf.sections[section]

\* The call comes to a section to be disassembled.
AtSection ==
  /\ call # NoCall
  /\ ~walking
  /\ section <= Len(elf.sections)
  /\ call = "all" => This.exec

SkipSection ==
  /\ call = "all"
  /\ section <= Len(elf.sections)
  /\ ~This.exec
  /\ section' = section + 1
  /\ UNCHANGED <<elf, file, call, walking, result, reply, listed, vars>>

\* Mutation: the 64-bit address is passed on as it is.
BaseNotCut(addr) == addr

\* uint32(section.Addr)
Base(addr) == addr % AddressSpace

\* disassembleSection: section.Data() succeeds, DisassembleRange begins.
ReadSection ==
  /\ AtSection
  /\ file = "open" \/ This.contents = << >>
  /\ walking' = TRUE
  /\ data' = This.contents
  /\ startAddress' = Base(This.addr)
  /\ offset' = 0
  /\ instructions' = << >>
  /\ err' = NoError
  /\ returned' = FALSE
  /\ UNCHANGED <<elf, file, call, section, result, reply, listed>>

\* Either method returns: its locals are gone.
Return(answer) ==
  /\ reply' = answer
  /\ call' = NoCall
  /\ section' = 0
  /\ walking' = FALSE
  /\ result' = EmptyMap
  /\ WalkEnds
  /\ UNCHANGED <<elf, file>>

\* nil and an error about one section.
Failure(index) == [kind |-> "failure", section |-> index]

\* section.Data() fails: the file is closed, or cannot be read.
ReadFails ==
  /\ AtSection
  /\ This.contents # << >>
  /\ Return(Failure(section))
  /\ UNCHANGED listed

Walk ==
  /\ walking
  /\ Next
  /\ UNCHANGED elfVars

\* Mutation: the first section of a name stays in the map.
PutFirst(map, name, found) ==
  [key \in DOMAIN map \cup {name} |-> IF key \in DOMAIN map THEN map[key] ELSE found]

\* result[section.Name] = instrs
Put(map, name, found) ==
  [key \in DOMAIN map \cup {name} |-> IF key = name THEN found ELSE map[key]]

CollectSection ==
  /\ call = "all"
  /\ walking
  /\ returned
  /\ err = NoError
  /\ result' = Put(result, This.name, instructions)
  /\ section' = section + 1
  /\ walking' = FALSE
  /\ WalkEnds
  /\ UNCHANGED <<elf, file, call, reply, listed>>

\* Mutation: sections that do not decode are passed over.
SectionPassedOver ==
  /\ call = "all"
  /\ walking
  /\ returned
  /\ err # NoError
  /\ section' = section + 1
  /\ walking' = FALSE
  /\ WalkEnds
  /\ UNCHANGED <<elf, file, call, result, reply, listed>>

\* Mutation: a section that does not decode is tried again.
SectionRetried ==
  /\ call = "all"
  /\ walking
  /\ returned
  /\ err # NoError
  /\ walking' = FALSE
  /\ WalkEnds
  /\ UNCHANGED <<elf, file, call, section, result, reply, listed>>

\* One section that does not decode: no map at all.
SectionFails ==
  /\ call = "all"
  /\ walking
  /\ returned
  /\ err # NoError
  /\ Return(Failure(section))
  /\ UNCHANGED listed

ReturnAll ==
  /\ call = "all"
  /\ section > Len(elf.sections)
  /\ Return([kind |-> "map", map |-> result])
  /\ listed' = [kind |-> "map", map |-> result]

\* DisassembleSection passes on what DisassembleRange returns, error or not.
ReturnSection ==
  /\ call = "section"
  /\ walking
  /\ returned
  /\ Return([kind |-> "list", name |-> This.name, instructions |-> instructions, err |-> err])
  /\ UNCHANGED listed

Library ==
  \/ SkipSection
  \/ ReadSection
  \/ ReadFails
  \/ Walk
  \/ CollectSection
  \/ SectionFails
  \/ ReturnAll
  \/ ReturnSection

ElfNext == Caller \/ Library

allVars == <<elfVars, vars>>

ElfSpec == ElfInit /\ [][ElfNext]_allVars

\* The library's loops wait for nobody but the file system.
ElfFairSpec == ElfSpec /\ WF_allVars(Library)

-----------------------------------------------------------------------------
\* The values of the caller's file and of the methods' variables.
ElfTypeOK ==
  /\ elf \in Files
  /\ file \in {"none", "open", "closed"}
  /\ call \in {NoCall, "section", "all"}
  /\ call # NoCall => section \in 1..(Len(elf.sections) + 1)
  /\ call = "section" => section <= Len(elf.sections)
  /\ walking => /\ call # NoCall
                /\ section <= Len(elf.sections)
                /\ call = "all" => This.exec
                /\ data = This.contents
                /\ startAddress = Base(This.addr)
                /\ startAddress < AddressSpace

\* found is a listing of all of s: from its address, cut to the address space,
\* without a gap, to its last byte.
Covers(found, s) ==
  /\ found = << >> => s.contents = << >>
  /\ found # << >> =>
       /\ found[1].address = s.addr % AddressSpace
       /\ \A i \in 1..(Len(found) - 1) :
            found[i + 1].address = (found[i].address + found[i].size) % AddressSpace
       /\ (found[Len(found)].address + found[Len(found)].size) % AddressSpace
            = ((s.addr % AddressSpace) + Len(s.contents)) % AddressSpace

\* The executable sections before `end`, and those of them no later one of
\* the same name has replaced.
Executable(end) == {i \in 1..(end - 1) : elf.sections[i].exec}

Latest(end) ==
  {i \in Executable(end) :
     \A j \in Executable(end) : elf.sections[j].name = elf.sections[i].name => j <= i}

\* The map has the names of the executable sections before `end`, each with a
\* listing of all of the last section of that name.
Lists(map, end) ==
  /\ DOMAIN map = {elf.sections[i].name : i \in Executable(end)}
  /\ \A i \in Latest(end) : Covers(map[elf.sections[i].name], elf.sections[i])

\* While DisassembleAllExecutableSections runs, its map is complete up to the
\* section it is at.
ResultSoFar == call = "all" => Lists(result, section)

\* A map that DisassembleAllExecutableSections returns leaves out no executable
\* section but those another one of the same name replaces: none was
\* unreadable, or ended inside an instruction.
MapIsWhole == reply.kind = "map" => Lists(reply.map, Len(elf.sections) + 1)

\* The two methods agree: where the first section of a name is also its last
\* executable one, DisassembleSection finds under the name what the map has.
CallsAgree ==
  (reply.kind = "list" /\ listed.kind = "map") =>
    \A i \in Latest(Len(elf.sections) + 1) :
      (elf.sections[i].name = reply.name
         /\ \A j \in 1..(i - 1) : elf.sections[j].name # reply.name)
      => listed.map[reply.name] = reply.instructions

\* Both methods return.
CallsReturn == (call # NoCall) ~> (call = NoCall)

\* elf.go: "DisassembleAllExecutableSections disassembles all executable
\* sections [...] Returns a map of section name -> instructions".
EveryExecutableSection ==
  reply.kind = "map" =>
    \A i \in Executable(Len(elf.sections) + 1) :
      Covers(reply.map[elf.sections[i].name], elf.sections[i])

-----------------------------------------------------------------------------
\* The inductive invariant behind ElfSectionsProofs: the walk inside a call
\* keeps its own invariant, the map that is being filled is complete, and
\* whatever either method finds is the listing of its section.
ListingOf(found, s) == found \in Seq(Entry) /\ Listing(found, s.contents, Base(s.addr))

HasListings(map, end) ==
  \A i \in Latest(end) : ListingOf(map[elf.sections[i].name], elf.sections[i])

ListingsRight ==
  /\ call = "all" => HasListings(result, section)
  /\ listed.kind = "map" => HasListings(listed.map, Len(elf.sections) + 1)
  /\ call = "section" => section \in Named(This.name)
  /\ reply.kind = "list" =>
       \A i \in Named(reply.name) : ListingOf(reply.instructions, elf.sections[i])

ElfIInv ==
  /\ ElfTypeOK
  /\ walking => WalkIInv
  /\ ResultSoFar
  /\ MapIsWhole
  /\ ListingsRight

=============================================================================
