------------------------- MODULE ElfSectionsProofs --------------------------
(***************************************************************************)
(* The ELF helper, for every file, address space, opcode set and decoders  *)
(* that honour the contract.  DisassembleRange's invariant, proved in      *)
(* RangeWalkProofs, holds of every walk inside a call; what is added here  *)
(* is that the map stays complete from one section to the next.            *)
(***************************************************************************)
EXTENDS ElfSections, RangeWalkProofs

\* The sections of a file, one by one.
LEMMA SectionsOfFile ==
  ASSUME ElfTypeOK
  PROVE  /\ elf.sections \in Seq(Section)
         /\ Len(elf.sections) \in Nat
         /\ \A i \in 1..Len(elf.sections) :
              /\ elf.sections[i] \in Section
              /\ elf.sections[i].name \in Names
              /\ elf.sections[i].addr \in Nat
              /\ elf.sections[i].contents \in Slices
<1>1. elf.sections \in Seq(Section)
  BY FilesAssumption DEF ElfTypeOK
<1>2. Len(elf.sections) \in Nat /\ \A i \in 1..Len(elf.sections) : elf.sections[i] \in Section
  BY <1>1, LenProperties, ElementOfSeq
<1> QED BY <1>1, <1>2 DEF Section

\* A call that is running is at a section, or behind the last one.
LEMMA AtASection ==
  ASSUME ElfTypeOK, call # NoCall, section <= Len(elf.sections)
  PROVE  /\ section \in 1..Len(elf.sections)
         /\ This.addr \in Nat
         /\ This.contents \in Slices
<1>1. section \in 1..Len(elf.sections)
  BY SectionsOfFile DEF ElfTypeOK
<1> QED BY <1>1, SectionsOfFile DEF This

\* A reply stays true of the file while neither changes.
LEMMA ReplyKept == ASSUME MapIsWhole, reply' = reply, elf' = elf PROVE MapIsWhole'
<1> DEFINE end == Len(elf.sections) + 1
<1>1. reply' = reply /\ elf' = elf /\ MapIsWhole
  OBVIOUS
<1>2. Executable(end)' = Executable(end) /\ Latest(end)' = Latest(end)
  <2>1. end' = end
    BY <1>1
  <2>2. Executable(end)' = Executable(end)
    BY <1>1, <2>1 DEF Executable
  <2>3. Latest(end)' = Latest(end)
    BY <1>1, <2>1, <2>2 DEF Latest
  <2> QED BY <2>2, <2>3
<1>3. ASSUME reply.kind = "map"
      PROVE  Lists(reply.map, end)'
  <2>1. /\ DOMAIN reply.map = {elf.sections[i].name : i \in Executable(end)}
        /\ \A i \in Latest(end) : Covers(reply.map[elf.sections[i].name], elf.sections[i])
    BY <1>1, <1>3 DEF MapIsWhole, Lists
  <2> HIDE DEF end
  <2>2. DOMAIN reply'.map = {elf'.sections[i].name : i \in Executable(end)'}
    BY <1>1, <1>2, <2>1
  <2>3. \A i \in Latest(end)' : Covers(reply'.map[elf'.sections[i].name], elf'.sections[i])
    BY <1>1, <1>2, <2>1
  <2> QED BY <2>2, <2>3 DEF Lists, Covers, end
<1> QED BY <1>1, <1>3 DEF MapIsWhole

\* The map that is being filled is judged by the file alone.
LEMMA ResultJudged ==
  ASSUME elf' = elf, call' = "all" => Lists(result', section')
  PROVE  ResultSoFar'
BY DEF ResultSoFar, Lists, Executable, Latest, Covers

\* Listings are judged by the file alone, too.
LEMMA ListingsJudged ==
  ASSUME elf' = elf,
         call' = "all" => HasListings(result', section'),
         listed'.kind = "map" => HasListings(listed'.map, Len(elf.sections) + 1),
         call' = "section" => section' \in Named(elf.sections[section'].name),
         reply'.kind = "list" =>
           \A i \in Named(reply'.name) : ListingOf(reply'.instructions, elf.sections[i])
  PROVE  ListingsRight'
<1>1. call' = "all" => HasListings(result, section)'
  BY DEF HasListings, Latest, Executable
<1>2. listed'.kind = "map" => HasListings(listed.map, Len(elf.sections) + 1)'
  BY DEF HasListings, Latest, Executable
<1>3. call' = "section" => (section \in Named(This.name))'
  BY DEF Named, This
<1>4. ASSUME reply'.kind = "list", NEW i \in Named(reply.name)'
      PROVE  ListingOf(reply'.instructions, elf'.sections[i])
  <2>1. i \in Named(reply'.name)
    BY <1>4 DEF Named
  <2> QED BY <1>4, <2>1
<1> QED BY <1>1, <1>2, <1>3, <1>4 DEF ListingsRight

\* They stay right while none of what they are in changes.
LEMMA ListingsKept ==
  ASSUME ListingsRight, UNCHANGED <<elf, call, section, result, reply, listed>>
  PROVE  ListingsRight'
<1>1. /\ elf' = elf /\ call' = call /\ section' = section /\ result' = result
      /\ reply' = reply /\ listed' = listed
  OBVIOUS
<1>2. call' = "all" => HasListings(result', section')
  BY <1>1, Zenon DEF ListingsRight
<1>3. listed'.kind = "map" => HasListings(listed'.map, Len(elf.sections) + 1)
  BY <1>1, Zenon DEF ListingsRight
<1>4. call' = "section" => section' \in Named(elf.sections[section'].name)
  BY <1>1, Zenon DEF ListingsRight, This
<1>5. reply'.kind = "list" =>
        \A i \in Named(reply'.name) : ListingOf(reply'.instructions, elf.sections[i])
  BY <1>1, Zenon DEF ListingsRight
<1> QED BY <1>1, <1>2, <1>3, <1>4, <1>5, ListingsJudged

LEMMA ElfInitIInv == ElfInit => ElfIInv
<1> SUFFICES ASSUME ElfInit
             PROVE  ElfIInv
  OBVIOUS
<1>1. ElfTypeOK /\ ~walking /\ ResultSoFar /\ MapIsWhole
  BY DEF ElfInit, ElfTypeOK, NoCall, ResultSoFar, MapIsWhole, NoReply
<1>2. ListingsRight
  BY DEF ElfInit, ListingsRight, NoCall, NoReply
<1> QED BY <1>1, <1>2 DEF ElfIInv

-----------------------------------------------------------------------------
\* The caller moves between two calls, when nothing is walked or filled.
LEMMA CallerKeeps == ASSUME ElfIInv, Caller PROVE ElfIInv'
<1> DEFINE First == section' \in Named(elf.sections[section'].name)
<1>1. /\ ElfTypeOK /\ MapIsWhole /\ call = NoCall /\ ~walking
      /\ elf' = elf /\ walking' = walking /\ listed' = listed
  <2>1. call = NoCall /\ elf' = elf /\ walking' = walking /\ listed' = listed
    BY DEF Caller, OpenELF, Close, ListSections, DisassembleSection,
           DisassembleAllExecutableSections
  <2> QED BY <2>1 DEF ElfIInv, ElfTypeOK
<1>2. Len(elf.sections) \in Nat /\ elf \in Files
  BY <1>1, SectionsOfFile DEF ElfTypeOK
<1>3. /\ file' \in {"none", "open", "closed"}
      /\ reply'.kind # "map" /\ reply'.kind # "list"
      /\ \/ call' = NoCall
         \/ call' = "section" /\ section' \in 1..Len(elf.sections) /\ First
         \/ call' = "all" /\ section' = 1 /\ result' = EmptyMap
  <2>1. CASE OpenELF
    BY <1>1, <2>1 DEF OpenELF, ElfTypeOK, NoReply
  <2>2. CASE Close
    BY <1>1, <2>2 DEF Close, NoReply
  <2>3. CASE ListSections
    BY <1>1, <2>3 DEF ListSections, ElfTypeOK
  <2>4. ASSUME NEW name \in Names, DisassembleSection(name)
        PROVE  /\ file' \in {"none", "open", "closed"}
               /\ reply'.kind # "map" /\ reply'.kind # "list"
               /\ \/ call' = NoCall
                  \/ call' = "section" /\ section' \in 1..Len(elf.sections) /\ First
    <3>1. file' \in {"none", "open", "closed"}
      BY <1>1, <2>4 DEF DisassembleSection, ElfTypeOK
    <3>2. CASE Named(name) = {}
      <4>1. reply' = [kind |-> "not found"] /\ call' = call
        BY <2>4, <3>2 DEF DisassembleSection
      <4> QED BY <1>1, <3>1, <4>1
    <3>3. CASE Named(name) # {}
      <4>1. reply' = NoReply /\ call' = "section" /\ section' \in Named(name)
        BY <2>4, <3>3 DEF DisassembleSection
      <4>2. DOMAIN elf.sections = 1..Len(elf.sections)
        BY <1>1, SectionsOfFile, LenProperties
      <4>3. First
        BY <4>1 DEF Named
      <4>4. section' \in 1..Len(elf.sections)
        BY <4>1, <4>2 DEF Named
      <4>5. reply'.kind # "map" /\ reply'.kind # "list"
        BY <4>1 DEF NoReply
      <4> HIDE DEF First
      <4> QED BY <3>1, <4>1, <4>3, <4>4, <4>5
    <3> QED BY <3>2, <3>3
  <2>5. CASE DisassembleAllExecutableSections
    BY <1>1, <2>5 DEF DisassembleAllExecutableSections, ElfTypeOK, NoReply
  <2> QED BY <2>1, <2>2, <2>3, <2>4, <2>5 DEF Caller
<1>4. ElfTypeOK'
  BY <1>1, <1>2, <1>3 DEF ElfTypeOK, NoCall
<1>5. ResultSoFar'
  <2>1. CASE call' = "all"
    <3>1. section' = 1 /\ result' = EmptyMap
      BY <1>3, <2>1 DEF NoCall
    <3>2. Executable(1) = {} /\ Latest(1) = {}
      BY DEF Executable, Latest
    <3>3. Lists(EmptyMap, 1)
      BY <3>2 DEF Lists, EmptyMap
    <3>4. Lists(result', section')
      BY <3>1, <3>3
    <3> QED BY <1>1, <3>4, ResultJudged
  <2> QED BY <2>1 DEF ResultSoFar
<1>6. ListingsRight'
  <2>1. call' = "all" => HasListings(result', section')
    <3>1. Latest(1) = {}
      BY DEF Executable, Latest
    <3>2. call' = "all" => section' = 1
      BY <1>3 DEF NoCall
    <3> QED BY <3>1, <3>2 DEF HasListings
  <2>2. listed'.kind = "map" => HasListings(listed'.map, Len(elf.sections) + 1)
    BY <1>1, Zenon DEF ElfIInv, ListingsRight
  <2>3. call' = "section" => First
    BY <1>3 DEF NoCall
  <2>4. reply'.kind # "list"
    BY <1>3
  <2> QED BY <1>1, <2>1, <2>2, <2>3, <2>4, ListingsJudged
<1> QED BY <1>1, <1>3, <1>4, <1>5, <1>6 DEF ElfIInv, MapIsWhole

-----------------------------------------------------------------------------
\* A walk that has ended without an error covers its section.
LEMMA WalkCovers ==
  ASSUME ElfTypeOK, walking, WalkIInv, returned, err = NoError
  PROVE  Covers(instructions, This)
<1>1. /\ data = This.contents /\ startAddress = This.addr % AddressSpace
      /\ offset = Len(data) /\ data \in Seq(Byte) /\ Len(data) \in Nat
      /\ instructions \in Seq(Entry) /\ Adjacent
      /\ instructions = << >> => offset = 0
  BY RestOfData DEF ElfTypeOK, WalkIInv, StopsForAReason, Base
<1>2. instructions = << >> => This.contents = << >>
  BY <1>1, EmptySeq
<1> QED BY <1>1, <1>2 DEF Covers, Adjacent, After, AddressAt

\* A walk that has ended, with an error or without, has found its section's listing.
LEMMA WalkLists ==
  ASSUME ElfTypeOK, walking, WalkIInv, returned
  PROVE  ListingOf(instructions, This)
<1>1. data = This.contents /\ startAddress = Base(This.addr)
  BY DEF ElfTypeOK
<1>2. Listing(instructions, data, startAddress)
  BY ReturnsListing
<1>3. instructions \in Seq(Entry)
  BY DEF WalkIInv
<1> QED BY <1>1, <1>2, <1>3, Zenon DEF ListingOf

\* A section that is not executable adds nothing.
LEMMA SkipSectionKeeps == ASSUME ElfIInv, SkipSection PROVE ElfIInv'
<1>1. /\ ElfTypeOK /\ ResultSoFar /\ MapIsWhole /\ call = "all" /\ ~This.exec
      /\ section \in 1..Len(elf.sections) /\ Len(elf.sections) \in Nat
      /\ section' = section + 1
      /\ UNCHANGED <<elf, file, call, walking, result, reply, listed, vars>>
  BY AtASection, SectionsOfFile DEF SkipSection, ElfIInv, NoCall
<1>2. ~walking
  BY <1>1 DEF ElfTypeOK
<1>3. Executable(section + 1) = Executable(section)
  BY <1>1 DEF Executable, This
<1>4. Lists(result, section + 1)
  BY <1>1, <1>3 DEF ResultSoFar, Lists, Latest
<1>5. ElfTypeOK'
  BY <1>1, <1>2 DEF ElfTypeOK, NoCall
<1>6. ResultSoFar'
  <2>1. Lists(result', section') /\ elf' = elf
    BY <1>1, <1>4
  <2> QED BY <2>1, ResultJudged
<1>7. MapIsWhole'
  BY <1>1, ReplyKept
<1>8. ListingsRight'
  <2>1. Latest(section + 1) = Latest(section)
    BY <1>1, <1>3 DEF Latest
  <2>2. /\ HasListings(result, section)
        /\ listed.kind = "map" => HasListings(listed.map, Len(elf.sections) + 1)
        /\ reply.kind = "list" =>
             \A i \in Named(reply.name) : ListingOf(reply.instructions, elf.sections[i])
    BY <1>1, Zenon DEF ElfIInv, ListingsRight
  <2>3. HasListings(result', section')
    BY <1>1, <2>1, <2>2, Zenon DEF HasListings
  <2>4. call' # "section"
    BY <1>1
  <2> QED BY <1>1, <2>2, <2>3, <2>4, ListingsJudged
<1> QED BY <1>1, <1>2, <1>5, <1>6, <1>7, <1>8 DEF ElfIInv

\* A walk begins in an initial state of RangeWalk.
LEMMA ReadSectionKeeps == ASSUME ElfIInv, ReadSection PROVE ElfIInv'
<1>1. /\ ElfTypeOK /\ ResultSoFar /\ MapIsWhole /\ call # NoCall
      /\ section <= Len(elf.sections) /\ (call = "all" => This.exec)
      /\ This.addr \in Nat /\ This.contents \in Slices
      /\ UNCHANGED <<elf, file, call, section, result, reply, listed>>
  BY AtASection DEF ReadSection, AtSection, ElfIInv
<1>2. /\ data' = This.contents /\ startAddress' = Base(This.addr) /\ offset' = 0
      /\ instructions' = << >> /\ err' = NoError /\ returned' = FALSE
  BY DEF ReadSection
<1>3. Base(This.addr) \in 0..(AddressSpace - 1) /\ Base(This.addr) < AddressSpace
  BY <1>1, AddressSpaceAssumption DEF Base
<1>4. Init'
  BY <1>1, <1>2, <1>3 DEF Init, NoError
<1>5. WalkIInv'
  BY <1>4, WalkIInvInit, PTL
<1>6. This' = This
  BY <1>1 DEF This
<1>7. ElfTypeOK'
  BY <1>1, <1>2, <1>3, <1>6 DEF ElfTypeOK, Base
<1>8. ResultSoFar'
  <2>1. (call' = "all" => Lists(result', section')) /\ elf' = elf
    BY <1>1 DEF ResultSoFar
  <2> QED BY <2>1, ResultJudged
<1>9. MapIsWhole'
  BY <1>1, ReplyKept
<1>10. ListingsRight'
  BY <1>1, ListingsKept DEF ElfIInv
<1> QED BY <1>5, <1>7, <1>8, <1>9, <1>10 DEF ElfIInv

\* A step of DisassembleRange, which knows nothing of files.
LEMMA WalkKeeps == ASSUME ElfIInv, Walk PROVE ElfIInv'
<1>1. /\ ElfTypeOK /\ ResultSoFar /\ MapIsWhole /\ walking /\ WalkIInv /\ Next
      /\ UNCHANGED <<elf, file, call, section, walking, result, reply, listed>>
  BY DEF Walk, ElfIInv, elfVars
<1>2. WalkIInv'
  BY <1>1, WalkIInvNext
<1>3. UNCHANGED <<data, startAddress>>
  BY <1>1 DEF Next, DecodeNext, StopAtError, ReachEnd
<1>4. This' = This
  BY <1>1 DEF This
<1>5. ElfTypeOK'
  BY <1>1, <1>3, <1>4 DEF ElfTypeOK, Base
<1>6. ResultSoFar'
  <2>1. (call' = "all" => Lists(result', section')) /\ elf' = elf
    BY <1>1 DEF ResultSoFar
  <2> QED BY <2>1, ResultJudged
<1>7. MapIsWhole'
  BY <1>1, ReplyKept
<1>8. ListingsRight'
  BY <1>1, ListingsKept DEF ElfIInv
<1> QED BY <1>2, <1>5, <1>6, <1>7, <1>8 DEF ElfIInv

\* One more section in the map: it replaces what had its name.
LEMMA CollectSectionKeeps == ASSUME ElfIInv, CollectSection PROVE ElfIInv'
<1> DEFINE Name(i) == elf.sections[i].name
           map == Put(result, This.name, instructions)
<1>1. /\ ElfTypeOK /\ ResultSoFar /\ MapIsWhole /\ call = "all" /\ walking /\ WalkIInv
      /\ returned /\ err = NoError
      /\ UNCHANGED <<elf, file, call, reply, listed>>
      /\ result' = map /\ section' = section + 1 /\ walking' = FALSE
  BY DEF CollectSection, ElfIInv
<1>2. /\ section \in 1..Len(elf.sections) /\ Len(elf.sections) \in Nat
      /\ This.exec /\ This = elf.sections[section]
  BY <1>1, AtASection, SectionsOfFile DEF ElfTypeOK, NoCall, This
<1>3. Executable(section + 1) = Executable(section) \cup {section}
  BY <1>2 DEF Executable
<1>4. Lists(result, section)
  BY <1>1 DEF ResultSoFar
<1>5. DOMAIN map = {Name(i) : i \in Executable(section + 1)}
  <2>1. DOMAIN map = DOMAIN result \cup {Name(section)}
    BY <1>2 DEF Put
  <2> QED BY <1>3, <1>4, <2>1 DEF Lists
<1>6. ASSUME NEW i \in Latest(section + 1)
      PROVE  Covers(map[Name(i)], elf.sections[i]) /\ ListingOf(map[Name(i)], elf.sections[i])
  <2>1. i \in Executable(section + 1) /\ Name(i) \in DOMAIN map
    BY <1>5 DEF Latest
  <2>2. CASE i = section
    <3>1. map[Name(i)] = instructions
      BY <1>2, <2>1, <2>2 DEF Put
    <3>2. Covers(instructions, This) /\ ListingOf(instructions, This)
      BY <1>1, WalkCovers, WalkLists
    <3> QED BY <1>2, <2>2, <3>1, <3>2
  <2>3. CASE i # section
    <3>1. i \in Executable(section) /\ i < section
      BY <1>2, <1>3, <2>1, <2>3 DEF Executable
    <3>2. Name(i) # Name(section)
      <4>1. section \in Executable(section + 1)
        BY <1>3
      <4>2. Name(section) = Name(i) => section <= i
        BY <4>1 DEF Latest
      <4>3. section \in Nat /\ i \in Nat
        BY <1>2, <3>1 DEF Executable
      <4> QED BY <3>1, <4>2, <4>3
    <3>3. i \in Latest(section)
      BY <1>3, <3>1 DEF Latest
    <3>4. map[Name(i)] = result[Name(i)]
      BY <1>2, <2>1, <3>2 DEF Put
    <3>5. HasListings(result, section)
      BY <1>1 DEF ElfIInv, ListingsRight
    <3> QED BY <1>4, <3>3, <3>4, <3>5, Zenon DEF Lists, HasListings
  <2> QED BY <2>2, <2>3
<1>7. Lists(map, section + 1)
  BY <1>5, <1>6 DEF Lists
<1>8. ElfTypeOK'
  BY <1>1, <1>2 DEF ElfTypeOK, NoCall
<1>9. ResultSoFar'
  <2>1. Lists(result', section') /\ elf' = elf
    BY <1>1, <1>7
  <2> QED BY <2>1, ResultJudged
<1>10. MapIsWhole'
  BY <1>1, ReplyKept
<1>11. ListingsRight'
  <2>1. HasListings(map, section + 1)
    BY <1>6, Zenon DEF HasListings
  <2> HIDE DEF map
  <2>2. HasListings(result', section')
    BY <1>1, <2>1, Zenon
  <2>3. /\ listed.kind = "map" => HasListings(listed.map, Len(elf.sections) + 1)
        /\ reply.kind = "list" =>
             \A i \in Named(reply.name) : ListingOf(reply.instructions, elf.sections[i])
    BY <1>1, Zenon DEF ElfIInv, ListingsRight
  <2>4. call' # "section"
    BY <1>1
  <2> QED BY <1>1, <2>2, <2>3, <2>4, ListingsJudged
<1> QED BY <1>1, <1>8, <1>9, <1>10, <1>11 DEF ElfIInv

\* The returns without a map.
LEMMA OtherReturnsKeep ==
  ASSUME ElfIInv, ReadFails \/ SectionFails \/ ReturnSection
  PROVE  ElfIInv'
<1>1. ElfTypeOK /\ elf' = elf /\ file' = file /\ call' = NoCall /\ walking' = FALSE
      /\ reply'.kind # "map"
  BY DEF ElfIInv, ReadFails, SectionFails, ReturnSection, Return, Failure
<1>2. ElfTypeOK'
  BY <1>1 DEF ElfTypeOK, NoCall
<1>3. ListingsRight'
  <2>1. /\ listed' = listed
        /\ listed.kind = "map" => HasListings(listed.map, Len(elf.sections) + 1)
    BY DEF ReadFails, SectionFails, ReturnSection, ElfIInv, ListingsRight
  <2>2. call' # "all" /\ call' # "section"
    BY <1>1 DEF NoCall
  <2>3. ASSUME reply'.kind = "list", NEW i \in Named(reply'.name)
        PROVE  ListingOf(reply'.instructions, elf.sections[i])
    <3>1. /\ ReturnSection /\ call = "section" /\ walking /\ WalkIInv /\ returned
          /\ section \in Named(This.name)
      BY <2>3 DEF ReadFails, SectionFails, ReturnSection, Return, Failure, ElfIInv, ListingsRight
    <3>2. reply'.name = This.name /\ reply'.instructions = instructions
      BY <3>1 DEF ReturnSection, Return
    <3>3. ListingOf(instructions, This)
      BY <1>1, <3>1, WalkLists
    <3>4. i = section
      <4>1. DOMAIN elf.sections = 1..Len(elf.sections)
        BY <1>1, SectionsOfFile, LenProperties
      <4>2. i \in Named(This.name)
        BY <2>3, <3>2
      <4>3. i <= section /\ section <= i /\ i \in Int /\ section \in Int
        BY <3>1, <4>1, <4>2 DEF Named
      <4> QED BY <4>3
    <3> QED BY <3>2, <3>3, <3>4 DEF This
  <2> QED BY <1>1, <2>1, <2>2, <2>3, ListingsJudged
<1> QED BY <1>1, <1>2, <1>3 DEF ElfIInv, ResultSoFar, MapIsWhole, NoCall

\* The whole file has been seen.
LEMMA ReturnAllKeeps == ASSUME ElfIInv, ReturnAll PROVE ElfIInv'
<1>1. /\ ElfTypeOK /\ ResultSoFar /\ call = "all" /\ section > Len(elf.sections)
      /\ elf' = elf /\ file' = file /\ call' = NoCall /\ walking' = FALSE
      /\ reply' = [kind |-> "map", map |-> result]
  BY DEF ElfIInv, ReturnAll, Return
<1>2. section = Len(elf.sections) + 1
  BY <1>1, SectionsOfFile DEF ElfTypeOK, NoCall
<1>3. reply'.map = result /\ elf' = elf /\ Lists(result, Len(elf.sections) + 1)
  BY <1>1, <1>2 DEF ResultSoFar
<1>4. MapIsWhole'
  <2> DEFINE map == reply'.map
             end == Len(elf.sections) + 1
  <2>1. Lists(map, end) /\ elf' = elf
    BY <1>3, Zenon
  <2>2. end' = end
    BY <2>1
  <2>3. Executable(end)' = Executable(end)
    BY <2>1, <2>2 DEF Executable
  <2>4. Latest(end)' = Latest(end)
    BY <2>1, <2>2, <2>3 DEF Latest
  <2> HIDE DEF map, end
  <2>5. DOMAIN map = {elf'.sections[i].name : i \in Executable(end)'}
    BY <2>1, <2>3 DEF Lists
  <2>6. \A i \in Latest(end)' : Covers(map[elf'.sections[i].name], elf'.sections[i])
    BY <2>1, <2>4 DEF Lists
  <2>7. reply'.kind = "map" => Lists(reply.map, Len(elf.sections) + 1)'
    BY <2>5, <2>6 DEF Lists, Covers, map, end
  <2> QED BY <2>7 DEF MapIsWhole
<1>5. ElfTypeOK'
  BY <1>1 DEF ElfTypeOK, NoCall
<1>6. ListingsRight'
  <2>1. listed'.map = result
    BY DEF ReturnAll
  <2>2. HasListings(listed'.map, Len(elf.sections) + 1)
    <3>1. HasListings(result, section)
      BY <1>1 DEF ElfIInv, ListingsRight
    <3> QED BY <1>2, <2>1, <3>1, Zenon
  <2>3. reply'.kind # "list" /\ call' # "all" /\ call' # "section"
    BY <1>1 DEF NoCall
  <2> QED BY <1>1, <2>2, <2>3, ListingsJudged
<1> QED BY <1>1, <1>4, <1>5, <1>6 DEF ElfIInv, ResultSoFar, NoCall

LEMMA ElfIInvNext == ElfIInv /\ [ElfNext]_allVars => ElfIInv'
<1> SUFFICES ASSUME ElfIInv, [ElfNext]_allVars
             PROVE  ElfIInv'
  OBVIOUS
<1>1. CASE UNCHANGED allVars
  <2>1. UNCHANGED <<elf, file, call, section, walking, result, reply, listed>> /\ UNCHANGED vars
    BY <1>1 DEF allVars, elfVars
  <2>2. (walking => WalkIInv')
    <3>1. [Next]_vars
      BY <2>1
    <3> QED BY <3>1, WalkIInvNext DEF ElfIInv
  <2>3. ElfTypeOK'
    BY <2>1 DEF ElfIInv, ElfTypeOK, This, Base, vars
  <2>4. ResultSoFar'
    <3>1. (call' = "all" => Lists(result', section')) /\ elf' = elf
      BY <2>1 DEF ElfIInv, ResultSoFar
    <3> QED BY <3>1, ResultJudged
  <2>5. MapIsWhole'
    BY <2>1, ReplyKept DEF ElfIInv
  <2>6. ListingsRight'
    BY <2>1, ListingsKept DEF ElfIInv
  <2> QED BY <2>1, <2>2, <2>3, <2>4, <2>5, <2>6 DEF ElfIInv
<1> QED BY <1>1, CallerKeeps, SkipSectionKeeps, ReadSectionKeeps, WalkKeeps,
           CollectSectionKeeps, OtherReturnsKeep, ReturnAllKeeps DEF ElfNext, Library

-----------------------------------------------------------------------------
\* At every step of every sequence of calls on an ELF file the helper's
\* invariant holds.
THEOREM ElfInvariance == ElfSpec => []ElfIInv
BY ElfInitIInv, ElfIInvNext, PTL DEF ElfSpec

\* The helper's variables keep their types; a walk is always one over the
\* section the call is at, from its address cut to the address space.
THEOREM ElfTypeCorrect == ElfSpec => []ElfTypeOK
<1>1. ElfIInv => ElfTypeOK
  BY DEF ElfIInv
<1> QED BY <1>1, ElfInvariance, PTL

\* A map that DisassembleAllExecutableSections returns covers the last
\* executable section of every name, from its first byte to its last.
THEOREM MapCovers == ElfSpec => []MapIsWhole
<1>1. ElfIInv => MapIsWhole
  BY DEF ElfIInv
<1> QED BY <1>1, ElfInvariance, PTL

\* DisassembleSection and DisassembleAllExecutableSections find the same in
\* the section that both mean by a name.
THEOREM CallsAgreeHolds == ElfSpec => []CallsAgree
<1>1. ElfIInv => CallsAgree
  <2> SUFFICES ASSUME ElfIInv, reply.kind = "list", listed.kind = "map",
                      NEW i \in Latest(Len(elf.sections) + 1),
                      elf.sections[i].name = reply.name,
                      \A j \in 1..(i - 1) : elf.sections[j].name # reply.name
               PROVE  listed.map[reply.name] = reply.instructions
    BY DEF CallsAgree
  <2> DEFINE s == elf.sections[i]
             found == listed.map[s.name]
             other == reply.instructions
  <2>1. Len(elf.sections) \in Nat /\ DOMAIN elf.sections = 1..Len(elf.sections)
    BY SectionsOfFile, LenProperties DEF ElfIInv
  <2>2. i \in 1..Len(elf.sections)
    BY <2>1 DEF Latest, Executable
  <2>3. i \in Named(reply.name)
    <3>1. ASSUME NEW j \in 1..Len(elf.sections), elf.sections[j].name = reply.name
          PROVE  i <= j
      <4>1. ~(j \in 1..(i - 1))
        BY <3>1
      <4> QED BY <2>2, <4>1
    <3> QED BY <2>1, <2>2, <3>1 DEF Named
  <2>4. ListingOf(found, s) /\ ListingOf(other, s)
    BY <2>3, Zenon DEF ElfIInv, ListingsRight, HasListings
  <2>5. s.contents \in Seq(Byte)
    BY <2>2, SectionsOfFile, SlicesAssumption DEF ElfIInv
  <2> HIDE DEF found, other, s
  <2>6. found = other
    BY <2>4, <2>5, SameListing DEF ListingOf
  <2> QED BY <2>6, Zenon DEF found, other, s
<1> QED BY <1>1, ElfInvariance, PTL

-----------------------------------------------------------------------------
\* What a call still has to do: at each section it begins a walk, if there is one to
\* be made, and goes on to the next; a walk has Left to do.
PerSection == MaxLen + 4

Work ==
  IF call = NoCall THEN 0
  ELSE PerSection * (Len(elf.sections) + 1 - section)
         + (IF walking THEN Left ELSE MaxLen + 2) + 1

\* One section less.
LEMMA OneLess ==
  ASSUME NEW m \in Nat, NEW k \in Int
  PROVE  m * (k - 1) = m * k - m
OBVIOUS

LEMMA Product ==
  ASSUME NEW m \in Nat, NEW k \in Nat
  PROVE  m * k \in Nat
OBVIOUS

LEMMA WorkIs ==
  ASSUME ElfIInv
  PROVE  /\ Work \in Nat
         /\ call # NoCall => Work > 0 /\ Len(elf.sections) + 1 - section \in Nat
         /\ MaxLen \in Nat /\ PerSection \in Nat
         /\ walking => Left \in Nat /\ Left <= MaxLen + 1
<1>1. MaxLen \in Nat /\ PerSection \in Nat
  BY MaxLenAssumption DEF PerSection
<1>2. walking => Left \in Nat /\ Left <= MaxLen + 1
  BY <1>1, LeftIsBounded DEF ElfIInv, WalkIInv
<1>3. call # NoCall => Len(elf.sections) + 1 - section \in Nat
  BY SectionsOfFile DEF ElfIInv, ElfTypeOK
<1>4. CASE call # NoCall
  <2> DEFINE k == Len(elf.sections) + 1 - section
  <2>1. PerSection * k \in Nat
    <3>1. k \in Nat
      BY <1>3, <1>4
    <3> HIDE DEF k
    <3> QED BY <1>1, <3>1, Product
  <2>2. Work = PerSection * k + (IF walking THEN Left ELSE MaxLen + 2) + 1
    BY <1>4 DEF Work
  <2> HIDE DEF k
  <2>3. Work \in Nat /\ Work > 0
    BY <1>1, <1>2, <2>1, <2>2
  <2> QED BY <1>1, <1>2, <1>3, <2>3
<1>5. CASE call = NoCall
  BY <1>1, <1>2, <1>5 DEF Work
<1> QED BY <1>4, <1>5

\* On to the next section, or on in the walk.
LEMMA LibrarySpends == ASSUME ElfIInv, ElfIInv', Library PROVE Work' < Work
<1> DEFINE k == Len(elf.sections) + 1 - section
           inside == IF walking THEN Left ELSE MaxLen + 2
<1>1. /\ Work \in Nat
      /\ call # NoCall => Work > 0
      /\ MaxLen \in Nat /\ PerSection \in Nat /\ PerSection = MaxLen + 4
      /\ walking => Left \in Nat /\ Left <= MaxLen + 1
  BY WorkIs DEF PerSection
<1>2. call # NoCall => k \in Nat /\ Work = PerSection * k + inside + 1
  BY WorkIs DEF Work
<1>3. call' # NoCall => Work' = PerSection * k' + inside' + 1
  BY DEF Work
<1>4. CASE call' = NoCall /\ call # NoCall
  <2>1. Work' = 0
    BY <1>4 DEF Work
  <2> QED BY <1>1, <1>4, <2>1
<1>5. ASSUME call # NoCall, call' = call, k' = k, inside' < inside, inside' \in Nat
      PROVE  Work' < Work
  <2>1. PerSection * k \in Nat
    <3> HIDE DEF k
    <3> QED BY <1>1, <1>2, <1>5, Product
  <2>2. inside \in Nat
    BY <1>1
  <2>3. PerSection * k' = PerSection * k
    <3> HIDE DEF k
    <3> QED BY <1>5
  <2> HIDE DEF k, inside
  <2> QED BY <1>2, <1>3, <1>5, <2>1, <2>2, <2>3
<1>6. ASSUME call # NoCall, call' = call, k' = k - 1, ~walking'
      PROVE  Work' < Work
  <2>1. PerSection * k \in Nat /\ PerSection * (k - 1) = PerSection * k - PerSection
    <3> HIDE DEF k
    <3> QED BY <1>1, <1>2, <1>6, Product, OneLess
  <2>2. inside \in Nat /\ inside' = MaxLen + 2
    BY <1>1, <1>6
  <2>3. PerSection * k' = PerSection * (k - 1)
    <3>1. k' = k - 1
      BY <1>6
    <3> HIDE DEF k
    <3> QED BY <3>1
  <2> HIDE DEF k, inside
  <2> QED BY <1>1, <1>2, <1>3, <1>6, <2>1, <2>2, <2>3
<1>7. Len(elf.sections) \in Nat /\ (call # NoCall => section \in Nat)
  BY SectionsOfFile DEF ElfIInv, ElfTypeOK
<1>8. CASE SkipSection
  <2>1. ~walking
    BY <1>8 DEF SkipSection, ElfIInv, ElfTypeOK
  <2>2. call # NoCall /\ call' = call /\ ~walking' /\ elf' = elf /\ section' = section + 1
    BY <1>8, <2>1 DEF SkipSection, NoCall
  <2>3. k' = k - 1
    BY <1>7, <2>2
  <2> QED BY <1>6, <2>2, <2>3
<1>9. CASE CollectSection
  <2>1. call # NoCall /\ call' = call /\ ~walking' /\ elf' = elf /\ section' = section + 1
    BY <1>9 DEF CollectSection, NoCall
  <2>2. k' = k - 1
    BY <1>7, <2>1
  <2> QED BY <1>6, <2>1, <2>2
<1>10. CASE ReadSection
  <2>1. /\ call # NoCall /\ call' = call /\ ~walking /\ walking' /\ elf' = elf
        /\ section' = section
    BY <1>10 DEF ReadSection, AtSection
  <2>2. Left' \in Nat /\ Left' <= MaxLen + 1
    <3>1. TypeOK'
      BY <2>1 DEF ElfIInv, WalkIInv
    <3>2. (Left \in Nat /\ Left <= Len(data) + 1 /\ Len(data) <= MaxLen /\ Len(data) \in Nat)'
      BY <3>1, LeftIsBounded, PTL
    <3> QED BY <1>1, <3>2
  <2>3. k' = k /\ inside' < inside /\ inside' \in Nat
    BY <1>1, <2>1, <2>2
  <2> QED BY <1>5, <2>1, <2>3
<1>11. CASE Walk
  <2>1. /\ walking /\ walking' /\ call' = call /\ elf' = elf /\ section' = section /\ Next
        /\ WalkIInv /\ call # NoCall
    BY <1>11 DEF Walk, elfVars, ElfIInv, ElfTypeOK
  <2>2. Left' < Left
    BY <2>1, RoundSpends
  <2>3. Left' \in Nat
    <3>1. TypeOK'
      BY <2>1 DEF ElfIInv, WalkIInv
    <3>2. (Left \in Nat /\ Left <= Len(data) + 1 /\ Len(data) <= MaxLen /\ Len(data) \in Nat)'
      BY <3>1, LeftIsBounded, PTL
    <3> QED BY <3>2
  <2>4. k' = k /\ inside' < inside /\ inside' \in Nat
    BY <2>1, <2>2, <2>3
  <2> QED BY <1>5, <2>1, <2>4
<1>12. CASE ReadFails \/ SectionFails \/ ReturnAll \/ ReturnSection
  <2>1. call' = NoCall /\ call # NoCall
    BY <1>12 DEF ReadFails, AtSection, SectionFails, ReturnAll, ReturnSection, Return, NoCall
  <2> QED BY <1>4, <2>1
<1> QED BY <1>8, <1>9, <1>10, <1>11, <1>12 DEF Library

\* Every step inside a call brings it nearer to its return: neither the loop over the
\* sections nor a walk goes round without getting on, and no section is begun twice.
\* The caller's steps are those between two calls.
THEOREM CallsComeNearer ==
  ElfSpec => [](Work \in Nat) /\ [][Caller \/ Work' < Work]_allVars
<1>1. ElfIInv => Work \in Nat
  BY WorkIs
<1>2. ElfIInv /\ ElfIInv' /\ [ElfNext]_allVars => [Caller \/ Work' < Work]_allVars
  BY LibrarySpends DEF ElfNext
<1> QED BY <1>1, <1>2, ElfInvariance, PTL DEF ElfSpec

=============================================================================
