-------------------------- MODULE RenderingProofs ---------------------------
(***************************************************************************)
(* Proofs about Rendering, for every program and every address space of    *)
(* whole 64 KiB pages.  First, what the decoders of Operands say of an     *)
(* instruction, decoder by decoder; then that RenderIInv is inductive, and *)
(* with both the invariants of Rendering.                                  *)
(***************************************************************************)
EXTENDS Rendering, DecodersProofs, FiniteSetTheorems, SequenceTheorems

-----------------------------------------------------------------------------
(* Arithmetic in the address space.                                        *)

\* Quotient and remainder.
LEMMA DivMod ==
  ASSUME NEW x \in Int, NEW n \in Nat \ {0}
  PROVE  /\ x % n \in 0..(n - 1) /\ x \div n \in Int
         /\ x = n * (x \div n) + (x % n)
OBVIOUS

\* The next multiple is a whole n higher.
LEMMA NextMultiple ==
  ASSUME NEW n \in Nat \ {0}, NEW a \in Int, NEW b \in Int, a >= b + 1
  PROVE  n * a >= n * b + n
OBVIOUS

\* There is one quotient and one remainder.
LEMMA Remainder ==
  ASSUME NEW n \in Nat \ {0}, NEW q \in Int, NEW r \in 0..(n - 1)
  PROVE  (n * q + r) % n = r
<1> DEFINE x == n * q + r
<1>1. x \in Int
  OBVIOUS
<1> HIDE DEF x
<1>2. x % n \in 0..(n - 1) /\ x \div n \in Int /\ x = n * (x \div n) + (x % n)
  BY <1>1, DivMod
<1>3. x = n * q + r
  BY DEF x
<1>4. ~(x \div n >= q + 1)
  BY <1>2, <1>3, NextMultiple
<1>5. ~(q >= x \div n + 1)
  BY <1>2, <1>3, NextMultiple
<1>6. x \div n = q
  BY <1>2, <1>4, <1>5
<1> QED BY <1>2, <1>3, <1>6 DEF x

\* Adding before or after taking the remainder.
LEMMA ModPlus ==
  ASSUME NEW n \in Nat \ {0}, NEW x \in Int, NEW d \in Int
  PROVE  ((x % n) + d) % n = (x + d) % n
<1>1. PICK q \in Int, r \in 0..(n - 1) : x = n * q + r /\ x % n = r
  BY DivMod
<1> DEFINE y == r + d
<1>2. y \in Int
  BY <1>1
<1> HIDE DEF y
<1>3. PICK p \in Int, s \in 0..(n - 1) : y = n * p + s /\ y % n = s
  BY <1>2, DivMod
<1> DEFINE k == q + p
<1>4. k \in Int /\ n * k = n * q + n * p
  BY <1>1, <1>3
<1> HIDE DEF k
<1>5. (n * k + s) % n = s
  BY <1>3, <1>4, Remainder
<1>6. x + d = n * k + s
  BY <1>1, <1>3, <1>4 DEF y
<1> QED BY <1>1, <1>3, <1>5, <1>6 DEF y

\* Less than a whole turn leads elsewhere.
LEMMA ModMoves ==
  ASSUME NEW n \in Nat \ {0}, NEW x \in Int, NEW d \in 1..(n - 1)
  PROVE  (x + d) % n # x % n
<1>1. PICK q \in Int, r \in 0..(n - 1) : x = n * q + r /\ x % n = r
  BY DivMod
<1>2. CASE r + d < n
  <2>1. (n * q + (r + d)) % n = r + d
    BY <1>1, <1>2, Remainder
  <2>2. x + d = n * q + (r + d)
    BY <1>1
  <2> QED BY <1>1, <2>1, <2>2
<1>3. CASE r + d >= n
  <2>1. PICK k \in Int, s \in 0..(n - 1) : k = q + 1 /\ s = r + d - n
    BY <1>1, <1>3
  <2>2. (n * k + s) % n = s
    BY <2>1, Remainder
  <2>3. x + d = n * k + s
    BY <1>1, <2>1
  <2> QED BY <1>1, <2>1, <2>2, <2>3
<1> QED BY <1>1, <1>2, <1>3

\* A number below the modulus is its own remainder.
LEMMA ModSmall ==
  ASSUME NEW n \in Nat \ {0}, NEW r \in 0..(n - 1)
  PROVE  r % n = r /\ (r - n) % n = r
<1>1. (n * 0 + r) % n = r /\ (n * (-1) + r) % n = r
  BY Remainder
<1> QED BY <1>1

\* 2^32 is a multiple of 65536, and of more than one.
LEMMA PagesOfAddressSpace ==
  /\ Pages \in Nat \ {0} /\ Pages >= 2
  /\ AddressSpace = 65536 * Pages
  /\ AddressSpace \in Nat \ {0} /\ AddressSpace >= 131072
BY AddressSpaceAssumption DEF Pages

\* The same facts about addresses.
LEMMA WrappedInside ==
  ASSUME NEW x \in Int
  PROVE  Wrapped(x) \in 0..(AddressSpace - 1)
BY PagesOfAddressSpace, DivMod DEF Wrapped

\* An address and an offset wrap once or twice alike, and only offset 0 leads back.
LEMMA WrappedSum ==
  ASSUME NEW x \in Int, NEW d \in Nat, d < AddressSpace
  PROVE  /\ Wrapped(Wrapped(x) + d) = Wrapped(x + d)
         /\ Wrapped(x + d) = Wrapped(x) <=> d = 0
<1>1. AddressSpace \in Nat \ {0}
  BY PagesOfAddressSpace
<1>2. d = 0 \/ d \in 1..(AddressSpace - 1)
  BY <1>1
<1>4. Wrapped(Wrapped(x) + d) = Wrapped(x + d)
  <2>0. d \in Int
    OBVIOUS
  <2>1. \A n \in Nat \ {0} : ((x % n) + d) % n = (x + d) % n
    BY <2>0, ModPlus
  <2> QED BY <1>1, <2>1, Zenon DEF Wrapped
<1>5. d # 0 => Wrapped(x + d) # Wrapped(x)
  BY <1>1, <1>2, ModMoves DEF Wrapped
<1> QED BY <1>4, <1>5

\* An address is itself modulo the address space, also from below zero.
LEMMA WrappedSmall ==
  ASSUME NEW r \in 0..(AddressSpace - 1)
  PROVE  Wrapped(r) = r /\ Wrapped(r - AddressSpace) = r
BY PagesOfAddressSpace, ModSmall DEF Wrapped

-----------------------------------------------------------------------------
(* Sequences of at most two elements.                                      *)

\* Concatenations of at most one element with at most one.
LEMMA Joined ==
  /\ << >> \o << >> = << >>
  /\ \A a : << >> \o <<a>> = <<a>> /\ <<a>> \o << >> = <<a>>
  /\ \A a, b : <<a>> \o <<b>> = <<a, b>>
<1>1. ASSUME NEW a, NEW b
      PROVE  <<a>> \o <<b>> = <<a, b>>
  <2> DEFINE s == <<a>> \o <<b>>
             t == <<a, b>>
  <2>1. s \in Seq({a, b}) /\ t \in Seq({a, b}) /\ Len(s) = 2 /\ Len(t) = 2
    OBVIOUS
  <2>2. s[1] = a /\ s[2] = b /\ t[1] = a /\ t[2] = b
    OBVIOUS
  <2> HIDE DEF s, t
  <2>3. \A i \in 1..Len(s) : s[i] = t[i]
    BY <2>1, <2>2
  <2>4. s = t
    BY <2>1, <2>3, SeqEqual
  <2> QED BY <2>4 DEF s, t
<1>2. << >> \o << >> = << >>
  OBVIOUS
<1>3. \A a : << >> \o <<a>> = <<a>> /\ <<a>> \o << >> = <<a>>
  OBVIOUS
<1> QED BY <1>1, <1>2, <1>3

-----------------------------------------------------------------------------
(* Values and addresses.                                                   *)

\* The three sizes and the numbers of their values, which are even.
LEMMA ValuesCases ==
  /\ Values(1) = 256 /\ Values(2) = 65536 /\ Values(4) = AddressSpace
  /\ \A size \in {1, 2, 4} :
       /\ Values(size) \in Nat \ {0}
       /\ Values(size) \div 2 \in Nat
       /\ Values(size) = 2 * (Values(size) \div 2)
BY PagesOfAddressSpace DEF Values

\* An upper and a lower word make an address.
LEMMA TwoWords ==
  ASSUME NEW pages \in Nat \ {0}, NEW high \in Nat, NEW low \in Nat, low < 65536
  PROVE  (high % pages) * 65536 + low \in 0..(65536 * pages - 1)
<1>1. PICK h \in 0..(pages - 1) : high % pages = h
  BY DivMod
<1>2. h * 65536 + low \in 0..(65536 * pages - 1)
  BY <1>1
<1> QED BY <1>1, <1>2

\* binary.BigEndian.Uint32 (common.go) stays within the address space.
LEMMA LongAddress ==
  ASSUME NEW high \in Nat, NEW low \in Nat, low < 65536
  PROVE  Long(high, low) \in Address
<1>1. Long(high, low) \in 0..(65536 * Pages - 1)
  BY PagesOfAddressSpace, TwoWords DEF Long
<1> QED BY <1>1, PagesOfAddressSpace, SMTT(30) DEF Address

\* Signed is the value itself or lies one turn below it.
LEMMA SignedValue ==
  ASSUME NEW size \in {1, 2, 4}, NEW value \in 0..(Values(size) - 1)
  PROVE  /\ AsSigned(value, size) = IF value < Values(size) \div 2
                                    THEN value ELSE value - Values(size)
         /\ AsSigned(value, size) \in
              (-(Values(size) \div 2))..((Values(size) \div 2) - 1)
         /\ (value - AsSigned(value, size)) % Values(size) = 0
<1>1. value % Values(size) = value
  BY ValuesCases, ModSmall
<1>2. AsSigned(value, size) = IF value < Values(size) \div 2
                              THEN value ELSE value - Values(size)
  BY <1>1 DEF AsSigned
<1> DEFINE v == Values(size)
           h == v \div 2
<1>3. v \in Nat \ {0} /\ h \in Nat /\ v = 2 * h
  BY ValuesCases
<1> HIDE DEF v, h
<1>4. 0 % v = 0 /\ (0 - v) % v = 0
  <2>1. 0 \in 0..(v - 1)
    BY <1>3
  <2> QED BY <1>3, <2>1, ModSmall
<1>5. CASE value < h
  <2>1. AsSigned(value, size) = value
    BY <1>2, <1>5 DEF v, h
  <2>2. value \in (-h)..(h - 1) /\ value - value = 0
    BY <1>3, <1>5 DEF v
  <2> QED BY <1>2, <1>4, <2>1, <2>2 DEF v, h
<1>6. CASE ~(value < h)
  <2>1. AsSigned(value, size) = value - v
    BY <1>2, <1>6 DEF v, h
  <2>2. value \in 0..(v - 1)
    BY DEF v
  <2>3. value - v \in (-h)..(h - 1) /\ value - (value - v) = v /\ v = 0 - (0 - v)
    BY <1>3, <1>6, <2>2
  <2>4. v % v = 0
    BY <1>3
  <2> QED BY <1>2, <2>1, <2>3, <2>4 DEF v, h
<1> QED BY <1>5, <1>6

-----------------------------------------------------------------------------
(* Structured operands.                                                    *)

\* The sizes of operands.
Sizes == {1, 2, 4}

\* w is a sequence of 16-bit words.
Words(w) ==
  Len(w) \in Nat /\ \A k \in 1..Len(w) : w[k] \in Nat /\ w[k] < 65536

\* What formatOperand asks about an operand.
Asks(o) == o.branchTarget \o o.resolved \o o.absolute

\* AsksForTheAddressMeant, of one address of an operand.
AddressRight(o, w, address, a) ==
  /\ a \in Address
  /\ (a = Meant(o, w, address)) <=>
       ~ \/ o.kind = "branch_target" /\ Cardinality(o.reads) > 0
         \/ o.kind # "branch_target" /\ Cardinality(o.reads) = 1 /\ a >= 32768
  /\ o.kind = "branch_target" =>
       a = Wrapped(Meant(o, w, address) + 2 * Cardinality(o.reads))

\* The immediate of an operand is a value of its size.
SoundImmediate(o) ==
  \/ o.immediate = << >>
  \/ \E size \in {1, 2, 4} : \E value \in 0..(Values(size) - 1) :
       o.immediate = <<Immediate(value, size)>>

\* The addresses of an operand are one address, the right one.
SoundAddresses(o, w, address) ==
  \/ Asks(o) = << >>
  \/ \E a \in Address :
       /\ Asks(o) \in {<<a>>, <<a, a>>}
       /\ AddressRight(o, w, address, a)

\* An operand of the instruction w at `address`.
Sound(o, w, address) == SoundImmediate(o) /\ SoundAddresses(o, w, address)

\* ... and made of the words `reads`.
ReadsSoundly(o, reads, w, address) == o.reads = reads /\ Sound(o, w, address)

\* An operand that is only text.
LEMMA PlainSound ==
  ASSUME NEW kind, NEW text, NEW reads, NEW w, NEW address \in Nat
  PROVE  ReadsSoundly(OperandOf(kind, text, reads), reads, w, address)
<1> DEFINE o == OperandOf(kind, text, reads)
<1>1. /\ o.immediate = << >> /\ o.reads = reads
      /\ o.branchTarget = << >> /\ o.resolved = << >> /\ o.absolute = << >>
  BY DEF OperandOf
<1> HIDE DEF o
<1>2. Asks(o) = << >>
  BY <1>1 DEF Asks
<1> QED BY <1>1, <1>2 DEF ReadsSoundly, Sound, SoundImmediate, SoundAddresses, o

\* An operand with an immediate that fits its size.
LEMMA ImmediateSound ==
  ASSUME NEW text, NEW size \in Sizes, NEW value \in Nat, value <= Values(size) - 1,
         NEW reads, NEW w, NEW address \in Nat
  PROVE  ReadsSoundly(immediateOperand(text, value, size, reads), reads, w, address)
<1> DEFINE o == immediateOperand(text, value, size, reads)
<1>1. /\ o.immediate = <<Immediate(value, size)>> /\ o.text = text /\ o.reads = reads
      /\ o.branchTarget = << >> /\ o.resolved = << >> /\ o.absolute = << >>
  BY DEF immediateOperand, OperandOf
<1> HIDE DEF o
<1>2. Asks(o) = << >>
  BY <1>1 DEF Asks
<1>3. value \in 0..(Values(size) - 1)
  BY ValuesCases DEF Sizes
<1>4. SoundImmediate(o)
  BY <1>1, <1>3 DEF SoundImmediate, Sizes
<1> QED BY <1>1, <1>2, <1>4 DEF ReadsSoundly, Sound, SoundAddresses, o

\* An immediate behind the opcode: decodeAddressingMode cuts a byte to a byte.
LEMMA EAImmediateSound ==
  ASSUME NEW size \in Sizes, NEW value \in Nat,
         IF size = 4 THEN value \in Address ELSE value < 65536,
         NEW reads, NEW w, NEW address \in Nat
  PROVE  ReadsSoundly(EAImmediate(value, size, reads), reads, w, address)
<1> DEFINE kept == IF size = 1 THEN value % 256 ELSE value
           o    == EAImmediate(value, size, reads)
<1>1. kept \in 0..(Values(size) - 1)
  BY ValuesCases, PagesOfAddressSpace DEF Address, Sizes
<1> HIDE DEF kept
<1>2. /\ o.immediate = <<Immediate(kept, size)>> /\ o.reads = reads
      /\ o.branchTarget = << >> /\ o.resolved = << >> /\ o.absolute = << >>
  BY DEF EAImmediate, effectiveAddressOperand, OperandOf, kept
<1> HIDE DEF o
<1>3. Asks(o) = << >>
  BY <1>2 DEF Asks
<1>4. SoundImmediate(o)
  BY <1>1, <1>2 DEF SoundImmediate, Sizes
<1> QED BY <1>2, <1>3, <1>4 DEF ReadsSoundly, Sound, SoundAddresses, o

\* The words an operand is read from.
OneWord(at) == {at}

BothWords(at) == {at, at + 1}

\* One word read is the first.
LEMMA OneWordRead ==
  ASSUME NEW at \in Nat
  PROVE  /\ Cardinality(OneWord(at)) = 1
         /\ FirstOf(OneWord(at)) = at
BY FS_Singleton DEF OneWord, FirstOf

\* The first of two words read is the one at the lower index.
LEMMA TwoWordsRead ==
  ASSUME NEW at \in Nat
  PROVE  /\ Cardinality(BothWords(at)) = 2
         /\ FirstOf(BothWords(at)) = at
<1>1. IsFiniteSet({at}) /\ Cardinality({at}) = 1 /\ at + 1 \notin {at}
  BY FS_Singleton
<1>2. Cardinality({at} \cup {at + 1}) = 2
  BY <1>1, FS_AddElement
<1>3. {at} \cup {at + 1} = BothWords(at)
  BY DEF BothWords
<1>4. (CHOOSE a \in {at, at + 1} : \A b \in {at, at + 1} : a <= b) = at
  OBVIOUS
<1> QED BY <1>2, <1>3, <1>4 DEF BothWords, FirstOf

\* A word is a signed one, or 65536 below it, and so one page of addresses.
LEMMA ShortAddressMeant ==
  ASSUME NEW word \in Nat, word < 65536
  PROVE  /\ word \in Address
         /\ word = Wrapped(AsSigned(word, 2)) <=> word < 32768
<1>1. word \in 0..(Values(2) - 1) /\ Values(2) = 65536 /\ Values(2) \div 2 = 32768
  BY ValuesCases
<1>2. AsSigned(word, 2) = IF word < 32768 THEN word ELSE word - 65536
  BY <1>1, SignedValue
<1>3. word \in 0..(AddressSpace - 1) /\ AddressSpace \in Nat \ {0}
  BY PagesOfAddressSpace
<1>4. CASE word < 32768
  BY <1>2, <1>3, <1>4, WrappedSmall DEF Address
<1>5. CASE ~(word < 32768)
  <2> DEFINE high == word + (AddressSpace - 65536)
  <2>1. high \in 0..(AddressSpace - 1) /\ high # word /\ high - AddressSpace = word - 65536
    BY <1>5, PagesOfAddressSpace
  <2> HIDE DEF high
  <2>2. Wrapped(word - 65536) = high
    BY <2>1, WrappedSmall
  <2> QED BY <1>2, <1>3, <1>5, <2>1, <2>2 DEF Address
<1> QED BY <1>4, <1>5

\* The fields of an absolute address.
LEMMA AbsoluteFields ==
  ASSUME NEW a, NEW digits, NEW reads
  PROVE  LET o == absoluteOperand(a, digits, reads)
         IN  /\ o.kind = "effective_address" /\ o.reads = reads
             /\ o.immediate = << >> /\ Asks(o) = <<a, a>>
<1> DEFINE o == absoluteOperand(a, digits, reads)
<1>1. /\ o.kind = "effective_address" /\ o.reads = reads /\ o.immediate = << >>
      /\ o.branchTarget = << >> /\ o.resolved = <<a>> /\ o.absolute = <<a>>
  BY DEF absoluteOperand, effectiveAddressOperand, OperandOf
<1>2. SUFFICES Asks(o) = <<a, a>>
  BY <1>1
<1> HIDE DEF o
<1> QED BY <1>1, Joined, Zenon DEF Asks

\* An absolute short address: right exactly in the lower half of a page.
LEMMA ShortSound ==
  ASSUME NEW w, Words(w), NEW at \in 1..Len(w), NEW digits, NEW address \in Nat
  PROVE  Sound(absoluteOperand(ShortAddress(w[at]), digits, OneWord(at)), w, address)
<1> DEFINE a == w[at]
           o == absoluteOperand(ShortAddress(a), digits, OneWord(at))
<1> SUFFICES Sound(o, w, address)
  OBVIOUS
<1>0. a \in Nat /\ a < 65536 /\ ShortAddress(a) = a /\ at \in Nat
  BY DEF Words, ShortAddress
<1>1. /\ o.kind = "effective_address" /\ o.reads = OneWord(at)
      /\ o.immediate = << >> /\ Asks(o) = <<a, a>>
  BY <1>0, AbsoluteFields
<1> HIDE DEF o
<1>2. Cardinality(o.reads) = 1
  BY <1>0, <1>1, OneWordRead
<1>3. FirstOf(o.reads) = at
  BY <1>0, <1>1, OneWordRead
<1>4. Meant(o, w, address) = Wrapped(AsSigned(a, 2))
  BY <1>1, <1>2, <1>3 DEF Meant, AddressRead
<1> HIDE DEF a
<1>5. AddressRight(o, w, address, a)
  BY <1>0, <1>1, <1>2, <1>4, ShortAddressMeant DEF AddressRight
<1> QED BY <1>0, <1>1, <1>5, ShortAddressMeant DEF Sound, SoundImmediate, SoundAddresses

\* An absolute long address.
LEMMA LongSound ==
  ASSUME NEW w, Words(w), NEW at \in 1..Len(w), at + 1 \in 1..Len(w), NEW digits,
         NEW address \in Nat
  PROVE  Sound(absoluteOperand(Long(w[at], w[at + 1]), digits, BothWords(at)), w, address)
<1> DEFINE a == Long(w[at], w[at + 1])
           o == absoluteOperand(a, digits, BothWords(at))
<1> SUFFICES Sound(o, w, address)
  OBVIOUS
<1>0. a \in Address /\ at \in Nat
  BY LongAddress DEF Words
<1>1. /\ o.kind = "effective_address" /\ o.reads = BothWords(at)
      /\ o.immediate = << >> /\ Asks(o) = <<a, a>>
  BY AbsoluteFields
<1> HIDE DEF o
<1>2. Cardinality(o.reads) = 2
  BY <1>0, <1>1, TwoWordsRead
<1>3. FirstOf(o.reads) = at
  BY <1>0, <1>1, TwoWordsRead
<1>4. Meant(o, w, address) = a
  BY <1>1, <1>2, <1>3 DEF Meant, AddressRead
<1> HIDE DEF a
<1>5. AddressRight(o, w, address, a)
  BY <1>0, <1>1, <1>2, <1>4 DEF AddressRight
<1> QED BY <1>0, <1>1, <1>5 DEF Sound, SoundImmediate, SoundAddresses

\* The fields of a branch target.
LEMMA BranchFields ==
  ASSUME NEW a, NEW reads
  PROVE  LET o == branchOperand(a, reads)
         IN  /\ o.kind = "branch_target" /\ o.reads = reads
             /\ o.immediate = << >> /\ Asks(o) = <<a>>
<1> DEFINE o == branchOperand(a, reads)
<1>1. /\ o.kind = "branch_target" /\ o.reads = reads /\ o.immediate = << >>
      /\ o.branchTarget = <<a>> /\ o.resolved = << >> /\ o.absolute = << >>
  BY DEF branchOperand, OperandOf
<1>2. SUFFICES Asks(o) = <<a>>
  BY <1>1
<1> HIDE DEF o
<1> QED BY <1>1, Joined, Zenon DEF Asks

\* The library counts a displacement from behind its `count` words, the
\* processor from behind the opcode word.
LEMMA TargetSound ==
  ASSUME NEW w, NEW address \in Nat, NEW delta \in Int, NEW count \in Nat, NEW reads, NEW a,
         count <= 2, Cardinality(reads) = count, DisplacementRead(reads, w) = delta,
         a = Wrapped(address + 2 + 2 * count + delta)
  PROVE  Sound(branchOperand(a, reads), w, address)
<1> DEFINE o == branchOperand(a, reads)
           x == address + 2 + delta
           d == 2 * count
<1> SUFFICES Sound(o, w, address)
  OBVIOUS
<1>1. /\ o.kind = "branch_target" /\ o.reads = reads
      /\ o.immediate = << >> /\ Asks(o) = <<a>>
  BY BranchFields
<1>2. Meant(o, w, address) = Wrapped(x)
  BY <1>1 DEF Meant
<1>3. x \in Int /\ d \in Nat /\ d < AddressSpace /\ x + d \in Int
  BY PagesOfAddressSpace
<1>4. a = Wrapped(x + d)
  <2>1. address + 2 + 2 * count + delta = x + d
    OBVIOUS
  <2> QED BY <2>1
<1> HIDE DEF o, x
<1>5. a \in Address /\ a = Wrapped(Wrapped(x) + d) /\ (a = Wrapped(x) <=> d = 0)
  <2>1. Wrapped(x + d) \in 0..(AddressSpace - 1)
    BY <1>3, WrappedInside
  <2> HIDE DEF d
  <2>2. Wrapped(Wrapped(x) + d) = Wrapped(x + d) /\ (Wrapped(x + d) = Wrapped(x) <=> d = 0)
    BY <1>3, WrappedSum
  <2> QED BY <1>4, <2>1, <2>2 DEF Address
<1>6. AddressRight(o, w, address, a)
  BY <1>1, <1>2, <1>5 DEF AddressRight
<1> QED BY <1>1, <1>5, <1>6 DEF Sound, SoundImmediate, SoundAddresses

\* A displacement read from a byte, a word or two is a signed number.
LEMMA SignedAny ==
  ASSUME NEW size \in Sizes, NEW v \in Nat, v <= Values(size) - 1
  PROVE  AsSigned(v, size) \in Int
<1>1. Values(size) \in Nat /\ v \in 0..(Values(size) - 1) /\ size \in {1, 2, 4}
  BY ValuesCases DEF Sizes
<1> QED BY <1>1, SignedValue, ValuesCases

\* A byte, taken as signed, is a number.
LEMMA SignedByte ==
  ASSUME NEW v \in Nat, v <= 255
  PROVE  AsSigned(v, 1) \in Int
BY SignedAny, ValuesCases DEF Sizes

\* A word, taken as signed, is a number.
LEMMA SignedWord ==
  ASSUME NEW v \in Nat, v < 65536
  PROVE  AsSigned(v, 2) \in Int
BY SignedAny, ValuesCases DEF Sizes

\* A long word, taken as signed, is a number.
LEMMA SignedLong ==
  ASSUME NEW v \in Nat, v < AddressSpace
  PROVE  AsSigned(v, 4) \in Int
BY SignedAny, ValuesCases, PagesOfAddressSpace DEF Sizes

-----------------------------------------------------------------------------
(* Effective addresses.                                                    *)

\* The words before `next` that an operand may have read, at most two.
LEMMA Intervals ==
  ASSUME NEW at \in Nat
  PROVE  /\ at..(at - 1) = {} /\ at..((at + 1) - 1) = OneWord(at)
         /\ at..((at + 2) - 1) = BothWords(at)
BY DEF OneWord, BothWords

\* The branches of decodeAddressingMode's switch, by what they make of the words.
Displaced(mode, reg) == mode \in {5, 6} \/ (mode = 7 /\ reg \in {2, 3})

AbsoluteShort(mode, reg) == mode = 7 /\ reg = 0

AbsoluteLong(mode, reg) == mode = 7 /\ reg = 1

ImmediateLong(mode, reg, size) == mode = 7 /\ reg = 4 /\ size = 4

ImmediateWord(mode, reg, size) == mode = 7 /\ reg = 4 /\ size # 4

\* Every valid mode is in one of the groups of decodeAddressingMode.
LEMMA Switch ==
  ASSUME NEW mode \in Nat, NEW reg \in Nat, NEW size \in Sizes,
         mode <= 7, reg <= 7, ValidMode(mode, reg)
  PROVE  \/ mode <= 4 \/ Displaced(mode, reg) \/ AbsoluteShort(mode, reg)
         \/ AbsoluteLong(mode, reg) \/ ImmediateLong(mode, reg, size)
         \/ ImmediateWord(mode, reg, size)
BY DEF ValidMode, Displaced, AbsoluteShort, AbsoluteLong, ImmediateLong, ImmediateWord

\* decodeAddressingMode, mode by mode: an operand without words, ...
LEMMA RegisterModes ==
  ASSUME NEW w, NEW at \in Nat, NEW mode \in Nat, NEW reg \in Nat, NEW size \in Sizes,
         mode <= 7, reg <= 7,
         mode <= 4
  PROVE  \E kind, text : decodeAddressingMode(w, at, mode, reg, size) = OperandOf(kind, text, {})
<1> DEFINE o    == decodeAddressingMode(w, at, mode, reg, size)
           R(x) == effectiveAddressOperand(x, {})
<1>1. \E x : o = R(x)
  <2>1. CASE mode = 0
    <3>1. o = R(<<"D", reg>>)
      BY <2>1 DEF decodeAddressingMode
    <3> QED BY <3>1, Zenon
  <2>2. CASE mode = 1
    <3>1. o = R(<<"A", reg>>)
      BY <2>2 DEF decodeAddressingMode
    <3> QED BY <3>1, Zenon
  <2>3. CASE mode = 2
    <3>1. o = R(<<"(A)", reg>>)
      BY <2>3 DEF decodeAddressingMode
    <3> QED BY <3>1, Zenon
  <2>4. CASE mode = 3
    <3>1. o = R(<<"(A)+", reg>>)
      BY <2>4 DEF decodeAddressingMode
    <3> QED BY <3>1, Zenon
  <2>5. CASE mode = 4
    <3>1. o = R(<<"-(A)", reg>>)
      BY <2>5 DEF decodeAddressingMode
    <3> QED BY <3>1, Zenon
  <2> QED BY <2>1, <2>2, <2>3, <2>4, <2>5
<1> QED BY <1>1, Zenon DEF effectiveAddressOperand

\* ... an operand of one word without an address or an immediate, ...
LEMMA DisplacementModes ==
  ASSUME NEW w, NEW address \in Nat, NEW at \in Nat,
         NEW mode \in Nat, NEW reg \in Nat, NEW size \in Sizes,
         mode <= 7, reg <= 7,
         Displaced(mode, reg)
  PROVE  ReadsSoundly(decodeAddressingMode(w, at, mode, reg, size), OneWord(at), w, address)
<1> DEFINE o    == decodeAddressingMode(w, at, mode, reg, size)
           R(x) == effectiveAddressOperand(x, OneWord(at))
<1>1. \E x : o = R(x)
  <2>1. CASE mode = 5
    <3>1. o = R(<<"(d,A)", AsSigned(w[at], 2), reg>>)
      BY <2>1 DEF decodeAddressingMode, OneWord, BothWords
    <3> QED BY <3>1, Zenon
  <2>2. CASE mode = 6
    <3>1. o = R(<<"(d,A,X)", decodeIndexWord(w[at]), reg>>)
      BY <2>2 DEF decodeAddressingMode, OneWord, BothWords
    <3> QED BY <3>1, Zenon
  <2>3. CASE mode = 7 /\ reg = 2
    <3>1. o = R(<<"(d,PC)", AsSigned(w[at], 2)>>)
      BY <2>3 DEF decodeAddressingMode, OneWord, BothWords
    <3> QED BY <3>1, Zenon
  <2>4. CASE mode = 7 /\ reg = 3
    <3>1. o = R(<<"(d,PC,X)", decodeIndexWord(w[at])>>)
      BY <2>4 DEF decodeAddressingMode, OneWord, BothWords
    <3> QED BY <3>1, Zenon
  <2> QED BY <2>1, <2>2, <2>3, <2>4 DEF Displaced
<1>2. PICK x : o = R(x)
  BY <1>1
<1>3. R(x) = OperandOf("effective_address", x, OneWord(at))
  BY DEF effectiveAddressOperand
<1> HIDE DEF o, R
<1>4. ReadsSoundly(o, OneWord(at), w, address)
  BY <1>2, <1>3, PlainSound
<1> QED BY <1>4 DEF o

\* ... an absolute address, or an immediate.
LEMMA ValueModes ==
  ASSUME NEW w, NEW at \in Nat, NEW mode \in Nat, NEW reg \in Nat, NEW size \in Sizes,
         mode <= 7, reg <= 7
  PROVE  /\ AbsoluteShort(mode, reg) =>
              decodeAddressingMode(w, at, mode, reg, size) =
                absoluteOperand(ShortAddress(w[at]), 4, OneWord(at))
         /\ AbsoluteLong(mode, reg) =>
              decodeAddressingMode(w, at, mode, reg, size) =
                absoluteOperand(Long(w[at], w[at + 1]), 8, BothWords(at))
         /\ ImmediateLong(mode, reg, size) =>
              decodeAddressingMode(w, at, mode, reg, size) =
                EAImmediate(Long(w[at], w[at + 1]), size, BothWords(at))
         /\ ImmediateWord(mode, reg, size) =>
              decodeAddressingMode(w, at, mode, reg, size) = EAImmediate(w[at], size, OneWord(at))
<1>1. CASE mode = 7 /\ reg = 0
  BY <1>1
     DEF decodeAddressingMode, OneWord, BothWords, AbsoluteShort, AbsoluteLong, ImmediateLong,
         ImmediateWord
<1>2. CASE mode = 7 /\ reg = 1
  BY <1>2
     DEF decodeAddressingMode, OneWord, BothWords, AbsoluteShort, AbsoluteLong, ImmediateLong,
         ImmediateWord
<1>3. CASE mode = 7 /\ reg = 4 /\ size = 4
  BY <1>3
     DEF decodeAddressingMode, OneWord, BothWords, AbsoluteShort, AbsoluteLong, ImmediateLong,
         ImmediateWord
<1>4. CASE mode = 7 /\ reg = 4 /\ size # 4
  BY <1>4
     DEF decodeAddressingMode, OneWord, BothWords, AbsoluteShort, AbsoluteLong, ImmediateLong,
         ImmediateWord
<1> QED BY <1>1, <1>2, <1>3, <1>4 DEF AbsoluteShort, AbsoluteLong, ImmediateLong, ImmediateWord

\* So an operand of no word, one or two has read those and is sound.
LEMMA NoWordModes ==
  ASSUME NEW w, NEW address \in Nat, NEW at \in Nat,
         NEW mode \in Nat, NEW reg \in Nat, NEW size \in Sizes,
         mode <= 7, reg <= 7, mode <= 4
  PROVE  ReadsSoundly(decodeAddressingMode(w, at, mode, reg, size), {}, w, address)
<1>1. PICK kind, text : decodeAddressingMode(w, at, mode, reg, size) = OperandOf(kind, text, {})
  BY RegisterModes
<1> QED BY <1>1, PlainSound

\* The modes with one extension word.
LEMMA OneWordModes ==
  ASSUME NEW w, Words(w), NEW address \in Nat, NEW at \in Nat, at \in 1..Len(w),
         NEW mode \in Nat, NEW reg \in Nat, NEW size \in Sizes,
         mode <= 7, reg <= 7,
         Displaced(mode, reg) \/ AbsoluteShort(mode, reg) \/ ImmediateWord(mode, reg, size)
  PROVE  ReadsSoundly(decodeAddressingMode(w, at, mode, reg, size), OneWord(at), w, address)
<1>1. CASE Displaced(mode, reg)
  BY <1>1, DisplacementModes
<1>2. CASE AbsoluteShort(mode, reg)
  <2>1. decodeAddressingMode(w, at, mode, reg, size) =
          absoluteOperand(ShortAddress(w[at]), 4, OneWord(at))
    BY <1>2, ValueModes
  <2>2. absoluteOperand(ShortAddress(w[at]), 4, OneWord(at)).reads = OneWord(at)
    BY AbsoluteFields
  <2> QED BY <2>1, <2>2, ShortSound DEF ReadsSoundly
<1>3. CASE ImmediateWord(mode, reg, size)
  <2> DEFINE value == w[at]
  <2>1. decodeAddressingMode(w, at, mode, reg, size) = EAImmediate(value, size, OneWord(at))
    BY <1>3, ValueModes
  <2>2. size # 4 /\ value \in Nat /\ value < 65536
    BY <1>3 DEF ImmediateWord, Words
  <2> HIDE DEF value
  <2>3. IF size = 4 THEN value \in Address ELSE value < 65536
    BY <2>2
  <2> QED BY <2>1, <2>2, <2>3, EAImmediateSound
<1> QED BY <1>1, <1>2, <1>3

\* The modes with two extension words.
LEMMA TwoWordModes ==
  ASSUME NEW w, Words(w), NEW address \in Nat,
         NEW at \in Nat, at \in 1..Len(w), at + 1 \in 1..Len(w),
         NEW mode \in Nat, NEW reg \in Nat, NEW size \in Sizes,
         mode <= 7, reg <= 7,
         AbsoluteLong(mode, reg) \/ ImmediateLong(mode, reg, size)
  PROVE  ReadsSoundly(decodeAddressingMode(w, at, mode, reg, size), BothWords(at), w, address)
<1>1. CASE AbsoluteLong(mode, reg)
  <2>1. decodeAddressingMode(w, at, mode, reg, size) =
          absoluteOperand(Long(w[at], w[at + 1]), 8, BothWords(at))
    BY <1>1, ValueModes
  <2>2. absoluteOperand(Long(w[at], w[at + 1]), 8, BothWords(at)).reads = BothWords(at)
    BY AbsoluteFields
  <2> QED BY <2>1, <2>2, LongSound DEF ReadsSoundly
<1>2. CASE ImmediateLong(mode, reg, size)
  <2> DEFINE value == Long(w[at], w[at + 1])
  <2>1. decodeAddressingMode(w, at, mode, reg, size) = EAImmediate(value, size, BothWords(at))
    BY <1>2, ValueModes
  <2>2. value \in Address
    BY LongAddress DEF Words
  <2> HIDE DEF value
  <2>3. value \in Nat /\ size = 4
    BY <1>2, <2>2, PagesOfAddressSpace DEF Address, ImmediateLong
  <2> QED BY <2>1, <2>2, <2>3, EAImmediateSound
<1> QED BY <1>1, <1>2

\* The words each of them takes.
LEMMA ExtensionCases ==
  ASSUME NEW mode \in Nat, NEW reg \in Nat, NEW size \in Sizes,
         mode <= 7, reg <= 7
  PROVE  /\ mode <= 4 => ExtensionOf(mode, reg, size).bytes = 0
         /\ Displaced(mode, reg) => ExtensionOf(mode, reg, size).bytes = 2
         /\ AbsoluteShort(mode, reg) => ExtensionOf(mode, reg, size).bytes = 2
         /\ AbsoluteLong(mode, reg) => ExtensionOf(mode, reg, size).bytes = 4
         /\ ImmediateLong(mode, reg, size) => ExtensionOf(mode, reg, size).bytes = 4
         /\ ImmediateWord(mode, reg, size) => ExtensionOf(mode, reg, size).bytes = 2
<1> DEFINE Takes(n) == \E what : ExtensionOf(mode, reg, size) = Extension(n, what)
<1>1. ASSUME NEW n, Takes(n)
      PROVE  ExtensionOf(mode, reg, size).bytes = n
  <2>1. \A what : Extension(n, what).bytes = n
    BY DEF Extension
  <2> QED BY <1>1, <2>1, Zenon
<1>2. ASSUME mode <= 4
      PROVE  Takes(0)
  <2>1. ExtensionOf(mode, reg, size) = Extension(0, "")
    <3>1. mode = 0 \/ mode = 1 \/ mode = 2 \/ mode = 3 \/ mode = 4
      BY <1>2
    <3>2. CASE mode = 0
      BY <3>2 DEF ExtensionOf
    <3>3. CASE mode = 1
      BY <3>3 DEF ExtensionOf
    <3>4. CASE mode = 2
      BY <3>4 DEF ExtensionOf
    <3>5. CASE mode = 3
      BY <3>5 DEF ExtensionOf
    <3>6. CASE mode = 4
      BY <3>6 DEF ExtensionOf
    <3> QED BY <3>1, <3>2, <3>3, <3>4, <3>5, <3>6
  <2> QED BY <2>1, Zenon
<1>3. ASSUME mode = 5
      PROVE  Takes(2)
  <2>1. ExtensionOf(mode, reg, size) = Extension(2, "displacement")
    BY <1>3 DEF ExtensionOf
  <2> QED BY <2>1, Zenon
<1>4. ASSUME mode = 6
      PROVE  Takes(2)
  <2>1. ExtensionOf(mode, reg, size) = Extension(2, "index extension word")
    BY <1>4 DEF ExtensionOf
  <2> QED BY <2>1, Zenon
<1>5. ASSUME mode = 7 /\ reg = 0
      PROVE  Takes(2)
  <2>1. ExtensionOf(mode, reg, size) = Extension(2, "absolute short address")
    BY <1>5 DEF ExtensionOf
  <2> QED BY <2>1, Zenon
<1>6. ASSUME mode = 7 /\ reg = 1
      PROVE  Takes(4)
  <2>1. ExtensionOf(mode, reg, size) = Extension(4, "absolute long address")
    BY <1>6 DEF ExtensionOf
  <2> QED BY <2>1, Zenon
<1>7. ASSUME mode = 7 /\ reg = 2
      PROVE  Takes(2)
  <2>1. ExtensionOf(mode, reg, size) = Extension(2, "pc displacement")
    BY <1>7 DEF ExtensionOf
  <2> QED BY <2>1, Zenon
<1>8. ASSUME mode = 7 /\ reg = 3
      PROVE  Takes(2)
  <2>1. ExtensionOf(mode, reg, size) = Extension(2, "pc index extension word")
    BY <1>8 DEF ExtensionOf
  <2> QED BY <2>1, Zenon
<1>9. ASSUME mode = 7 /\ reg = 4 /\ size = 4
      PROVE  Takes(4)
  <2>1. ExtensionOf(mode, reg, size) = Extension(4, "long immediate")
    BY <1>9 DEF ExtensionOf
  <2> QED BY <2>1, Zenon
<1>10. ASSUME mode = 7 /\ reg = 4 /\ size # 4
      PROVE  Takes(2)
  <2>1. ExtensionOf(mode, reg, size) = Extension(2, "immediate")
    BY <1>10 DEF ExtensionOf
  <2> QED BY <2>1, Zenon
<1> HIDE DEF Takes
<1> QED BY <1>1, <1>2, <1>3, <1>4, <1>5, <1>6, <1>7, <1>8, <1>9, <1>10
        DEF Displaced, AbsoluteShort, AbsoluteLong, ImmediateLong, ImmediateWord

\* The bytes behind the opcode word that an address takes.
Width(mode, reg, size) == ExtensionOf(mode, reg, size).bytes

\* o is a sound operand read from the words from `at` to before `next`.
SoundFrom(o, at, next, w, address) ==
  /\ next \in Nat /\ at <= next /\ next <= Len(w) + 1
  /\ ReadsSoundly(o, at..(next - 1), w, address)

\* ea is decodeEAWithSize's answer for such an operand.
EASaid(ea, at, next, w, address) ==
  ea.next = next /\ SoundFrom(ea.operand, at, next, w, address)

\* decodeEAWithSize, for an address that lies within the instruction.
LEMMA EASound ==
  ASSUME NEW w, NEW address \in Nat, NEW at \in Nat, NEW next \in Nat,
         NEW mode \in Nat, NEW reg \in Nat, NEW size \in Sizes,
         Words(w), at >= 1, next <= Len(w) + 1,
         mode <= 7, reg <= 7, ValidMode(mode, reg),
         Width(mode, reg, size) = 2 * (next - at)
  PROVE  EASaid(decodeEA(w, at, mode, reg, size), at, next, w, address)
<1>o. PICK o : o = decodeAddressingMode(w, at, mode, reg, size)
  OBVIOUS
<1>b. PICK bytes : bytes = ExtensionOf(mode, reg, size).bytes
  OBVIOUS
<1>1. /\ decodeEA(w, at, mode, reg, size).operand = o
      /\ decodeEA(w, at, mode, reg, size).next = at + (bytes \div 2)
  BY <1>o, <1>b DEF decodeEA
<1>2. bytes \in {0, 2, 4} /\ bytes = 2 * (next - at)
  <2>1. mode \in 0..7 /\ reg \in 0..7
    OBVIOUS
  <2>2. ExtensionOf(mode, reg, size).bytes \in {0, 2, 4}
    BY <2>1, ExtensionBytes
  <2> QED BY <1>b, <2>2 DEF Width
<1>3. at + (bytes \div 2) = next /\ at <= next
  BY <1>2
<1>5. ASSUME mode <= 4
      PROVE  ReadsSoundly(o, at..(next - 1), w, address)
  <2>1. next = at
    BY <1>2, <1>5, <1>b, ExtensionCases
  <2>2. ReadsSoundly(o, {}, w, address)
    BY <1>5, <1>o, NoWordModes
  <2> QED BY <2>1, <2>2, Intervals
<1>6. ASSUME Displaced(mode, reg) \/ AbsoluteShort(mode, reg) \/ ImmediateWord(mode, reg, size)
      PROVE  ReadsSoundly(o, at..(next - 1), w, address)
  <2>0. bytes = 2
    BY <1>6, <1>b, ExtensionCases
  <2>1. next = at + 1 /\ at \in 1..Len(w)
    BY <1>2, <2>0 DEF Words
  <2>2. ReadsSoundly(o, OneWord(at), w, address)
    BY <1>6, <1>o, <2>1, OneWordModes
  <2> QED BY <2>1, <2>2, Intervals
<1>7. ASSUME AbsoluteLong(mode, reg) \/ ImmediateLong(mode, reg, size)
      PROVE  ReadsSoundly(o, at..(next - 1), w, address)
  <2>0. bytes = 4
    BY <1>7, <1>b, ExtensionCases
  <2>1. next = at + 2 /\ at \in 1..Len(w) /\ at + 1 \in 1..Len(w)
    BY <1>2, <2>0 DEF Words
  <2>2. ReadsSoundly(o, BothWords(at), w, address)
    BY <1>7, <1>o, <2>1, TwoWordModes
  <2> QED BY <2>1, <2>2, Intervals
<1>8. ReadsSoundly(o, at..(next - 1), w, address)
  BY <1>5, <1>6, <1>7, Switch
<1> QED BY <1>1, <1>3, <1>8 DEF SoundFrom, EASaid

-----------------------------------------------------------------------------
(* A decoder's verdict and what it says of the operands.                   *)

\* The verdict of a decoder that has used the words before `next`.
At(next) == Ok(2 * (next - 1))

\* `said` is about the words before `next`, all of them but the opcode used once.
WellSaid(said, next, w, address) ==
  \/ said = None /\ next = 2
  \/ \E o : said = One(o, next) /\ SoundFrom(o, 2, next, w, address)
  \/ \E o1, o2 : \E mid \in Nat :
       /\ said = Two(o1, o2, next)
       /\ \/ SoundFrom(o1, 2, mid, w, address) /\ SoundFrom(o2, mid, next, w, address)
          \/ SoundFrom(o2, 2, mid, w, address) /\ SoundFrom(o1, mid, next, w, address)

\* A length check that succeeds.
Succeeds(verdict) == verdict.kind = "ok"

\* ... and the verdict that of the length checks.
Right(said, verdict, w, address) ==
  \E next \in Nat :
    /\ 2 <= next /\ next <= Len(w) + 1
    /\ verdict = At(next)
    /\ WellSaid(said, next, w, address)

\* Nothing said of an instruction of one word.
LEMMA NoneSaid ==
  ASSUME NEW w, Words(w), Len(w) >= 1, NEW address \in Nat
  PROVE  Right(None, Start, w, address)
<1>1. Start = At(2) /\ 2 <= Len(w) + 1
  BY DEF Start, At, Words
<1> QED BY <1>1 DEF Right, WellSaid

\* One operand, read from all the words behind the opcode.
LEMMA OneSaid ==
  ASSUME NEW w, Words(w), NEW address \in Nat, NEW o, NEW next \in Nat,
         SoundFrom(o, 2, next, w, address)
  PROVE  Right(One(o, next), At(next), w, address)
<1>1. 2 <= next /\ next <= Len(w) + 1
  BY DEF SoundFrom
<1>2. WellSaid(One(o, next), next, w, address)
  BY DEF WellSaid
<1> QED BY <1>1, <1>2 DEF Right

\* Two operands that share the words behind the opcode, in either order.
LEMMA TwoSaid ==
  ASSUME NEW w, Words(w), NEW address \in Nat, NEW o1, NEW o2, NEW mid \in Nat, NEW next \in Nat,
         \/ SoundFrom(o1, 2, mid, w, address) /\ SoundFrom(o2, mid, next, w, address)
         \/ SoundFrom(o2, 2, mid, w, address) /\ SoundFrom(o1, mid, next, w, address)
  PROVE  Right(Two(o1, o2, next), At(next), w, address)
<1>1. 2 <= next /\ next <= Len(w) + 1
  BY DEF SoundFrom
<1>2. WellSaid(Two(o1, o2, next), next, w, address)
  BY Zenon DEF WellSaid
<1> QED BY <1>1, <1>2 DEF Right

\* A register, or another operand without words, takes no place.
LEMMA PlainFrom ==
  ASSUME NEW w, NEW address \in Nat, NEW at \in Nat, at <= Len(w) + 1, NEW kind, NEW text
  PROVE  SoundFrom(OperandOf(kind, text, {}), at, at, w, address)
<1>1. {} = at..(at - 1)
  BY Intervals
<1>2. ReadsSoundly(OperandOf(kind, text, {}), {}, w, address)
  BY PlainSound
<1> QED BY <1>1, <1>2 DEF SoundFrom

\* A register takes no words.
LEMMA RegisterFrom ==
  ASSUME NEW w, NEW address \in Nat, NEW at \in Nat, at <= Len(w) + 1, NEW number
  PROVE  /\ SoundFrom(DataRegister(number), at, at, w, address)
         /\ SoundFrom(AddressRegister(number), at, at, w, address)
BY PlainFrom DEF DataRegister, AddressRegister, registerOperand

\* The immediate of an instruction, in the opcode word or behind it.
LEMMA ImmediateFrom ==
  ASSUME NEW w, NEW address \in Nat, NEW at \in Nat, NEW next \in Nat,
         at <= next, next <= Len(w) + 1,
         NEW text, NEW size \in Sizes, NEW value \in Nat, value <= Values(size) - 1
  PROVE  SoundFrom(immediateOperand(text, value, size, at..(next - 1)), at, next, w, address)
<1> DEFINE reads == at..(next - 1)
<1> HIDE DEF reads
<1>1. ReadsSoundly(immediateOperand(text, value, size, reads), reads, w, address)
  BY ImmediateSound
<1> QED BY <1>1 DEF SoundFrom, reads

\* An address whose length check succeeds was checked at a known place ...
LEMMA EACursor ==
  ASSUME NEW cursor, NEW len \in Nat, NEW mode \in Nat, NEW reg \in Nat, NEW size,
         mode <= 7, reg <= 7, Succeeds(EA(cursor, len, mode, reg, size))
  PROVE  Succeeds(cursor) /\ ValidMode(mode, reg)
<1>1. ValidMode(mode, reg)
  BY Fields DEF Succeeds, EA, Abort
<1>2. Succeeds(cursor)
  BY <1>1 DEF Succeeds, EA, Fetch
<1> QED BY <1>1, <1>2

\* ... and is a sound operand.
LEMMA EAFollows ==
  ASSUME NEW w, Words(w), NEW address \in Nat, NEW at \in Nat, at >= 2,
         NEW mode \in Nat, NEW reg \in Nat, NEW size \in Sizes,
         mode <= 7, reg <= 7,
         Succeeds(EA(At(at), 2 * Len(w), mode, reg, size))
  PROVE  \E next \in Nat :
           /\ EA(At(at), 2 * Len(w), mode, reg, size) = At(next)
           /\ EASaid(decodeEA(w, at, mode, reg, size), at, next, w, address)
<1>b. PICK ext : ext = ExtensionOf(mode, reg, size)
  OBVIOUS
<1>v. ValidMode(mode, reg)
  <2>1. PICK c : c = At(at)
    OBVIOUS
  <2>2. PICK len \in Nat : len = 2 * Len(w)
    BY DEF Words
  <2>3. Succeeds(EA(c, len, mode, reg, size))
    BY <2>1, <2>2
  <2> QED BY <2>3, EACursor
<1>1. ext.bytes \in {0, 2, 4}
  <2>1. mode \in 0..7 /\ reg \in 0..7
    OBVIOUS
  <2>2. ExtensionOf(mode, reg, size).bytes \in {0, 2, 4}
    BY <1>v, <2>1, ExtensionBytes
  <2> QED BY <1>b, <2>2
<1>2. EA(At(at), 2 * Len(w), mode, reg, size) = Fetch(At(at), 2 * Len(w), ext.bytes, ext.context)
  BY <1>b, <1>v DEF EA
<1>3. At(at).kind = "ok" /\ At(at).size = 2 * (at - 1)
  BY Fields DEF At
<1>4. 2 * Len(w) >= 2 * (at - 1) + ext.bytes
  BY <1>2, <1>3, Fields DEF Succeeds, Fetch
<1>5. EA(At(at), 2 * Len(w), mode, reg, size) = Ok(2 * (at - 1) + ext.bytes)
  BY <1>2, <1>3, <1>4 DEF Fetch
<1>6. PICK next \in Nat : ext.bytes = 2 * (next - at)
  <2>1. ext.bytes = 2 * ((at + (ext.bytes \div 2)) - at) /\ at + (ext.bytes \div 2) \in Nat
    BY <1>1
  <2> QED BY <2>1
<1>7. 2 * (at - 1) + ext.bytes = 2 * (next - 1) /\ next <= Len(w) + 1
  BY <1>1, <1>4, <1>6 DEF Words
<1>8. EA(At(at), 2 * Len(w), mode, reg, size) = At(next)
  BY <1>5, <1>7 DEF At
<1>9. EASaid(decodeEA(w, at, mode, reg, size), at, next, w, address)
  <2>1. Width(mode, reg, size) = 2 * (next - at)
    BY <1>b, <1>6 DEF Width
  <2>2. at >= 1 /\ next <= Len(w) + 1
    BY <1>7
  <2> QED BY <1>v, <2>1, <2>2, EASound, Zenon
<1> QED BY <1>8, <1>9

\* decodeEAFromOpcode: the same with the address in the opcode word.
LEMMA SourceFollows ==
  ASSUME NEW w, NEW address \in Nat, NEW at \in Nat, NEW op \in Nat, NEW size \in Sizes,
         Words(w), at >= 2, Succeeds(SourceEA(At(at), op, 2 * Len(w), size))
  PROVE  \E next \in Nat :
           /\ SourceEA(At(at), op, 2 * Len(w), size) = At(next)
           /\ EASaid(Source(op, w, at, size), at, next, w, address)
<1> DEFINE mode == SrcMode(op)
           reg  == SrcReg(op)
<1>1. mode \in Nat /\ reg \in Nat /\ mode <= 7 /\ reg <= 7
  BY FieldRanges
<1>2. /\ SourceEA(At(at), op, 2 * Len(w), size) = EA(At(at), 2 * Len(w), mode, reg, size)
      /\ Source(op, w, at, size) = decodeEA(w, at, mode, reg, size)
  BY DEF SourceEA, Source
<1> HIDE DEF mode, reg
<1> QED BY <1>1, <1>2, EAFollows

\* decodeEA succeeds only behind words that were there.
LEMMA SourceCursor ==
  ASSUME NEW cursor, NEW len \in Nat, NEW op \in Nat, NEW size,
         Succeeds(SourceEA(cursor, op, len, size))
  PROVE  Succeeds(cursor)
<1>1. SrcMode(op) \in Nat /\ SrcReg(op) \in Nat /\ SrcMode(op) <= 7 /\ SrcReg(op) <= 7
  BY FieldRanges
<1>2. Succeeds(EA(cursor, len, SrcMode(op), SrcReg(op), size))
  BY DEF SourceEA
<1> QED BY <1>1, <1>2, EACursor

\* An extension word or two whose length check succeeds.
LEMMA FetchFollows ==
  ASSUME NEW w, NEW at \in Nat, NEW count \in Nat, NEW what,
         Words(w), at >= 2, Succeeds(Fetch(At(at), 2 * Len(w), 2 * count, what))
  PROVE  /\ Fetch(At(at), 2 * Len(w), 2 * count, what) = At(at + count)
         /\ at + count <= Len(w) + 1
<1>1. At(at).kind = "ok" /\ At(at).size = 2 * (at - 1)
  BY Fields DEF At
<1>2. 2 * Len(w) >= 2 * (at - 1) + 2 * count
  BY <1>1, Fields DEF Succeeds, Fetch
<1>3. Fetch(At(at), 2 * Len(w), 2 * count, what) = Ok(2 * (at - 1) + 2 * count)
  BY <1>1, <1>2 DEF Fetch
<1>4. 2 * (at - 1) + 2 * count = 2 * ((at + count) - 1)
  OBVIOUS
<1>5. at + count <= Len(w) + 1
  BY <1>2 DEF Words
<1> QED BY <1>3, <1>4, <1>5 DEF At

\* The verdict of a length check for one word or two behind the opcode, and
\* what it says of them.
OneFetched(c, w) == c = At(3) /\ 2 <= Len(w) /\ w[2] \in Nat /\ w[2] < 65536

TwoFetched(c, w) ==
  /\ c = At(4) /\ 3 <= Len(w)
  /\ Long(w[2], w[3]) \in Nat /\ Long(w[2], w[3]) < AddressSpace

\* The word or the two words behind the opcode.
LEMMA WordAt ==
  ASSUME NEW w, NEW k \in Nat, Words(w), k >= 1, k <= Len(w)
  PROVE  w[k] \in Nat /\ w[k] < 65536
BY DEF Words

\* A length check for one extension word.
LEMMA WordFetched ==
  ASSUME NEW w, NEW what, Words(w), Succeeds(Fetch(Start, 2 * Len(w), 2, what))
  PROVE  OneFetched(Fetch(Start, 2 * Len(w), 2, what), w)
<1>1. PICK at \in Nat, count \in Nat, third \in Nat : at = 2 /\ count = 1 /\ third = 3
  OBVIOUS
<1>2. Fetch(Start, 2 * Len(w), 2, what) = Fetch(At(at), 2 * Len(w), 2 * count, what)
  <2>1. Start = At(at) /\ 2 = 2 * count
    BY <1>1 DEF Start, At
  <2> QED BY <2>1
<1>3. Fetch(Start, 2 * Len(w), 2, what) = At(at + count) /\ at + count <= Len(w) + 1
  BY <1>1, <1>2, FetchFollows
<1>4. at + count = third /\ 2 <= Len(w)
  BY <1>1, <1>3 DEF Words
<1>5. w[at] \in Nat /\ w[at] < 65536
  BY <1>1, <1>4, WordAt
<1> QED BY <1>1, <1>2, <1>3, <1>4, <1>5 DEF OneFetched

\* A length check for two extension words.
LEMMA BothFetched ==
  ASSUME NEW w, NEW what, Words(w), Succeeds(Fetch(Start, 2 * Len(w), 4, what))
  PROVE  TwoFetched(Fetch(Start, 2 * Len(w), 4, what), w)
<1>a. PICK at \in Nat, count \in Nat : at = 2 /\ count = 2
  OBVIOUS
<1>b. PICK third \in Nat, fourth \in Nat : third = 3 /\ fourth = 4
  OBVIOUS
<1>1. at = 2 /\ count = 2 /\ third = 3 /\ fourth = 4
  BY <1>a, <1>b
<1>2. Fetch(Start, 2 * Len(w), 4, what) = Fetch(At(at), 2 * Len(w), 2 * count, what)
  <2>1. Start = At(at) /\ 4 = 2 * count
    BY <1>1 DEF Start, At
  <2> QED BY <2>1
<1>3. Fetch(Start, 2 * Len(w), 4, what) = At(at + count) /\ at + count <= Len(w) + 1
  <2>1. at >= 2 /\ Succeeds(Fetch(At(at), 2 * Len(w), 2 * count, what))
    BY <1>1, <1>2
  <2> QED BY <1>2, <2>1, FetchFollows
<1>4. at + count = fourth /\ 3 <= Len(w)
  BY <1>1, <1>3 DEF Words
<1>5. /\ w[at] \in Nat /\ w[at] < 65536
      /\ w[third] \in Nat /\ w[third] < 65536
  BY <1>1, <1>4, WordAt DEF Words
<1>6. PICK long : long = Long(w[at], w[third])
  OBVIOUS
<1>7. long \in Address
  BY <1>5, <1>6, LongAddress
<1>8. long \in Nat /\ long < AddressSpace
  BY <1>7, PagesOfAddressSpace DEF Address
<1> QED BY <1>1, <1>2, <1>3, <1>4, <1>6, <1>8 DEF TwoFetched

\* An immediate in the word behind the opcode.
LEMMA WordImmediate ==
  ASSUME NEW w, NEW address \in Nat, NEW text, NEW size \in Sizes, NEW value \in Nat,
         Words(w), 2 <= Len(w), value <= Values(size) - 1
  PROVE  SoundFrom(immediateOperand(text, value, size, {2}), 2, 3, w, address)
<1>1. PICK at \in Nat, next \in Nat : at = 2 /\ next = 3
  OBVIOUS
<1>2. SoundFrom(immediateOperand(text, value, size, at..(next - 1)), at, next, w, address)
  <2>1. at <= next /\ next <= Len(w) + 1
    BY <1>1 DEF Words
  <2> QED BY <2>1, ImmediateFrom
<1>3. at..(next - 1) = {2}
  BY <1>1
<1> QED BY <1>1, <1>2, <1>3

\* An instruction with one address, alone or with a register before or behind it.
AddressSaid(ea, v, number, w, address) ==
  /\ Right(One(ea.operand, ea.next), v, w, address)
  /\ Right(ToRegister(ea, DataRegister(number)), v, w, address)
  /\ Right(ToRegister(ea, AddressRegister(number)), v, w, address)
  /\ Right(Two(DataRegister(number), ea.operand, ea.next), v, w, address)

\* An effective address behind the opcode, in each of the decoders' forms.
LEMMA OneAddressSaid ==
  ASSUME NEW w, NEW address \in Nat, NEW op \in Nat, NEW size \in Sizes, NEW number,
         Words(w), Succeeds(SourceEA(Start, op, 2 * Len(w), size))
  PROVE  AddressSaid(Source(op, w, 2, size), SourceEA(Start, op, 2 * Len(w), size), number,
                     w, address)
<1>1. Start = At(2)
  BY DEF Start, At
<1>2. PICK next \in Nat :
        /\ SourceEA(Start, op, 2 * Len(w), size) = At(next)
        /\ EASaid(Source(op, w, 2, size), 2, next, w, address)
  BY <1>1, SourceFollows
<1>e. PICK ea : ea = Source(op, w, 2, size)
  OBVIOUS
<1>3. ea.next = next /\ SoundFrom(ea.operand, 2, next, w, address)
  BY <1>2, <1>e DEF EASaid
<1>4. next <= Len(w) + 1
  BY <1>3 DEF SoundFrom
<1>5. /\ SoundFrom(DataRegister(number), next, next, w, address)
      /\ SoundFrom(AddressRegister(number), next, next, w, address)
  BY <1>4, RegisterFrom
<1>6. Right(One(ea.operand, next), At(next), w, address)
  BY <1>3, OneSaid
<1>7. /\ Right(Two(ea.operand, DataRegister(number), next), At(next), w, address)
      /\ Right(Two(ea.operand, AddressRegister(number), next), At(next), w, address)
      /\ Right(Two(DataRegister(number), ea.operand, next), At(next), w, address)
  BY <1>3, <1>5, TwoSaid
<1> QED BY <1>2, <1>3, <1>6, <1>7, <1>e DEF AddressSaid, ToRegister

-----------------------------------------------------------------------------
(* The decoders.                                                           *)

\* Of an instruction it accepts, a decoder says what the length checks used.
Describes(decoder, op, w, address) ==
  Succeeds(Decode(decoder, op, 2 * Len(w))) =>
    Right(OperandsOf(decoder, op, w, address), Decode(decoder, op, 2 * Len(w)), w, address)

\* op is the opcode word of w.
OpcodeWord(op, w) == op = w[1] /\ op < 65536 /\ Len(w) >= 1

\* A value that is a field of the opcode word.
LEMMA FieldImmediate ==
  ASSUME NEW w, NEW address \in Nat, NEW text, NEW size \in Sizes, NEW value \in Nat,
         Words(w), Len(w) >= 1, value <= Values(size) - 1
  PROVE  SoundFrom(immediateOperand(text, value, size, {}), 2, 2, w, address)
<1>1. 2..(2 - 1) = {} /\ 2 <= Len(w) + 1
  BY DEF Words
<1>2. ReadsSoundly(immediateOperand(text, value, size, {}), {}, w, address)
  BY ImmediateSound
<1> QED BY <1>1, <1>2 DEF SoundFrom

\* NOP, RTS, TRAPV; TRAP; SWAP; MOVEQ; ABCD, SBCD: no word but the opcode.
LEMMA InherentSaid ==
  ASSUME NEW w, NEW address \in Nat, NEW op \in Nat, NEW decoder \in Inherent,
         Words(w), OpcodeWord(op, w)
  PROVE  Right(OperandsOf(decoder, op, w, address), Start, w, address)
<1>0. Start = At(2) /\ Len(w) >= 1 /\ 2 <= Len(w) + 1
  BY DEF Start, At, OpcodeWord, Words
<1>r. \A number : SoundFrom(DataRegister(number), 2, 2, w, address)
  BY <1>0, RegisterFrom
<1>p. \A kind, text : SoundFrom(OperandOf(kind, text, {}), 2, 2, w, address)
  BY <1>0, PlainFrom
<1>1. CASE decoder \in {"NOP", "RTS", "TRAPV"}
  <2>1. OperandsOf(decoder, op, w, address) = None
    BY <1>1 DEF OperandsOf, NoDecoder
  <2> QED BY <1>0, <2>1, NoneSaid
<1>2. CASE decoder = "TRAP"
  <2> DEFINE o == immediateOperand(<<"#", op % 16, 0>>, op % 16, 1, {})
  <2>1. OperandsOf(decoder, op, w, address) = One(o, 2)
    BY <1>2 DEF OperandsOf, NoDecoder
  <2>2. op % 16 \in Nat /\ op % 16 <= Values(1) - 1 /\ 1 \in Sizes
    BY ValuesCases DEF Sizes
  <2>3. SoundFrom(o, 2, 2, w, address)
    BY <1>0, <2>2, FieldImmediate
  <2> HIDE DEF o
  <2> QED BY <1>0, <2>1, <2>3, OneSaid
<1>3. CASE decoder = "SWAP"
  <2>1. OperandsOf(decoder, op, w, address) = One(DataRegister(SrcReg(op)), 2)
    BY <1>3 DEF OperandsOf, NoDecoder
  <2> QED BY <1>0, <1>r, <2>1, OneSaid
<1>4. CASE decoder = "MOVEQ"
  <2> DEFINE text == formatImmediateForMOVEQ(AsSigned(Displacement(op), 1))
             o    == immediateOperand(text, Displacement(op), 1, {})
  <2>1. OperandsOf(decoder, op, w, address) = Two(o, DataRegister(DstReg(op)), 2)
    BY <1>4 DEF OperandsOf, NoDecoder, MoveqOperands
  <2> HIDE DEF text
  <2>2. Displacement(op) \in Nat /\ Displacement(op) <= Values(1) - 1 /\ 1 \in Sizes
    BY ValuesCases DEF Sizes, Displacement
  <2>3. SoundFrom(o, 2, 2, w, address)
    BY <1>0, <2>2, FieldImmediate
  <2> HIDE DEF o
  <2> QED BY <1>0, <1>r, <2>1, <2>3, TwoSaid
<1>5. CASE decoder \in {"ABCD", "SBCD"}
  <2>1. OperandsOf(decoder, op, w, address) = DecimalOperands(op)
    BY <1>5 DEF OperandsOf, NoDecoder
  <2>2. Right(Two(DataRegister(SrcReg(op)), DataRegister(DstReg(op)), 2), Start, w, address)
    BY <1>0, <1>r, TwoSaid
  <2>3. Right(Pair("-(A)", op), Start, w, address)
    BY <1>0, <1>p, TwoSaid DEF Pair, effectiveAddressOperand
  <2> QED BY <2>1, <2>2, <2>3 DEF DecimalOperands
<1> QED BY <1>1, <1>2, <1>3, <1>4, <1>5 DEF Inherent

\* decodeSingleOp, decodeLEA, decodeJSR, decodeMULU, ...
LEMMA OneAddressDescribed ==
  ASSUME NEW w, NEW address \in Nat, NEW op \in Nat, NEW decoder \in OneAddress,
         Words(w), OpcodeWord(op, w)
  PROVE  Describes(decoder, op, w, address)
<1> DEFINE v == SourceEA(Start, op, 2 * Len(w), 2)
<1>1. decoder \notin Inherent /\ decoder # NoDecoder
  BY DEF OneAddress, Inherent, NoDecoder
<1>2. Decode(decoder, op, 2 * Len(w)) = v
  BY <1>1 DEF Decode, OneAddress, Inherent
<1> SUFFICES ASSUME Succeeds(v)
             PROVE  Right(OperandsOf(decoder, op, w, address), v, w, address)
  BY <1>2 DEF Describes
<1>3. AddressSaid(Source(op, w, 2, 2), v, DstReg(op), w, address)
  BY OneAddressSaid DEF Sizes
<1> HIDE DEF v
<1>e. PICK ea : ea = Source(op, w, 2, 2)
  OBVIOUS
<1>4. CASE decoder \in {"JSR", "JMP", "PEA", "CLR", "NEG", "NEGX", "NOT", "TST"}
  <2>1. OperandsOf(decoder, op, w, address) = One(ea.operand, ea.next)
    BY <1>4, <1>e DEF OperandsOf, NoDecoder
  <2> QED BY <1>3, <1>e, <2>1 DEF AddressSaid
<1>5. CASE decoder = "LEA"
  <2>1. OperandsOf(decoder, op, w, address) = ToRegister(ea, AddressRegister(DstReg(op)))
    BY <1>5, <1>e DEF OperandsOf, NoDecoder
  <2> QED BY <1>3, <1>e, <2>1 DEF AddressSaid
<1>6. CASE decoder \in {"MULU", "MULS", "DIVU", "DIVS"}
  <2>1. OperandsOf(decoder, op, w, address) = ToRegister(ea, DataRegister(DstReg(op)))
    BY <1>6, <1>e DEF OperandsOf, NoDecoder
  <2> QED BY <1>3, <1>e, <2>1 DEF AddressSaid
<1> QED BY <1>4, <1>5, <1>6 DEF OneAddress

\* decodeDirectedBinaryOp: the direction bit puts the register first or last.
LEMMA DirectedSaid ==
  ASSUME NEW w, NEW address \in Nat, NEW op \in Nat, Words(w),
         Succeeds(DirectedBinaryOp(op, 2 * Len(w)))
  PROVE  Right(DirectedOperands(op, w), DirectedBinaryOp(op, 2 * Len(w)), w, address)
<1> DEFINE size == OperandSize(SizeBits(op))
           v    == SourceEA(Start, op, 2 * Len(w), size)
           reg  == DataRegister(DstReg(op))
<1>1. SizeBits(op) # 3
  BY Fields DEF Succeeds, DirectedBinaryOp
<1>2. DirectedBinaryOp(op, 2 * Len(w)) = v
  BY <1>1 DEF DirectedBinaryOp
<1>3. size \in Sizes
  BY DEF OperandSize, Sizes
<1>e. PICK ea : ea = Source(op, w, 2, size)
  OBVIOUS
<1>4. DirectedOperands(op, w) = IF Direction(op) = 0 THEN Two(ea.operand, reg, ea.next)
                                                     ELSE Two(reg, ea.operand, ea.next)
  <2>1. reg.text = <<"D", DstReg(op)>>
    BY DEF DataRegister, registerOperand, OperandOf
  <2>2. DirectedOperands(op, w) =
          setInstruction(buildDirectedOperands(Direction(op), ea.operand.text, DstReg(op)),
                         IF Direction(op) = 0 THEN <<ea.operand, reg>> ELSE <<reg, ea.operand>>,
                         ea.next)
    BY <1>e DEF DirectedOperands
  <2> HIDE DEF reg
  <2>3. CASE Direction(op) = 0
    BY <2>1, <2>2, <2>3 DEF buildDirectedOperands, Two
  <2>4. CASE Direction(op) # 0
    BY <2>1, <2>2, <2>4 DEF buildDirectedOperands, Two
  <2> QED BY <2>3, <2>4
<1> HIDE DEF size
<1>5. AddressSaid(ea, v, DstReg(op), w, address)
  BY <1>2, <1>3, <1>e, OneAddressSaid
<1> HIDE DEF v
<1> QED BY <1>2, <1>4, <1>5 DEF AddressSaid, ToRegister

\* decodeAddressRegisterArithmetic, decodeCMPA.
LEMMA AddressRegisterSaid ==
  ASSUME NEW w, NEW address \in Nat, NEW op \in Nat, Words(w),
         Succeeds(AddressRegisterOp(op, 2 * Len(w)))
  PROVE  Right(AddressRegisterOperands(op, w), AddressRegisterOp(op, 2 * Len(w)), w, address)
<1> DEFINE size == IF Opmode(op) = 7 THEN 4 ELSE 2
<1>1. size \in Sizes
  BY DEF Sizes
<1>2. /\ AddressRegisterOp(op, 2 * Len(w)) = SourceEA(Start, op, 2 * Len(w), size)
      /\ AddressRegisterOperands(op, w) =
           ToRegister(Source(op, w, 2, size), AddressRegister(DstReg(op)))
  BY DEF AddressRegisterOp, AddressRegisterOperands
<1> HIDE DEF size
<1>3. AddressSaid(Source(op, w, 2, size), SourceEA(Start, op, 2 * Len(w), size), DstReg(op),
                  w, address)
  BY <1>1, <1>2, OneAddressSaid
<1> QED BY <1>2, <1>3 DEF AddressSaid

\* decodeADD, decodeSUB.
LEMMA AddSubSaid ==
  ASSUME NEW w, NEW address \in Nat, NEW op \in Nat, Words(w),
         Succeeds(AddSub(op, 2 * Len(w)))
  PROVE  Right(AddSubOperands(op, w), AddSub(op, 2 * Len(w)), w, address)
<1>1. CASE Opmode(op) \in {3, 7}
  BY <1>1, AddressRegisterSaid DEF AddSub, AddSubOperands
<1>2. CASE Opmode(op) \notin {3, 7}
  BY <1>2, DirectedSaid DEF AddSub, AddSubOperands
<1> QED BY <1>1, <1>2

\* decodeCMP, in the order of its tests.
LEMMA CompareSaid ==
  ASSUME NEW w, NEW address \in Nat, NEW op \in Nat, Words(w), OpcodeWord(op, w),
         Succeeds(Compare(op, 2 * Len(w)))
  PROVE  Right(CompareOperands(op, w), Compare(op, 2 * Len(w)), w, address)
<1>1. CASE Direction(op) = 1 /\ SrcMode(op) = 1
  <2>1. Start = At(2) /\ 2 <= Len(w) + 1
    BY DEF Start, At, OpcodeWord, Words
  <2>2. \A kind, text : SoundFrom(OperandOf(kind, text, {}), 2, 2, w, address)
    BY <2>1, PlainFrom
  <2>3. Right(Pair("(A)+", op), Start, w, address)
    BY <2>1, <2>2, TwoSaid DEF Pair, effectiveAddressOperand
  <2> QED BY <1>1, <2>3 DEF Compare, CompareOperands
<1>2. CASE ~(Direction(op) = 1 /\ SrcMode(op) = 1)
  <2>0. Opmode(op) \in 0..7
    BY FieldRanges
  <2>1. CASE Opmode(op) \in {3, 7}
    <3>1. /\ Compare(op, 2 * Len(w)) = AddressRegisterOp(op, 2 * Len(w))
          /\ CompareOperands(op, w) = AddressRegisterOperands(op, w)
      BY <1>2, <2>1 DEF Compare, CompareOperands
    <3> QED BY <3>1, AddressRegisterSaid
  <2>2. CASE Opmode(op) \in 4..6
    <3>1. /\ Compare(op, 2 * Len(w)) = DirectedBinaryOp(op, 2 * Len(w))
          /\ CompareOperands(op, w) = DirectedOperands(op, w)
      BY <1>2, <2>2 DEF Compare, CompareOperands
    <3> QED BY <3>1, DirectedSaid
  <2>3. CASE Opmode(op) \in 0..2
    <3> DEFINE size == OperandSize(Opmode(op))
    <3>1. /\ Compare(op, 2 * Len(w)) = SourceEA(Start, op, 2 * Len(w), size)
          /\ CompareOperands(op, w) =
               ToRegister(Source(op, w, 2, size), DataRegister(DstReg(op)))
      BY <1>2, <2>3 DEF Compare, CompareOperands
    <3>2. size \in Sizes
      BY DEF OperandSize, Sizes
    <3> HIDE DEF size
    <3>3. AddressSaid(Source(op, w, 2, size), SourceEA(Start, op, 2 * Len(w), size), DstReg(op),
                      w, address)
      BY <3>1, <3>2, OneAddressSaid
    <3> QED BY <3>1, <3>3 DEF AddressSaid
  <2> QED BY <2>0, <2>1, <2>2, <2>3
<1> QED BY <1>1, <1>2

\* decodeShiftRotate.
LEMMA ShiftSaid ==
  ASSUME NEW w, NEW address \in Nat, NEW op \in Nat, Words(w), OpcodeWord(op, w),
         Succeeds(Shift(op, 2 * Len(w)))
  PROVE  Right(ShiftOperands(op, w), Shift(op, 2 * Len(w)), w, address)
<1>0. Start = At(2) /\ Len(w) >= 1 /\ 2 <= Len(w) + 1 /\ DstReg(op) \in 0..7
  BY FieldRanges DEF Start, At, OpcodeWord, Words
<1>r. \A number : SoundFrom(DataRegister(number), 2, 2, w, address)
  BY <1>0, RegisterFrom
<1>1. CASE DstReg(op) <= 3 /\ Bit(op, 5) = 0
  <2> DEFINE count == IF DstReg(op) = 0 THEN 8 ELSE DstReg(op)
             o     == immediateOperand(<<"#", count, 0>>, count, 1, {})
  <2>1. ShiftOperands(op, w) = Two(o, DataRegister(SrcReg(op)), 2) /\ Shift(op, 2 * Len(w)) = Start
    BY <1>0, <1>1 DEF ShiftOperands, Shift
  <2>2. count \in Nat /\ count <= Values(1) - 1 /\ 1 \in Sizes
    <3>1. count \in Nat /\ count <= 255
      BY <1>0
    <3> HIDE DEF count
    <3> QED BY <3>1, ValuesCases DEF Sizes
  <2> HIDE DEF count
  <2>3. SoundFrom(o, 2, 2, w, address)
    BY <1>0, <2>2, FieldImmediate
  <2> HIDE DEF o
  <2> QED BY <1>0, <1>r, <2>1, <2>3, TwoSaid
<1>2. CASE DstReg(op) <= 3 /\ Bit(op, 5) = 1
  <2>1. /\ ShiftOperands(op, w) = Two(DataRegister(DstReg(op)), DataRegister(SrcReg(op)), 2)
        /\ Shift(op, 2 * Len(w)) = Start
    BY <1>0, <1>2 DEF ShiftOperands, Shift
  <2> QED BY <1>0, <1>r, <2>1, TwoSaid
<1>3. CASE ~(DstReg(op) <= 3)
  <2>e. PICK ea : ea = Source(op, w, 2, 2)
    OBVIOUS
  <2>1. /\ ShiftOperands(op, w) = One(ea.operand, ea.next)
        /\ Shift(op, 2 * Len(w)) = SourceEA(Start, op, 2 * Len(w), 2)
    BY <1>0, <1>3, <2>e DEF ShiftOperands, Shift
  <2>2. AddressSaid(ea, SourceEA(Start, op, 2 * Len(w), 2), 0, w, address)
    BY <2>1, <2>e, OneAddressSaid DEF Sizes
  <2> QED BY <2>1, <2>2 DEF AddressSaid
<1>4. Bit(op, 5) \in {0, 1}
  BY DEF Bit
<1> QED BY <1>1, <1>2, <1>3, <1>4

\* decodeSTOP.
StopOperands(w) == One(immediateOperand(formatImmediate(w[2], 2), w[2], 2, {2}), 3)

\* STOP.
LEMMA StopSaid ==
  ASSUME NEW w, NEW address \in Nat, NEW c, Words(w), OneFetched(c, w)
  PROVE  Right(StopOperands(w), c, w, address)
<1>1. PICK value \in Nat : value = w[2] /\ value < 65536
  BY DEF OneFetched
<1>t. PICK text : text = formatImmediate(value, 2)
  OBVIOUS
<1>2. StopOperands(w) = One(immediateOperand(text, value, 2, {2}), 3)
  BY <1>1, <1>t DEF StopOperands
<1>3. 2 \in Sizes /\ value <= Values(2) - 1
  BY <1>1, ValuesCases DEF Sizes
<1>4. c = At(3) /\ 2 <= Len(w)
  BY DEF OneFetched
<1>5. SoundFrom(immediateOperand(text, value, 2, {2}), 2, 3, w, address)
  BY <1>3, <1>4, WordImmediate
<1> QED BY <1>2, <1>4, <1>5, OneSaid

\* decodeImmediateBinaryOp, decodeLogicalI, decodeCMPI: the immediate, then the address.
LEMMA ImmediateSaid ==
  ASSUME NEW w, NEW address \in Nat, NEW op \in Nat, NEW long \in BOOLEAN,
         Words(w), Len(w) >= 1, Succeeds(ImmediateOp(op, 2 * Len(w), long))
  PROVE  Right(ImmediateOperands(op, w, long), ImmediateOp(op, 2 * Len(w), long), w, address)
<1> DEFINE bytes == ImmediateBytes(SizeBits(op), long)
           c     == Fetch(Start, 2 * Len(w), bytes, "immediate")
           v     == SourceEA(c, op, 2 * Len(w), 2)
           value == IF bytes = 4 THEN Long(w[2], w[3]) ELSE w[2]
           after == 2 + (bytes \div 2)
           text  == formatImmediate(value, bytes)
           o     == immediateOperand(text, value, bytes, 2..(after - 1))
<1>1. SizeBits(op) # 3
  BY Fields DEF Succeeds, ImmediateOp
<1>2. ImmediateOp(op, 2 * Len(w), long) = v
  BY <1>1 DEF ImmediateOp
<1>e. PICK ea : ea = Source(op, w, after, 2)
  OBVIOUS
<1>3. ImmediateOperands(op, w, long) = Two(o, ea.operand, ea.next)
  BY <1>e DEF ImmediateOperands
<1>4. bytes = 2 \/ bytes = 4
  BY DEF ImmediateBytes
<1>5. Succeeds(c) /\ Succeeds(v)
  <2>1. Succeeds(v)
    BY <1>2
  <2>2. 2 * Len(w) \in Nat
    BY DEF Words
  <2> HIDE DEF c
  <2> QED BY <2>1, <2>2, SourceCursor
<1> HIDE DEF v, text, o
<1>6. /\ c = At(after) /\ after <= Len(w) + 1
      /\ value \in Nat /\ value <= Values(bytes) - 1
  <2>1. CASE bytes = 2
    <3>1. value = w[2] /\ after = 3 /\ c = Fetch(Start, 2 * Len(w), 2, "immediate")
      BY <2>1
    <3> HIDE DEF value, after, bytes, c
    <3>2. OneFetched(c, w)
      BY <1>5, <3>1, WordFetched
    <3>3. c = At(3) /\ 2 <= Len(w) /\ value \in Nat /\ value < 65536
      BY <3>1, <3>2 DEF OneFetched
    <3>4. Values(bytes) = 65536
      BY <2>1, ValuesCases
    <3>5. Len(w) \in Nat
      BY DEF Words
    <3> QED BY <3>1, <3>3, <3>4, <3>5
  <2>2. CASE bytes = 4
    <3>1. value = Long(w[2], w[3]) /\ after = 4 /\ c = Fetch(Start, 2 * Len(w), 4, "immediate")
      BY <2>2
    <3> HIDE DEF value, after, bytes, c
    <3>2. TwoFetched(c, w)
      BY <1>5, <3>1, BothFetched
    <3>3. c = At(4) /\ 3 <= Len(w) /\ value \in Nat /\ value < AddressSpace
      BY <3>1, <3>2 DEF TwoFetched
    <3>4. Values(bytes) = AddressSpace /\ AddressSpace \in Nat
      BY <2>2, ValuesCases, PagesOfAddressSpace
    <3>5. Len(w) \in Nat
      BY DEF Words
    <3> QED BY <3>1, <3>3, <3>4, <3>5
  <2> QED BY <1>4, <2>1, <2>2
<1>7. after \in Nat /\ after >= 2 /\ bytes \in Sizes
  BY <1>4 DEF Sizes
<1> HIDE DEF value, after, bytes, c
<1>9. SoundFrom(o, 2, after, w, address)
  BY <1>6, <1>7, ImmediateFrom DEF o
<1>10. PICK next \in Nat : v = At(next) /\ EASaid(ea, after, next, w, address)
  BY <1>5, <1>6, <1>7, <1>e, SourceFollows DEF v, Sizes
<1>11. ea.next = next /\ SoundFrom(ea.operand, after, next, w, address)
  BY <1>10 DEF EASaid
<1>12. Right(Two(o, ea.operand, next), At(next), w, address)
  BY <1>7, <1>9, <1>11, TwoSaid
<1> QED BY <1>2, <1>3, <1>10, <1>11, <1>12

\* decodeBitset: the bit number in a word of its own, or a register.
LEMMA BitSaid ==
  ASSUME NEW w, NEW address \in Nat, NEW op \in Nat,
         Words(w), Len(w) >= 1, Succeeds(BitOp(op, 2 * Len(w)))
  PROVE  Right(BitOperands(op, w), BitOp(op, 2 * Len(w)), w, address)
<1>0. Direction(op) = 0 \/ Direction(op) = 1
  BY DEF Direction
<1>1. CASE Direction(op) = 1
  <2>e. PICK ea : ea = Source(op, w, 2, 2)
    OBVIOUS
  <2>1. /\ BitOp(op, 2 * Len(w)) = SourceEA(Start, op, 2 * Len(w), 2)
        /\ BitOperands(op, w) = Two(DataRegister(DstReg(op)), ea.operand, ea.next)
    BY <1>1, <2>e DEF BitOp, BitOperands
  <2>2. AddressSaid(ea, SourceEA(Start, op, 2 * Len(w), 2), DstReg(op), w, address)
    BY <2>1, <2>e, OneAddressSaid DEF Sizes
  <2> QED BY <2>1, <2>2 DEF AddressSaid
<1>2. CASE Direction(op) = 0
  <2>t. PICK third \in Nat : third = 3
    OBVIOUS
  <2>n. PICK number : number = w[2] % 256
    OBVIOUS
  <2>o. PICK o : o = immediateOperand(<<"#", number, 0>>, number, 1, {2})
    OBVIOUS
  <2>e. PICK ea : ea = Source(op, w, third, 2)
    OBVIOUS
  <2>c. PICK c : c = Fetch(Start, 2 * Len(w), 2, "immediate bit number")
    OBVIOUS
  <2>v. PICK v : v = SourceEA(c, op, 2 * Len(w), 2)
    OBVIOUS
  <2>1. BitOperands(op, w) = Two(o, ea.operand, ea.next)
    BY <1>2, <2>e, <2>n, <2>o, <2>t DEF BitOperands
  <2>2. BitOp(op, 2 * Len(w)) = v
    <3> DEFINE d == IF Direction(op) = 1 THEN Start
                    ELSE Fetch(Start, 2 * Len(w), 2, "immediate bit number")
    <3>1. BitOp(op, 2 * Len(w)) = SourceEA(d, op, 2 * Len(w), 2)
      BY DEF BitOp
    <3>2. Direction(op) # 1
      BY <1>2
    <3>3. d = c
      BY <2>c, <3>2, Zenon
    <3> HIDE DEF d
    <3> QED BY <2>v, <3>1, <3>3
  <2>3. Succeeds(c) /\ Succeeds(v)
    <3>1. Succeeds(v) /\ 2 * Len(w) \in Nat
      BY <2>2 DEF Words
    <3> QED BY <2>v, <3>1, SourceCursor
  <2>4. OneFetched(c, w)
    BY <2>3, <2>c, WordFetched
  <2>5. SoundFrom(o, 2, third, w, address)
    <3>1. number \in Nat /\ number <= 255
      BY <2>4, <2>n DEF OneFetched
    <3>2. 1 \in Sizes /\ number <= Values(1) - 1
      BY <3>1, ValuesCases DEF Sizes
    <3>3. 2 <= Len(w)
      BY <2>4 DEF OneFetched
    <3> QED BY <2>o, <2>t, <3>1, <3>2, <3>3, WordImmediate
  <2>6. PICK next \in Nat : v = At(next) /\ EASaid(ea, third, next, w, address)
    <3>1. 2 \in Sizes /\ third >= 2 /\ c = At(third)
      BY <2>4, <2>t DEF Sizes, OneFetched
    <3> QED BY <2>3, <2>e, <2>v, <3>1, SourceFollows
  <2>7. ea.next = next /\ SoundFrom(ea.operand, third, next, w, address)
    BY <2>6 DEF EASaid
  <2>8. Right(Two(o, ea.operand, next), At(next), w, address)
    BY <2>5, <2>7, TwoSaid
  <2> QED BY <2>1, <2>2, <2>6, <2>7, <2>8
<1> QED BY <1>0, <1>1, <1>2

\* An error return after an operand is no success.
LEMMA AbortFails ==
  ASSUME NEW c, NEW reason
  PROVE  ~Succeeds(Abort(c, reason))
BY Fields DEF Succeeds, Abort

\* decodeMOVE rejects a size of 0 and a byte-sized MOVEA.
LEMMA MoveRejects ==
  ASSUME NEW op \in Nat, NEW len
  PROVE  MoveSize(op) = 0 \/ (MoveSize(op) = 1 /\ Opmode(op) = 1) => ~Succeeds(Move(op, len))
<1>1. ASSUME MoveSize(op) = 0
      PROVE  Move(op, len) = Error("unknown MOVE size")
  BY <1>1 DEF Move
<1>2. ASSUME MoveSize(op) = 1, Opmode(op) = 1
      PROVE  Move(op, len) = Abort(SourceEA(Start, op, len, 1), "MOVEA byte")
  BY <1>2 DEF Move
<1>3. ~Succeeds(Error("unknown MOVE size"))
  BY Fields DEF Succeeds
<1>4. ~Succeeds(Abort(SourceEA(Start, op, len, 1), "MOVEA byte"))
  BY AbortFails
<1> QED BY <1>1, <1>2, <1>3, <1>4, Zenon

\* decodeMOVE: the destination behind the words of the source, or the MOVEA form.
LEMMA MoveSaid ==
  ASSUME NEW w, NEW address \in Nat, NEW op \in Nat, Words(w),
         Succeeds(Move(op, 2 * Len(w)))
  PROVE  Right(MoveOperands(op, w), Move(op, 2 * Len(w)), w, address)
<1> DEFINE moveSize == MoveSize(op)
           dstMode  == Opmode(op)
<1>0. /\ moveSize \in 0..3 /\ dstMode \in 0..7 /\ dstMode \in Nat /\ dstMode <= 7
      /\ DstReg(op) \in Nat /\ DstReg(op) <= 7
  BY FieldRanges
<1>s. PICK size : size = CASE moveSize = 1 -> 1 [] moveSize = 3 -> 2 [] OTHER -> 4
  OBVIOUS
<1>c. PICK c : c = SourceEA(Start, op, 2 * Len(w), size)
  OBVIOUS
<1>e. PICK source : source = Source(op, w, 2, size)
  OBVIOUS
<1>1. moveSize # 0 /\ ~(moveSize = 1 /\ dstMode = 1)
  BY MoveRejects
<1>3. size \in Sizes
  BY <1>s DEF Sizes
<1>4. (CASE moveSize = 1 -> 1 [] moveSize = 3 -> 2 [] moveSize = 2 -> 4) = size
  BY <1>0, <1>1, <1>s
<1>5. CASE dstMode = 1
  <2>1. Move(op, 2 * Len(w)) = c
    BY <1>0, <1>1, <1>5, <1>c, <1>s DEF Move
  <2>2. MoveOperands(op, w) = ToRegister(source, AddressRegister(DstReg(op)))
    BY <1>4, <1>5, <1>e DEF MoveOperands
  <2>3. AddressSaid(source, c, DstReg(op), w, address)
    BY <1>3, <1>c, <1>e, <2>1, OneAddressSaid
  <2> QED BY <2>1, <2>2, <2>3 DEF AddressSaid
<1>6. CASE dstMode # 1
  <2>l. PICK len \in Nat : len = 2 * Len(w)
    BY DEF Words
  <2>v. PICK v : v = EA(c, len, dstMode, DstReg(op), 2)
    OBVIOUS
  <2>t. PICK target : target = decodeEA(w, source.next, dstMode, DstReg(op), 2)
    OBVIOUS
  <2>1. Move(op, 2 * Len(w)) = v
    BY <1>0, <1>1, <1>6, <1>c, <1>s, <2>l, <2>v DEF Move
  <2>2. MoveOperands(op, w) = Two(source.operand, target.operand, target.next)
    BY <1>4, <1>6, <1>e, <2>t DEF MoveOperands, MoveTarget
  <2>3. Succeeds(c)
    BY <1>0, <2>1, <2>v, EACursor
  <2>4. PICK mid \in Nat : c = At(mid) /\ EASaid(source, 2, mid, w, address)
    <3>1. PICK at \in Nat : at = 2
      OBVIOUS
    <3>2. Start = At(at)
      BY <3>1 DEF Start, At
    <3> QED BY <1>3, <1>c, <1>e, <2>3, <3>1, <3>2, SourceFollows
  <2>5. source.next = mid /\ SoundFrom(source.operand, 2, mid, w, address)
    BY <2>4 DEF EASaid
  <2>6. mid >= 2 /\ 2 \in Sizes
    BY <2>5 DEF SoundFrom, Sizes
  <2>7. PICK next \in Nat : v = At(next) /\ EASaid(target, mid, next, w, address)
    <3>1. target = decodeEA(w, mid, dstMode, DstReg(op), 2)
      BY <2>5, <2>t
    <3>2. v = EA(At(mid), 2 * Len(w), dstMode, DstReg(op), 2)
      BY <2>4, <2>l, <2>v
    <3> HIDE DEF dstMode
    <3> QED BY <1>0, <2>1, <2>6, <3>1, <3>2, EAFollows
  <2>8. target.next = next /\ SoundFrom(target.operand, mid, next, w, address)
    BY <2>7 DEF EASaid
  <2>9. Right(Two(source.operand, target.operand, next), At(next), w, address)
    BY <2>5, <2>8, TwoSaid
  <2> QED BY <2>1, <2>2, <2>7, <2>8, <2>9
<1> QED BY <1>5, <1>6

\* A branch whose displacement takes the words from the second to before `next`.
LEMMA BranchForm ==
  ASSUME NEW w, NEW address \in Nat, NEW delta \in Int, NEW next \in Nat, NEW reads,
         Words(w), 2 <= next, next <= 4, next <= Len(w) + 1,
         reads = 2..(next - 1), DisplacementRead(reads, w) = delta
  PROVE  Right(One(branchOperand(Wrapped(address + 2 * (next - 1) + delta), reads), next),
               At(next), w, address)
<1>c. PICK count \in Nat : count = next - 2
  <2>1. next - 2 \in Nat
    BY ONLY next \in Nat, 2 <= next
  <2> QED BY ONLY <2>1, Zenon
<1>a. PICK a : a = Wrapped(address + 2 * (next - 1) + delta)
  OBVIOUS
<1>1. Cardinality(reads) = count
  <2>1. Cardinality(2..(next - 1)) = IF 2 > next - 1 THEN 0 ELSE (next - 1) - 2 + 1
    BY FS_Interval
  <2>2. (IF 2 > next - 1 THEN 0 ELSE (next - 1) - 2 + 1) = next - 2
    BY ONLY next \in Nat, 2 <= next
  <2> QED BY ONLY <1>c, <2>1, <2>2, reads = 2..(next - 1)
<1>2. address + 2 + 2 * count + delta = address + 2 * (next - 1) + delta
  BY ONLY <1>c, next \in Nat, address \in Nat, delta \in Int
<1>3. Sound(branchOperand(a, reads), w, address)
  <2>1. a = Wrapped(address + 2 + 2 * count + delta)
    BY <1>2, <1>a
  <2>2. count <= 2
    BY <1>c
  <2> QED BY <1>1, <2>1, <2>2, TargetSound
<1>4. branchOperand(a, reads).reads = reads
  BY BranchFields
<1>5. SoundFrom(branchOperand(a, reads), 2, next, w, address)
  BY <1>3, <1>4 DEF SoundFrom, ReadsSoundly
<1> QED BY <1>5, <1>a, OneSaid

\* The words of a displacement, and what they say.
LEMMA DisplacementWords ==
  ASSUME NEW w
  PROVE  /\ DisplacementRead(2..(2 - 1), w) = AsSigned(Displacement(w[1]), 1)
         /\ DisplacementRead(2..(3 - 1), w) = AsSigned(w[2], 2)
         /\ DisplacementRead(2..(4 - 1), w) = AsSigned(Long(w[2], w[3]), 4)
<1>t. PICK at \in Nat, third \in Nat : at = 2 /\ third = 3
  OBVIOUS
<1>1. 2..(2 - 1) = {} /\ 2..(3 - 1) = OneWord(at) /\ 2..(4 - 1) = BothWords(at)
  BY <1>t DEF OneWord, BothWords
<1>2. DisplacementRead({}, w) = AsSigned(Displacement(w[1]), 1)
  <2>1. ASSUME NEW reads, reads = {}
        PROVE  DisplacementRead(reads, w) = AsSigned(Displacement(w[1]), 1)
    <3>1. Cardinality(reads) = 0
      BY <2>1, FS_EmptySet
    <3> QED BY <2>1, <3>1 DEF DisplacementRead
  <2> QED BY <2>1
<1>3. DisplacementRead(OneWord(at), w) = AsSigned(w[at], 2)
  <2>1. OneWord(at) # {} /\ Cardinality(OneWord(at)) = 1 /\ FirstOf(OneWord(at)) = at
    BY OneWordRead DEF OneWord
  <2> QED BY <2>1 DEF DisplacementRead
<1>4. DisplacementRead(BothWords(at), w) = AsSigned(Long(w[at], w[at + 1]), 4)
  <2>1. /\ BothWords(at) # {} /\ Cardinality(BothWords(at)) = 2
        /\ FirstOf(BothWords(at)) = at
    BY TwoWordsRead DEF BothWords
  <2> QED BY <2>1 DEF DisplacementRead
<1>5. at + 1 = third
  BY <1>t
<1> QED BY <1>1, <1>2, <1>3, <1>4, <1>5, <1>t

\* decodeBxx's forms.
LEMMA BranchForms ==
  ASSUME NEW op \in Nat, NEW len, NEW w
  PROVE  /\ Displacement(op) = 0 =>
              /\ Branch(op, len) = Fetch(Start, len, 2, "W displacement")
              /\ BranchDelta(op, w) = AsSigned(w[2], 2)
         /\ Displacement(op) = 255 =>
              /\ Branch(op, len) = Fetch(Start, len, 4, "L displacement")
              /\ BranchDelta(op, w) = AsSigned(Long(w[2], w[3]), 4)
         /\ Displacement(op) \in 1..254 =>
              /\ Branch(op, len) = Start
              /\ BranchDelta(op, w) = AsSigned(Displacement(op), 1)
<1>1. ASSUME Displacement(op) = 0
      PROVE  /\ Branch(op, len) = Fetch(Start, len, 2, "W displacement")
             /\ BranchDelta(op, w) = AsSigned(w[2], 2)
  BY <1>1 DEF Branch, BranchDelta
<1>2. ASSUME Displacement(op) = 255
      PROVE  /\ Branch(op, len) = Fetch(Start, len, 4, "L displacement")
             /\ BranchDelta(op, w) = AsSigned(Long(w[2], w[3]), 4)
  BY <1>2 DEF Branch, BranchDelta
<1>3. ASSUME Displacement(op) \in 1..254
      PROVE  /\ Branch(op, len) = Start
             /\ BranchDelta(op, w) = AsSigned(Displacement(op), 1)
  <2>1. Displacement(op) # 0 /\ Displacement(op) # 255
    BY <1>3
  <2>2. Branch(op, len) = Start
    BY <2>1 DEF Branch
  <2>3. BranchDelta(op, w) = AsSigned(Displacement(op), 1)
    BY <1>3, <2>1 DEF BranchDelta
  <2> QED BY <2>2, <2>3
<1> QED BY <1>1, <1>2, <1>3, Zenon

\* The operand of a branch as a function of the index behind its words.
LEMMA BranchTarget ==
  ASSUME NEW op \in Nat, NEW w, NEW address, NEW next,
         next = CASE Displacement(op) = 0 -> 3 [] Displacement(op) = 255 -> 4 [] OTHER -> 2
  PROVE  BranchOperands(op, w, address) =
           One(branchOperand(Wrapped(address + 2 * (next - 1) + BranchDelta(op, w)),
                             2..(next - 1)), next)
BY DEF BranchOperands

\* decodeBxx, by the form of the displacement.
LEMMA BranchSaid ==
  ASSUME NEW w, NEW address \in Nat, NEW op \in Nat, Words(w), OpcodeWord(op, w),
         Succeeds(Branch(op, 2 * Len(w)))
  PROVE  Right(BranchOperands(op, w, address), Branch(op, 2 * Len(w)), w, address)
<1>l. PICK len : len = 2 * Len(w)
  OBVIOUS
<1>c. PICK c : c = Branch(op, len)
  OBVIOUS
<1>d. PICK delta : delta = BranchDelta(op, w)
  OBVIOUS
<1>n. PICK next : next = CASE Displacement(op) = 0 -> 3 [] Displacement(op) = 255 -> 4 [] OTHER -> 2
  OBVIOUS
<1>r. PICK reads : reads = 2..(next - 1)
  OBVIOUS
<1>s. Succeeds(c)
  BY <1>c, <1>l
<1>1. BranchOperands(op, w, address) =
        One(branchOperand(Wrapped(address + 2 * (next - 1) + delta), reads), next)
  <2>1. BranchOperands(op, w, address) =
          One(branchOperand(Wrapped(address + 2 * (next - 1) + BranchDelta(op, w)),
                            2..(next - 1)), next)
    BY <1>n, BranchTarget
  <2> QED BY <1>d, <1>r, <2>1, Zenon
<1>2. /\ Displacement(op) \in 0..255 /\ Displacement(op) \in Nat
      /\ Displacement(op) <= 255
      /\ Displacement(w[1]) = Displacement(op)
      /\ Len(w) \in Nat /\ Len(w) >= 1
  <2>1. op % 256 \in 0..255 /\ op % 256 <= 255
    OBVIOUS
  <2> QED BY <2>1 DEF Displacement, Words, OpcodeWord
<1>3. CASE Displacement(op) = 0
  <2>1. next = 3
    BY <1>3, <1>n
  <2>2. c = Fetch(Start, 2 * Len(w), 2, "W displacement") /\ delta = AsSigned(w[2], 2)
    BY <1>3, <1>c, <1>d, <1>l, BranchForms
  <2>3. OneFetched(c, w)
    BY <1>s, <2>2, WordFetched
  <2>4. delta \in Int
    <3>1. w[2] \in Nat /\ w[2] < 65536
      BY <2>3 DEF OneFetched
    <3>2. AsSigned(w[2], 2) \in Int
      BY <3>1, SignedWord
    <3> QED BY <2>2, <3>2
  <2>5. DisplacementRead(reads, w) = delta
    BY <1>r, <2>1, <2>2, DisplacementWords
  <2>6. c = At(next) /\ next \in Nat /\ 2 <= next /\ next <= 4 /\ next <= Len(w) + 1
    BY <1>2, <2>1, <2>3 DEF OneFetched
  <2> QED BY <1>1, <1>c, <1>l, <1>r, <2>4, <2>5, <2>6, BranchForm
<1>4. CASE Displacement(op) = 255
  <2>1. next = 4
    BY <1>4, <1>n
  <2>2. c = Fetch(Start, 2 * Len(w), 4, "L displacement") /\ delta = AsSigned(Long(w[2], w[3]), 4)
    <3>1. Branch(op, len) = Fetch(Start, len, 4, "L displacement")
      BY <1>4, BranchForms
    <3>2. BranchDelta(op, w) = AsSigned(Long(w[2], w[3]), 4)
      BY <1>4 DEF BranchDelta
    <3> QED BY <1>c, <1>d, <1>l, <3>1, <3>2, Zenon
  <2>3. TwoFetched(c, w)
    BY <1>s, <2>2, BothFetched
  <2>4. delta \in Int
    <3>1. PICK v : v = Long(w[2], w[3])
      OBVIOUS
    <3>2. v \in Nat /\ v < AddressSpace
      BY <2>3, <3>1 DEF TwoFetched
    <3>3. AsSigned(v, 4) \in Int
      BY <3>2, SignedLong
    <3> QED BY <2>2, <3>1, <3>3
  <2>5. DisplacementRead(reads, w) = delta
    BY <1>r, <2>1, <2>2, DisplacementWords
  <2>6. c = At(next) /\ next \in Nat /\ 2 <= next /\ next <= 4 /\ next <= Len(w) + 1
    BY <1>2, <2>1, <2>3 DEF TwoFetched
  <2> QED BY <1>1, <1>c, <1>l, <1>r, <2>4, <2>5, <2>6, BranchForm
<1>5. CASE Displacement(op) \in 1..254
  <2>0. Displacement(op) # 0 /\ Displacement(op) # 255
    <3>1. 0 \notin 1..254 /\ 255 \notin 1..254
      OBVIOUS
    <3> QED BY <1>5, <3>1, Zenon
  <2>1. next = 2
    BY <2>0, <1>n
  <2>2. c = Start /\ delta = AsSigned(Displacement(op), 1)
    BY <1>5, <1>c, <1>d, BranchForms
  <2>4. delta \in Int
    <3>1. AsSigned(Displacement(op), 1) \in Int
      <4>0. Displacement(op) \in Nat /\ Displacement(op) <= 255
        BY <1>2, Zenon
      <4>1. PICK v \in Nat : v = Displacement(op) /\ v <= 255
        BY ONLY <4>0, Zenon
      <4> QED BY <4>1, SignedByte
    <3> QED BY <2>2, <3>1
  <2>5. DisplacementRead(reads, w) = delta
    BY <1>2, <1>r, <2>1, <2>2, DisplacementWords
  <2>6. c = At(next) /\ next \in Nat /\ 2 <= next /\ next <= 4 /\ next <= Len(w) + 1
    BY <1>2, <2>1, <2>2 DEF Start, At
  <2> QED BY <1>1, <1>c, <1>l, <1>r, <2>4, <2>5, <2>6, BranchForm
<1> QED BY <1>2, <1>3, <1>4, <1>5

\* decodeMOVEM's list, a word behind the opcode.
LEMMA ListFrom ==
  ASSUME NEW w, NEW address \in Nat, NEW mask, Words(w), 2 <= Len(w)
  PROVE  SoundFrom(registerListOperand(mask, {2}), 2, 3, w, address)
<1>1. PICK at \in Nat, third \in Nat : at = 2 /\ third = 3
  OBVIOUS
<1>r. PICK reads : reads = {2}
  OBVIOUS
<1>2. reads = at..(third - 1)
  BY <1>1, <1>r
<1>3. ReadsSoundly(registerListOperand(mask, reads), reads, w, address)
  BY PlainSound DEF registerListOperand
<1>4. at <= third /\ third <= Len(w) + 1
  BY <1>1 DEF Words
<1>5. SoundFrom(registerListOperand(mask, reads), at, third, w, address)
  BY <1>2, <1>3, <1>4 DEF SoundFrom
<1> QED BY <1>1, <1>r, <1>5

\* decodeMOVEM: the list, before or behind the address, which may be left out.
LEMMA MovemSaid ==
  ASSUME NEW w, NEW address \in Nat, NEW op \in Nat, Words(w),
         Succeeds(Movem(op, 2 * Len(w)))
  PROVE  Right(MovemOperands(op, w), Movem(op, 2 * Len(w)), w, address)
<1> DEFINE omitted == SrcMode(op) = 0 /\ SrcReg(op) = 0
<1>t. PICK third \in Nat : third = 3
  OBVIOUS
<1>l. PICK list : list = registerListOperand(w[2], {2})
  OBVIOUS
<1>c. PICK c : c = Fetch(Start, 2 * Len(w), 2, "MOVEM register list")
  OBVIOUS
<1>v. PICK v : v = IF omitted THEN c ELSE SourceEA(c, op, 2 * Len(w), 2)
  OBVIOUS
<1>e. PICK ea : ea = IF omitted THEN [operand |-> OperandOf("", <<"">>, {}), next |-> third]
                                ELSE Source(op, w, third, 2)
  OBVIOUS
<1>1. Movem(op, 2 * Len(w)) = v
  BY <1>c, <1>v, Zenon DEF Movem
<1>2. MovemOperands(op, w) = IF (op \div 1024) % 2 = 0 THEN Two(list, ea.operand, ea.next)
                                                       ELSE Two(ea.operand, list, ea.next)
  <2> DEFINE itsEA   == IF SrcMode(op) = 0 /\ SrcReg(op) = 0
                        THEN [operand |-> OperandOf("", <<"">>, {}), next |-> 3]
                        ELSE Source(op, w, 3, 2)
             itsList == registerListOperand(w[2], {2})
  <2>1. MovemOperands(op, w) =
          IF (op \div 1024) % 2 = 0 THEN Two(itsList, itsEA.operand, itsEA.next)
          ELSE Two(itsEA.operand, itsList, itsEA.next)
    BY ONLY DEF MovemOperands
  <2>2. ea = itsEA
    BY ONLY <1>e, <1>t
  <2>3. list = itsList
    BY <1>l
  <2> HIDE DEF itsEA, itsList
  <2> QED BY ONLY <2>1, <2>2, <2>3
<1>0. Succeeds(Movem(op, 2 * Len(w)))
  OBVIOUS
<1>s. Succeeds(v)
  BY ONLY <1>0, <1>1
<1>3. Succeeds(c)
  <2>1. CASE omitted
    BY <1>s, <1>v, <2>1
  <2>2. CASE ~omitted
    <3>1. v = SourceEA(c, op, 2 * Len(w), 2) /\ 2 * Len(w) \in Nat
      BY <1>v, <2>2 DEF Words
    <3> QED BY <1>s, <3>1, SourceCursor
  <2> QED BY <2>1, <2>2
<1>4. OneFetched(c, w)
  BY <1>3, <1>c, WordFetched
<1>5. c = At(third) /\ third <= Len(w) + 1 /\ SoundFrom(list, 2, third, w, address)
  <2>1. 2 <= Len(w) /\ c = At(3)
    BY <1>4 DEF OneFetched
  <2>2. SoundFrom(registerListOperand(w[2], {2}), 2, 3, w, address)
    BY <2>1, ListFrom
  <2> QED BY <1>l, <1>t, <2>1, <2>2 DEF Words
<1>6. PICK next \in Nat : /\ v = At(next) /\ ea.next = next
                          /\ SoundFrom(ea.operand, third, next, w, address)
  <2>1. CASE omitted
    <3>1. ea = [operand |-> OperandOf("", <<"">>, {}), next |-> third] /\ v = At(third)
      BY <1>5, <1>e, <1>v, <2>1
    <3>2. ea.operand = OperandOf("", <<"">>, {}) /\ ea.next = third
      BY <3>1
    <3>3. SoundFrom(OperandOf("", <<"">>, {}), third, third, w, address)
      BY <1>5, PlainFrom
    <3> QED BY <3>1, <3>2, <3>3
  <2>2. CASE ~omitted
    <3>1. v = SourceEA(At(third), op, 2 * Len(w), 2) /\ ea = Source(op, w, third, 2)
      BY <1>5, <1>e, <1>v, <2>2
    <3>2. 2 \in Sizes /\ third >= 2
      BY <1>t DEF Sizes
    <3>3. PICK next \in Nat : v = At(next) /\ EASaid(ea, third, next, w, address)
      BY <1>s, <3>1, <3>2, SourceFollows
    <3> QED BY <3>3 DEF EASaid
  <2> QED BY <2>1, <2>2
<1>7. /\ Right(Two(list, ea.operand, next), At(next), w, address)
      /\ Right(Two(ea.operand, list, next), At(next), w, address)
  BY <1>5, <1>6, TwoSaid
<1> HIDE DEF omitted
<1> QED BY <1>1, <1>2, <1>6, <1>7

\* decodeInstruction's DC.W, for a word no decoder is found for.
LEMMA DataWordSaid ==
  ASSUME NEW w, NEW address \in Nat, NEW op \in Nat, Words(w), OpcodeWord(op, w)
  PROVE  Right(DataWord(op), Start, w, address)
<1>t. PICK text : text = <<"$", op, 4>>
  OBVIOUS
<1>1. 2 \in Sizes /\ op <= Values(2) - 1 /\ Len(w) >= 1
  <2>1. Values(2) = 65536
    BY ValuesCases
  <2>2. op <= 65536 - 1 /\ Len(w) >= 1
    BY DEF OpcodeWord
  <2> QED BY <2>1, <2>2 DEF Sizes
<1>2. SoundFrom(immediateOperand(text, op, 2, {}), 2, 2, w, address)
  BY <1>1, FieldImmediate
<1>3. DataWord(op) = One(immediateOperand(text, op, 2, {}), 2) /\ Start = At(2)
  BY <1>t DEF DataWord, Start, At
<1> QED BY <1>2, <1>3, OneSaid

\* Every decoder of the table.
LEMMA DecoderDescribes ==
  ASSUME NEW w, NEW address \in Nat, NEW op \in Nat, NEW decoder \in DecoderNames,
         Words(w), OpcodeWord(op, w)
  PROVE  Describes(decoder, op, w, address)
<1>0. Len(w) >= 1
  BY DEF OpcodeWord
<1>1. CASE decoder \in Inherent
  <2>1. Decode(decoder, op, 2 * Len(w)) = Start
    BY <1>1 DEF Decode, Inherent, OneAddress
  <2>2. Right(OperandsOf(decoder, op, w, address), Start, w, address)
    BY <1>1, InherentSaid
  <2> QED BY <2>1, <2>2, Zenon DEF Describes
<1>2. CASE decoder \in OneAddress
  BY <1>2, OneAddressDescribed
<1>3. CASE decoder = "STOP"
  <2>1. Decode(decoder, op, 2 * Len(w)) = Fetch(Start, 2 * Len(w), 2, "STOP immediate")
    BY <1>3 DEF Decode, OneAddress, Inherent
  <2>2. OperandsOf(decoder, op, w, address) = StopOperands(w)
    BY <1>3 DEF OperandsOf, NoDecoder, StopOperands
  <2>3. ASSUME Succeeds(Fetch(Start, 2 * Len(w), 2, "STOP immediate"))
        PROVE  Right(StopOperands(w), Fetch(Start, 2 * Len(w), 2, "STOP immediate"), w, address)
    BY <2>3, WordFetched, StopSaid
  <2> QED BY <2>1, <2>2, <2>3, Zenon DEF Describes
<1>4. CASE decoder = "Bxx"
  <2>1. Decode(decoder, op, 2 * Len(w)) = Branch(op, 2 * Len(w))
    BY <1>4 DEF Decode, OneAddress, Inherent
  <2>2. OperandsOf(decoder, op, w, address) = BranchOperands(op, w, address)
    BY <1>4 DEF OperandsOf, NoDecoder
  <2>3. Succeeds(Branch(op, 2 * Len(w))) =>
          Right(BranchOperands(op, w, address), Branch(op, 2 * Len(w)), w, address)
    BY BranchSaid
  <2> QED BY <2>1, <2>2, <2>3, Zenon DEF Describes
<1>5. CASE decoder = "MOVE"
  <2>1. Decode(decoder, op, 2 * Len(w)) = Move(op, 2 * Len(w))
    BY <1>5 DEF Decode, OneAddress, Inherent
  <2>2. OperandsOf(decoder, op, w, address) = MoveOperands(op, w)
    BY <1>5 DEF OperandsOf, NoDecoder
  <2>3. Succeeds(Move(op, 2 * Len(w))) =>
          Right(MoveOperands(op, w), Move(op, 2 * Len(w)), w, address)
    BY MoveSaid
  <2> QED BY <2>1, <2>2, <2>3, Zenon DEF Describes
<1>6. CASE decoder = "MOVEM"
  <2>1. Decode(decoder, op, 2 * Len(w)) = Movem(op, 2 * Len(w))
    BY <1>6 DEF Decode, OneAddress, Inherent
  <2>2. OperandsOf(decoder, op, w, address) = MovemOperands(op, w)
    BY <1>6 DEF OperandsOf, NoDecoder
  <2>3. Succeeds(Movem(op, 2 * Len(w))) =>
          Right(MovemOperands(op, w), Movem(op, 2 * Len(w)), w, address)
    BY MovemSaid
  <2> QED BY <2>1, <2>2, <2>3, Zenon DEF Describes
<1>7. CASE decoder \in {"BTST", "BCHG", "BCLR", "BSET"}
  <2>1. Decode(decoder, op, 2 * Len(w)) = BitOp(op, 2 * Len(w))
    BY <1>7 DEF Decode, OneAddress, Inherent
  <2>2. OperandsOf(decoder, op, w, address) = BitOperands(op, w)
    BY <1>7 DEF OperandsOf, NoDecoder
  <2>3. Succeeds(BitOp(op, 2 * Len(w))) =>
          Right(BitOperands(op, w), BitOp(op, 2 * Len(w)), w, address)
    BY <1>0, BitSaid
  <2> QED BY <2>1, <2>2, <2>3, Zenon DEF Describes
<1>8. CASE decoder \in {"ADDI", "SUBI"}
  <2>1. Decode(decoder, op, 2 * Len(w)) = ImmediateOp(op, 2 * Len(w), TRUE)
    BY <1>8 DEF Decode, OneAddress, Inherent
  <2>2. OperandsOf(decoder, op, w, address) = ImmediateOperands(op, w, TRUE)
    BY <1>8 DEF OperandsOf, NoDecoder
  <2>3. Succeeds(ImmediateOp(op, 2 * Len(w), TRUE)) =>
          Right(ImmediateOperands(op, w, TRUE), ImmediateOp(op, 2 * Len(w), TRUE), w, address)
    BY <1>0, ImmediateSaid
  <2> QED BY <2>1, <2>2, <2>3, Zenon DEF Describes
<1>9. CASE decoder \in {"ANDI", "ORI", "EORI", "CMPI"}
  <2>1. Decode(decoder, op, 2 * Len(w)) = ImmediateOp(op, 2 * Len(w), FALSE)
    BY <1>9 DEF Decode, OneAddress, Inherent, LogicalI
  <2>2. OperandsOf(decoder, op, w, address) = ImmediateOperands(op, w, FALSE)
    BY <1>9 DEF OperandsOf, NoDecoder
  <2>3. Succeeds(ImmediateOp(op, 2 * Len(w), FALSE)) =>
          Right(ImmediateOperands(op, w, FALSE), ImmediateOp(op, 2 * Len(w), FALSE), w, address)
    BY <1>0, ImmediateSaid
  <2> QED BY <2>1, <2>2, <2>3, Zenon DEF Describes
<1>10. CASE decoder \in {"ADD", "SUB"}
  <2>1. Decode(decoder, op, 2 * Len(w)) = AddSub(op, 2 * Len(w))
    BY <1>10 DEF Decode, OneAddress, Inherent
  <2>2. OperandsOf(decoder, op, w, address) = AddSubOperands(op, w)
    BY <1>10 DEF OperandsOf, NoDecoder
  <2>3. Succeeds(AddSub(op, 2 * Len(w))) =>
          Right(AddSubOperands(op, w), AddSub(op, 2 * Len(w)), w, address)
    BY AddSubSaid
  <2> QED BY <2>1, <2>2, <2>3, Zenon DEF Describes
<1>11. CASE decoder \in {"AND", "OR"}
  <2>1. Decode(decoder, op, 2 * Len(w)) = DirectedBinaryOp(op, 2 * Len(w))
    BY <1>11 DEF Decode, OneAddress, Inherent
  <2>2. OperandsOf(decoder, op, w, address) = DirectedOperands(op, w)
    BY <1>11 DEF OperandsOf, NoDecoder
  <2>3. Succeeds(DirectedBinaryOp(op, 2 * Len(w))) =>
          Right(DirectedOperands(op, w), DirectedBinaryOp(op, 2 * Len(w)), w, address)
    BY DirectedSaid
  <2> QED BY <2>1, <2>2, <2>3, Zenon DEF Describes
<1>12. CASE decoder = "CMP"
  <2>1. Decode(decoder, op, 2 * Len(w)) = Compare(op, 2 * Len(w))
    BY <1>12 DEF Decode, OneAddress, Inherent
  <2>2. OperandsOf(decoder, op, w, address) = CompareOperands(op, w)
    BY <1>12 DEF OperandsOf, NoDecoder
  <2>3. Succeeds(Compare(op, 2 * Len(w))) =>
          Right(CompareOperands(op, w), Compare(op, 2 * Len(w)), w, address)
    BY CompareSaid
  <2> QED BY <2>1, <2>2, <2>3, Zenon DEF Describes
<1>13. CASE decoder = "SHIFT"
  <2>1. Decode(decoder, op, 2 * Len(w)) = Shift(op, 2 * Len(w))
    BY <1>13 DEF Decode, OneAddress, Inherent
  <2>2. OperandsOf(decoder, op, w, address) = ShiftOperands(op, w)
    BY <1>13 DEF OperandsOf, NoDecoder
  <2>3. Succeeds(Shift(op, 2 * Len(w))) =>
          Right(ShiftOperands(op, w), Shift(op, 2 * Len(w)), w, address)
    BY ShiftSaid
  <2> QED BY <2>1, <2>2, <2>3, Zenon DEF Describes
<1> QED
  BY <1>1, <1>2, <1>3, <1>4, <1>5, <1>6, <1>7, <1>8, <1>9, <1>10, <1>11, <1>12, <1>13
     DEF DecoderNames

-----------------------------------------------------------------------------
(* The decoded Instruction.                                                *)

\* As many texts as operands, two at most, each the text of its operand.
Listed(texts, operands, w, address) ==
  /\ operands \in Seq(ToSet(operands)) /\ Len(operands) <= 2
  /\ texts \in Seq(ToSet(texts)) /\ Len(texts) = Len(operands)
  /\ \A k \in 1..Len(operands) :
       texts[k] = operands[k].text /\ Sound(operands[k], w, address)

\* The operands are made of the words from the second to the last, each used once.
UsedOnce(operands, last) ==
  /\ UNION {operands[k].reads : k \in DOMAIN operands} = 2..last
  /\ \A k, l \in DOMAIN operands :
       k # l => operands[k].reads \cap operands[l].reads = {}

\* No operands.
LEMMA ListedNone ==
  ASSUME NEW w, NEW address
  PROVE  Listed(<< >>, << >>, w, address)
<1>1. << >> \in Seq(ToSet(<< >>)) /\ Len(<< >>) = 0
  OBVIOUS
<1> QED BY <1>1 DEF Listed

\* One operand.
LEMMA ListedOne ==
  ASSUME NEW w, NEW address, NEW o, Sound(o, w, address)
  PROVE  Listed(<<o.text>>, <<o>>, w, address)
<1>1. \A x : <<x>> \in Seq(ToSet(<<x>>)) /\ Len(<<x>>) = 1 /\ <<x>>[1] = x
  BY DEF ToSet
<1>2. PICK text, operands, texts : text = o.text /\ operands = <<o>> /\ texts = <<text>>
  OBVIOUS
<1>3. /\ operands \in Seq(ToSet(operands)) /\ Len(operands) = 1 /\ operands[1] = o
      /\ texts \in Seq(ToSet(texts)) /\ Len(texts) = 1 /\ texts[1] = o.text
  BY <1>1, <1>2
<1>4. Listed(texts, operands, w, address)
  BY <1>3 DEF Listed
<1> QED BY <1>2, <1>4

\* Two operands.
LEMMA ListedTwo ==
  ASSUME NEW w, NEW address, NEW o1, NEW o2, Sound(o1, w, address), Sound(o2, w, address)
  PROVE  Listed(<<o1.text, o2.text>>, <<o1, o2>>, w, address)
<1>1. \A x, y : /\ <<x, y>> \in Seq(ToSet(<<x, y>>)) /\ Len(<<x, y>>) = 2
                /\ <<x, y>>[1] = x /\ <<x, y>>[2] = y
  BY DEF ToSet
<1>2. PICK t1, t2, operands, texts :
        t1 = o1.text /\ t2 = o2.text /\ operands = <<o1, o2>> /\ texts = <<t1, t2>>
  OBVIOUS
<1>3. /\ operands \in Seq(ToSet(operands)) /\ Len(operands) = 2
      /\ operands[1] = o1 /\ operands[2] = o2
      /\ texts \in Seq(ToSet(texts)) /\ Len(texts) = 2
      /\ texts[1] = o1.text /\ texts[2] = o2.text
  BY <1>1, <1>2
<1>4. Listed(texts, operands, w, address)
  BY <1>3 DEF Listed
<1> QED BY <1>2, <1>4

\* No operands, no words behind the opcode.
LEMMA UsedNone ==
  UsedOnce(<< >>, 1)
BY DEF UsedOnce

\* One operand has all the words.
LEMMA UsedOne ==
  ASSUME NEW o, NEW last \in Nat, o.reads = 2..last
  PROVE  UsedOnce(<<o>>, last)
<1>1. PICK operands : operands = <<o>>
  OBVIOUS
<1>2. DOMAIN operands = {1} /\ operands[1] = o
  BY <1>1
<1>3. UsedOnce(operands, last)
  BY <1>2 DEF UsedOnce
<1> QED BY <1>1, <1>3

\* Two operands have a part of the words each.
LEMMA UsedTwo ==
  ASSUME NEW o1, NEW o2, NEW mid \in Nat, NEW next \in Nat, 2 <= mid, mid <= next,
         \/ o1.reads = 2..(mid - 1) /\ o2.reads = mid..(next - 1)
         \/ o2.reads = 2..(mid - 1) /\ o1.reads = mid..(next - 1)
  PROVE  UsedOnce(<<o1, o2>>, next - 1)
<1>1. PICK operands : operands = <<o1, o2>>
  OBVIOUS
<1>2. DOMAIN operands = {1, 2} /\ operands[1] = o1 /\ operands[2] = o2
  BY <1>1
<1>3. (2..(mid - 1)) \cap (mid..(next - 1)) = {}
  OBVIOUS
<1>4. (2..(mid - 1)) \cup (mid..(next - 1)) = 2..(next - 1)
  OBVIOUS
<1>5. o1.reads \cup o2.reads = 2..(next - 1) /\ o1.reads \cap o2.reads = {}
  BY <1>3, <1>4, Zenon
<1>6. UNION {operands[k].reads : k \in DOMAIN operands} = 2..(next - 1)
  BY <1>2, <1>5
<1>7. \A k, l \in DOMAIN operands :
        k # l => operands[k].reads \cap operands[l].reads = {}
  BY <1>2, <1>5
<1>8. UsedOnce(operands, next - 1)
  BY <1>6, <1>7 DEF UsedOnce
<1> QED BY <1>1, <1>8

\* What WellSaid means for the three parts of setInstruction's argument.
SaidOf(said, last, w, address) ==
  /\ said.size = 2 * last
  /\ Listed(said.texts, said.operands, w, address)
  /\ UsedOnce(said.operands, last)

\* What a decoder says right is listed, and uses each word once.
LEMMA SaidWell ==
  ASSUME NEW said, NEW next \in Nat, NEW w, NEW address \in Nat, 2 <= next,
         WellSaid(said, next, w, address)
  PROVE  SaidOf(said, next - 1, w, address)
<1>1. CASE said = None /\ next = 2
  <2>1. said.size = 2 * (next - 1) /\ said.texts = << >> /\ said.operands = << >> /\ next - 1 = 1
    BY <1>1 DEF None, setInstruction
  <2> QED BY <2>1, ListedNone, UsedNone DEF SaidOf
<1>2. CASE \E o : said = One(o, next) /\ SoundFrom(o, 2, next, w, address)
  <2>1. PICK o : said = One(o, next) /\ SoundFrom(o, 2, next, w, address)
    BY <1>2
  <2>2. said.size = 2 * (next - 1) /\ said.texts = <<o.text>> /\ said.operands = <<o>>
    BY <2>1 DEF One, setInstruction
  <2>3. o.reads = 2..(next - 1) /\ Sound(o, w, address)
    BY <2>1 DEF SoundFrom, ReadsSoundly
  <2>4. PICK last \in Nat : last = next - 1
    OBVIOUS
  <2> QED BY <2>2, <2>3, <2>4, ListedOne, UsedOne DEF SaidOf
<1>3. CASE \E o1, o2 : \E mid \in Nat :
             /\ said = Two(o1, o2, next)
             /\ \/ SoundFrom(o1, 2, mid, w, address) /\ SoundFrom(o2, mid, next, w, address)
                \/ SoundFrom(o2, 2, mid, w, address) /\ SoundFrom(o1, mid, next, w, address)
  <2>1. PICK o1, o2 : \E mid \in Nat :
             /\ said = Two(o1, o2, next)
             /\ \/ SoundFrom(o1, 2, mid, w, address) /\ SoundFrom(o2, mid, next, w, address)
                \/ SoundFrom(o2, 2, mid, w, address) /\ SoundFrom(o1, mid, next, w, address)
    BY <1>3
  <2>2. PICK mid \in Nat :
             /\ said = Two(o1, o2, next)
             /\ \/ SoundFrom(o1, 2, mid, w, address) /\ SoundFrom(o2, mid, next, w, address)
                \/ SoundFrom(o2, 2, mid, w, address) /\ SoundFrom(o1, mid, next, w, address)
    BY <2>1
  <2>3. /\ said.size = 2 * (next - 1)
        /\ said.texts = <<o1.text, o2.text>> /\ said.operands = <<o1, o2>>
    BY <2>2 DEF Two, setInstruction
  <2>4. 2 <= mid /\ mid <= next /\ Sound(o1, w, address) /\ Sound(o2, w, address)
    BY <2>2 DEF SoundFrom, ReadsSoundly
  <2>5. \/ o1.reads = 2..(mid - 1) /\ o2.reads = mid..(next - 1)
        \/ o2.reads = 2..(mid - 1) /\ o1.reads = mid..(next - 1)
    BY <2>2 DEF SoundFrom, ReadsSoundly
  <2>6. Listed(said.texts, said.operands, w, address)
    BY <2>3, <2>4, ListedTwo
  <2>7. UsedOnce(said.operands, next - 1)
    BY <2>3, <2>4, <2>5, UsedTwo
  <2> QED BY <2>3, <2>6, <2>7 DEF SaidOf
<1> QED BY <1>1, <1>2, <1>3 DEF WellSaid

\* The instruction a program is decoded to: `last` is the index of its last word.
DescribedAs(d, w, address, last) ==
  /\ last \in Nat /\ 1 <= last /\ last <= Len(w)
  /\ d.bytes = SharedBytes(2 * last)
  /\ d.extensionWords = SubSeq(w, 2, last)
  /\ d.immediateValues = ImmediateValues(d.operands)
  /\ Listed(d.texts, d.operands, w, address)
  /\ UsedOnce(d.operands, last)
  /\ LET decoder == FindDecoder(w[1])
     IN  decoder # NoDecoder => Decode(decoder, w[1], 2 * Len(w)).size = 2 * last

\* Of a program the decoders say what Described takes up.
LEMMA ProgramSaid ==
  ASSUME NEW p \in Programs
  PROVE  \E last \in Nat :
           /\ 1 <= last /\ last <= Len(p.words)
           /\ SaidOf(OperandsOf(FindDecoder(p.words[1]), p.words[1], p.words, p.address),
                     last, p.words, p.address)
           /\ FindDecoder(p.words[1]) # NoDecoder =>
                Decode(FindDecoder(p.words[1]), p.words[1], 2 * Len(p.words)).size = 2 * last
<1>w. PICK w : w = p.words
  OBVIOUS
<1>a. PICK address : address = p.address
  OBVIOUS
<1>o. PICK op : op = w[1]
  OBVIOUS
<1>d. PICK decoder : decoder = FindDecoder(op)
  OBVIOUS
<1>1. w \in Seq(Word) /\ w # << >> /\ address \in Nat
  <2>1. p.words \in Seq(Word) /\ p.words # << >> /\ p.address \in 0..(AddressSpace - 1)
    BY ProgramsAssumption, Zenon
  <2> QED BY <1>w, <1>a, <2>1, PagesOfAddressSpace
<1>e. decoder # NoDecoder => Decode(decoder, op, 2 * Len(w)).kind = "ok"
  BY <1>w, <1>o, <1>d, ProgramsAssumption, Zenon
<1>2. Words(w) /\ op \in Nat /\ OpcodeWord(op, w)
  <2>1. Len(w) \in Nat /\ Len(w) >= 1 /\ \A k \in 1..Len(w) : w[k] \in Word
    BY <1>1
  <2>2. \A v \in Word : v \in Nat /\ v < 65536
    BY ValuesCases DEF Word
  <2>3. op \in Nat /\ op < 65536
    BY <1>o, <2>1, <2>2
  <2> QED BY <1>o, <2>1, <2>2, <2>3 DEF Words, OpcodeWord
<1>3. PICK said : said = OperandsOf(decoder, op, w, address)
  OBVIOUS
<1>4. PICK verdict : /\ Right(said, verdict, w, address)
                     /\ decoder # NoDecoder => verdict = Decode(decoder, op, 2 * Len(w))
  <2>1. CASE decoder = NoDecoder
    <3>1. said = DataWord(op)
      BY <1>3, <2>1 DEF OperandsOf, NoDecoder
    <3>2. Right(DataWord(op), Start, w, address)
      BY <1>1, <1>2, DataWordSaid
    <3> QED BY <2>1, <3>1, <3>2
  <2>2. CASE decoder # NoDecoder
    <3>1. decoder \in DecoderNames
      BY <1>2, <1>d, <2>2, FindDecoderFindsADecoder
    <3>2. Describes(decoder, op, w, address)
      BY <1>1, <1>2, <3>1, DecoderDescribes, Zenon
    <3>3. Succeeds(Decode(decoder, op, 2 * Len(w)))
      BY <1>e, <2>2 DEF Succeeds
    <3> QED BY <1>3, <3>2, <3>3 DEF Describes
  <2> QED BY <2>1, <2>2
<1>5. PICK next \in Nat : /\ 2 <= next /\ next <= Len(w) + 1
                          /\ verdict = At(next)
                          /\ WellSaid(said, next, w, address)
  BY <1>4 DEF Right
<1>6. PICK last \in Nat : last = next - 1
  BY <1>5
<1>7. SaidOf(said, last, w, address)
  BY <1>1, <1>5, <1>6, SaidWell
<1>8. verdict.size = 2 * last
  BY <1>5, <1>6, Fields DEF At
<1>9. 1 <= last /\ last <= Len(w)
  BY <1>2, <1>5, <1>6 DEF Words
<1> QED BY <1>w, <1>a, <1>o, <1>d, <1>3, <1>4, <1>7, <1>8, <1>9

\* setInstruction makes the Instruction of what the decoder says.
LEMMA ProgramDescribed ==
  ASSUME NEW p \in Programs
  PROVE  \E last \in Nat : DescribedAs(Described(p.words, p.address), p.words, p.address, last)
<1>w. PICK w : w = p.words
  OBVIOUS
<1>a. PICK address : address = p.address
  OBVIOUS
<1>d. PICK decoder : decoder = FindDecoder(w[1])
  OBVIOUS
<1>s. PICK said : said = OperandsOf(decoder, w[1], w, address)
  OBVIOUS
<1>i. PICK d : d = Described(w, address)
  OBVIOUS
<1>1. PICK last \in Nat :
           /\ 1 <= last /\ last <= Len(w)
           /\ SaidOf(said, last, w, address)
           /\ decoder # NoDecoder => Decode(decoder, w[1], 2 * Len(w)).size = 2 * last
  BY <1>w, <1>a, <1>d, <1>s, ProgramSaid
<1>2. /\ d.bytes = SharedBytes(said.size)
      /\ d.extensionWords = SubSeq(w, 2, said.size \div 2)
      /\ d.texts = said.texts /\ d.operands = said.operands
      /\ d.immediateValues = ImmediateValues(said.operands)
  BY <1>d, <1>s, <1>i DEF Described
<1>3. said.size = 2 * last /\ said.size \div 2 = last
  BY <1>1 DEF SaidOf
<1>4. DescribedAs(d, w, address, last)
  BY <1>1, <1>2, <1>3, <1>d DEF DescribedAs, SaidOf
<1> QED BY <1>w, <1>a, <1>i, <1>4

-----------------------------------------------------------------------------
(* Questions and answers, as constants: s for asked.                       *)

\* The entries of asked.
Questions == [operand : {1, 2}, address : Address, ok : BOOLEAN]

\* QuestionsAbout.
QuestionsIn(s, k) == {n \in DOMAIN s : s[n].operand = k}

\* Settled.
SettledBy(s, operands, k, shown) ==
  \/ \E n \in QuestionsIn(s, k) :
       /\ s[n].ok
       /\ \A l \in QuestionsIn(s, k) : l <= n
       /\ shown = <<"symbol", s[n].address>>
  \/ /\ \A n \in QuestionsIn(s, k) : ~s[n].ok
     /\ {s[n].address : n \in QuestionsIn(s, k)} = ToSet(Candidates(operands, k))
     /\ shown = operands[k].text

\* AskedInOrder, while the operand `current` is in its turn.
AskedSoFar(s, operands, current) ==
  \A n \in DOMAIN s :
    /\ s[n].operand \in DOMAIN operands
    /\ s[n].operand <= current
    /\ s[n].address \in ToSet(Candidates(operands, s[n].operand))

\* The operands shown so far are settled.
AllSettled(s, operands, shown) ==
  \A k \in DOMAIN shown : SettledBy(s, operands, k, shown[k])

\* The addresses of the current operand were refused or are left to ask about.
Pending(s, operands, current, left) ==
  /\ \A n \in QuestionsIn(s, current) : ~s[n].ok
  /\ ToSet(left) \subseteq ToSet(Candidates(operands, current))
  /\ ToSet(Candidates(operands, current)) \subseteq
       {s[n].address : n \in QuestionsIn(s, current)} \cup ToSet(left)

\* A sequence and its first element.
LEMMA HeadAndTail ==
  ASSUME NEW S, NEW s \in Seq(S), s # << >>
  PROVE  /\ Head(s) \in S /\ Tail(s) \in Seq(S) /\ Len(Tail(s)) = Len(s) - 1
         /\ ToSet(s) = {Head(s)} \cup ToSet(Tail(s))
<1>1. /\ Len(s) \in Nat /\ Len(s) >= 1 /\ DOMAIN s = 1..Len(s) /\ s[1] \in S
      /\ Head(s) = s[1] /\ Tail(s) \in Seq(S) /\ Len(Tail(s)) = Len(s) - 1
      /\ DOMAIN Tail(s) = 1..(Len(s) - 1)
      /\ \A i \in 1..(Len(s) - 1) : Tail(s)[i] = s[i + 1]
  OBVIOUS
<1>2. ASSUME NEW x \in ToSet(s)
      PROVE  x \in {Head(s)} \cup ToSet(Tail(s))
  <2>1. PICK i \in 1..Len(s) : x = s[i]
    BY <1>1 DEF ToSet
  <2>2. CASE i = 1
    BY <1>1, <2>1, <2>2
  <2>3. CASE i # 1
    <3>1. i - 1 \in 1..(Len(s) - 1) /\ Tail(s)[i - 1] = x
      BY <1>1, <2>1, <2>3
    <3> QED BY <1>1, <3>1 DEF ToSet
  <2> QED BY <2>2, <2>3
<1>3. ASSUME NEW x \in {Head(s)} \cup ToSet(Tail(s))
      PROVE  x \in ToSet(s)
  <2>1. CASE x = Head(s)
    BY <1>1, <2>1 DEF ToSet
  <2>2. CASE x \in ToSet(Tail(s))
    <3>1. PICK i \in 1..(Len(s) - 1) : x = Tail(s)[i]
      BY <1>1, <2>2 DEF ToSet
    <3>2. i + 1 \in 1..Len(s) /\ x = s[i + 1]
      BY <1>1, <3>1
    <3> QED BY <1>1, <3>2 DEF ToSet
  <2> QED BY <2>1, <2>2
<1> QED BY <1>1, <1>2, <1>3

\* A question more.
LEMMA OneMore ==
  ASSUME NEW S, NEW s \in Seq(S), NEW q \in S
  PROVE  /\ Append(s, q) \in Seq(S) /\ Len(Append(s, q)) = Len(s) + 1
         /\ Len(s) \in Nat /\ DOMAIN s = 1..Len(s)
         /\ DOMAIN Append(s, q) = 1..(Len(s) + 1)
         /\ Append(s, q)[Len(s) + 1] = q
         /\ \A n \in DOMAIN s : n \in Nat /\ n <= Len(s) /\ Append(s, q)[n] = s[n]
OBVIOUS

\* One question more is about one operand.
LEMMA QuestionsGrow ==
  ASSUME NEW s \in Seq(Questions), NEW q \in Questions, NEW k
  PROVE  /\ q.operand # k => QuestionsIn(Append(s, q), k) = QuestionsIn(s, k)
         /\ q.operand = k => QuestionsIn(Append(s, q), k) = QuestionsIn(s, k) \cup {Len(s) + 1}
<1>1. /\ Len(s) \in Nat /\ DOMAIN s = 1..Len(s)
      /\ DOMAIN Append(s, q) = 1..(Len(s) + 1)
      /\ Append(s, q)[Len(s) + 1] = q
      /\ \A n \in DOMAIN s : Append(s, q)[n] = s[n]
  BY OneMore
<1>2. 1..(Len(s) + 1) = DOMAIN s \cup {Len(s) + 1}
  BY <1>1
<1> DEFINE t == Append(s, q)
<1> HIDE DEF t
<1>3. /\ DOMAIN t = DOMAIN s \cup {Len(s) + 1} /\ t[Len(s) + 1] = q
      /\ \A n \in DOMAIN s : t[n] = s[n]
  BY <1>1, <1>2 DEF t
<1>4. q.operand # k => QuestionsIn(t, k) = QuestionsIn(s, k)
  BY <1>3 DEF QuestionsIn
<1>5. q.operand = k => QuestionsIn(t, k) = QuestionsIn(s, k) \cup {Len(s) + 1}
  BY <1>3 DEF QuestionsIn
<1> QED BY <1>4, <1>5 DEF t

\* A question about another operand leaves what is settled settled.
LEMMA StaysSettled ==
  ASSUME NEW s \in Seq(Questions), NEW q \in Questions, NEW operands, NEW k, NEW shown,
         q.operand # k, SettledBy(s, operands, k, shown)
  PROVE  SettledBy(Append(s, q), operands, k, shown)
<1> DEFINE t == Append(s, q)
<1>1. QuestionsIn(t, k) = QuestionsIn(s, k)
  BY QuestionsGrow
<1>2. \A n \in QuestionsIn(s, k) : t[n] = s[n]
  BY OneMore DEF QuestionsIn
<1> HIDE DEF t
<1>3. {t[n].address : n \in QuestionsIn(t, k)} = {s[n].address : n \in QuestionsIn(s, k)}
  BY <1>1, <1>2
<1>4. SettledBy(t, operands, k, shown)
  BY <1>1, <1>2, <1>3, Zenon DEF SettledBy
<1> QED BY <1>4 DEF t

\* A question about the current operand and one of its addresses keeps the order.
LEMMA AskedMore ==
  ASSUME NEW s \in Seq(Questions), NEW q \in Questions, NEW operands, NEW current \in Nat,
         AskedSoFar(s, operands, current), q.operand = current, current \in DOMAIN operands,
         q.address \in ToSet(Candidates(operands, current))
  PROVE  AskedSoFar(Append(s, q), operands, current)
<1> DEFINE t == Append(s, q)
<1>1. /\ Len(s) \in Nat /\ DOMAIN s = 1..Len(s) /\ DOMAIN t = 1..(Len(s) + 1)
      /\ t[Len(s) + 1] = q /\ \A n \in DOMAIN s : t[n] = s[n]
  BY OneMore
<1> HIDE DEF t
<1>2. ASSUME NEW n \in DOMAIN t
      PROVE  /\ t[n].operand \in DOMAIN operands /\ t[n].operand <= current
             /\ t[n].address \in ToSet(Candidates(operands, t[n].operand))
  <2>1. CASE n = Len(s) + 1
    BY <1>1, <2>1
  <2>2. CASE n # Len(s) + 1
    <3>1. n \in DOMAIN s /\ t[n] = s[n]
      BY <1>1, <2>2
    <3> QED BY <3>1 DEF AskedSoFar
  <2> QED BY <2>1, <2>2
<1>3. AskedSoFar(t, operands, current)
  BY <1>2 DEF AskedSoFar
<1> QED BY <1>3 DEF t

\* Questions up to one operand are questions up to the next.
LEMMA AskedEarlier ==
  ASSUME NEW s \in Seq(Questions), NEW operands, NEW current \in Nat,
         AskedSoFar(s, operands, current)
  PROVE  AskedSoFar(s, operands, current + 1)
<1>1. \A n \in DOMAIN s : s[n].operand \in Nat
  <2>1. \A n \in DOMAIN s : s[n] \in Questions
    OBVIOUS
  <2> QED BY <2>1 DEF Questions
<1> QED BY <1>1 DEF AskedSoFar

\* An address the symbolizer has refused is one less to ask about.
LEMMA OneRefused ==
  ASSUME NEW s \in Seq(Questions), NEW q \in Questions, NEW operands, NEW current,
         NEW left \in Seq(Address), left # << >>,
         Pending(s, operands, current, left),
         q.operand = current, q.address = Head(left), ~q.ok
  PROVE  Pending(Append(s, q), operands, current, Tail(left))
<1> DEFINE t == Append(s, q)
<1>1. Len(s) \in Nat /\ t[Len(s) + 1] = q /\ \A n \in DOMAIN s : t[n] = s[n]
  BY OneMore
<1>2. QuestionsIn(t, current) = QuestionsIn(s, current) \cup {Len(s) + 1}
  BY QuestionsGrow
<1>3. QuestionsIn(s, current) \subseteq DOMAIN s
  BY DEF QuestionsIn
<1>4. ToSet(left) = {Head(left)} \cup ToSet(Tail(left))
  BY HeadAndTail
<1> HIDE DEF t
<1>5. \A n \in QuestionsIn(t, current) : ~t[n].ok
  BY <1>1, <1>2, <1>3 DEF Pending
<1>6. ToSet(Tail(left)) \subseteq ToSet(Candidates(operands, current))
  BY <1>4 DEF Pending
<1>7. ASSUME NEW a \in ToSet(Candidates(operands, current))
      PROVE  a \in {t[n].address : n \in QuestionsIn(t, current)} \cup ToSet(Tail(left))
  <2>1. a \in {s[n].address : n \in QuestionsIn(s, current)} \cup ToSet(left)
    BY DEF Pending
  <2>2. CASE a \in {s[n].address : n \in QuestionsIn(s, current)}
    <3>1. PICK n \in QuestionsIn(s, current) : a = s[n].address
      BY <2>2
    <3>2. n \in QuestionsIn(t, current) /\ a = t[n].address
      BY <1>1, <1>2, <1>3, <3>1
    <3> QED BY <3>2
  <2>3. CASE a = Head(left)
    <3>1. Len(s) + 1 \in QuestionsIn(t, current) /\ a = t[Len(s) + 1].address
      BY <1>1, <1>2, <2>3
    <3> QED BY <3>1
  <2> QED BY <1>4, <2>1, <2>2, <2>3
<1>8. Pending(t, operands, current, Tail(left))
  BY <1>5, <1>6, <1>7 DEF Pending
<1> QED BY <1>8 DEF t

\* An answer settles the operand asked about.
LEMMA Answered ==
  ASSUME NEW s \in Seq(Questions), NEW q \in Questions, NEW operands, NEW current,
         q.operand = current, q.ok
  PROVE  SettledBy(Append(s, q), operands, current, <<"symbol", q.address>>)
<1> DEFINE t    == Append(s, q)
           last == Len(s) + 1
<1>1. /\ Len(s) \in Nat /\ t[last] = q
      /\ \A n \in DOMAIN s : n \in Nat /\ n <= Len(s)
  BY OneMore
<1>2. QuestionsIn(t, current) = QuestionsIn(s, current) \cup {last}
  BY QuestionsGrow
<1>3. QuestionsIn(s, current) \subseteq DOMAIN s
  BY DEF QuestionsIn
<1>4. \A l \in QuestionsIn(t, current) : l <= last
  BY <1>1, <1>2, <1>3
<1> HIDE DEF t, last
<1>5. last \in QuestionsIn(t, current)
  BY <1>2
<1>6. SettledBy(t, operands, current, <<"symbol", q.address>>)
  BY <1>1, <1>4, <1>5 DEF SettledBy
<1> QED BY <1>6 DEF t

\* An operand whose addresses were all refused is settled with its text.
LEMMA AllRefused ==
  ASSUME NEW s \in Seq(Questions), NEW operands, NEW current,
         AskedSoFar(s, operands, current), Pending(s, operands, current, << >>)
  PROVE  SettledBy(s, operands, current, operands[current].text)
<1>1. ToSet(<< >>) = {}
  BY DEF ToSet
<1>2. {s[n].address : n \in QuestionsIn(s, current)} \subseteq
        ToSet(Candidates(operands, current))
  BY DEF AskedSoFar, QuestionsIn
<1>3. {s[n].address : n \in QuestionsIn(s, current)} = ToSet(Candidates(operands, current))
  BY <1>1, <1>2 DEF Pending
<1> QED BY <1>3 DEF SettledBy, Pending

\* Nothing has been asked yet about the operand behind.
LEMMA NextPending ==
  ASSUME NEW s \in Seq(Questions), NEW operands, NEW current \in Nat,
         AskedSoFar(s, operands, current)
  PROVE  Pending(s, operands, current + 1, Candidates(operands, current + 1))
<1>1. \A n \in DOMAIN s : s[n].operand # current + 1
  <2>1. \A n \in DOMAIN s : s[n] \in Questions
    OBVIOUS
  <2>2. \A n \in DOMAIN s : s[n].operand \in Nat
    BY <2>1 DEF Questions
  <2> QED BY <2>2 DEF AskedSoFar
<1>2. QuestionsIn(s, current + 1) = {}
  BY <1>1 DEF QuestionsIn
<1> QED BY <1>2 DEF Pending

\* One operand more is settled.
LEMMA SettledMore ==
  ASSUME NEW s, NEW operands, NEW S, NEW shown \in Seq(S), NEW x \in S,
         AllSettled(s, operands, shown), SettledBy(s, operands, Len(shown) + 1, x)
  PROVE  AllSettled(s, operands, Append(shown, x))
<1> DEFINE t == Append(shown, x)
<1>1. /\ Len(shown) \in Nat /\ DOMAIN shown = 1..Len(shown)
      /\ DOMAIN t = 1..(Len(shown) + 1)
      /\ t[Len(shown) + 1] = x /\ \A n \in DOMAIN shown : t[n] = shown[n]
  BY OneMore
<1> HIDE DEF t
<1>2. ASSUME NEW k \in DOMAIN t
      PROVE  SettledBy(s, operands, k, t[k])
  <2>1. k = Len(shown) + 1 \/ k \in DOMAIN shown
    BY <1>1
  <2> QED BY <1>1, <2>1 DEF AllSettled
<1>3. AllSettled(s, operands, t)
  BY <1>2 DEF AllSettled
<1> QED BY <1>3 DEF t

\* The operands before the current one stay settled whatever is asked about it.
LEMMA SettledStill ==
  ASSUME NEW s \in Seq(Questions), NEW q \in Questions, NEW operands, NEW S,
         NEW shown \in Seq(S), AllSettled(s, operands, shown), q.operand = Len(shown) + 1
  PROVE  AllSettled(Append(s, q), operands, shown)
<1>1. \A k \in DOMAIN shown : q.operand # k
  OBVIOUS
<1> QED BY <1>1, StaysSettled DEF AllSettled

-----------------------------------------------------------------------------
(* Operands, decoded and converted.                                        *)

\* What formatOperand asks about an operand are addresses, and the right ones.
LEMMA CandidatesSound ==
  ASSUME NEW w, NEW address, NEW texts, NEW operands, NEW k \in Nat, k >= 1,
         Listed(texts, operands, w, address)
  PROVE  /\ Candidates(operands, k) \in Seq(Address) /\ Len(Candidates(operands, k)) <= 2
         /\ \A a \in ToSet(Candidates(operands, k)) :
              k \in DOMAIN operands /\ AddressRight(operands[k], w, address, a)
<1>1. Len(operands) \in Nat /\ DOMAIN operands = 1..Len(operands)
  BY DEF Listed
<1>2. CASE k <= Len(operands)
  <2>1. k \in DOMAIN operands /\ Candidates(operands, k) = Asks(operands[k])
    <3>1. k \in DOMAIN operands
      BY <1>1, <1>2
    <3>2. Candidates(operands, k) = Asks(operands[k])
      BY <1>2, Zenon DEF Candidates, Asks
    <3> QED BY <3>1, <3>2
  <2>2. SoundAddresses(operands[k], w, address)
    BY <1>1, <2>1 DEF Listed, Sound
  <2>o. PICK o : o = operands[k]
    OBVIOUS
  <2>c. PICK c : c = Asks(o)
    OBVIOUS
  <2>3. CASE c = << >>
    <3>1. c \in Seq(Address) /\ Len(c) = 0 /\ ToSet(c) = {}
      BY <2>3 DEF ToSet
    <3> QED BY <2>1, <2>c, <2>o, <3>1
  <2>4. CASE c # << >>
    <3>1. PICK a \in Address : c \in {<<a>>, <<a, a>>} /\ AddressRight(o, w, address, a)
      BY <2>2, <2>4, <2>c, <2>o DEF SoundAddresses
    <3>2. c = <<a>> \/ c = <<a, a>>
      BY <3>1
    <3>3. c \in Seq(Address) /\ Len(c) <= 2
      <4>1. <<a>> \in Seq(Address) /\ Len(<<a>>) = 1
        OBVIOUS
      <4>2. <<a, a>> \in Seq(Address) /\ Len(<<a, a>>) = 2
        OBVIOUS
      <4>3. CASE c = <<a>>
        BY <4>1, <4>3
      <4>4. CASE c = <<a, a>>
        BY <4>2, <4>4
      <4> QED BY <3>2, <4>3, <4>4
    <3>4. \A n \in DOMAIN c : c[n] = a
      BY <3>2
    <3>5. \A x \in ToSet(c) : x = a
      BY <3>4 DEF ToSet
    <3> QED BY <2>1, <2>c, <2>o, <3>1, <3>3, <3>5
  <2> QED BY <2>3, <2>4
<1>3. CASE ~(k <= Len(operands))
  <2>1. Candidates(operands, k) = << >>
    BY <1>3 DEF Candidates
  <2>2. << >> \in Seq(Address) /\ Len(<< >>) = 0 /\ ToSet(<< >>) = {}
    BY DEF ToSet
  <2> QED BY <2>1, <2>2
<1> QED BY <1>2, <1>3

\* finalizeInstruction's operands.
Converted(operands) == [k \in DOMAIN operands |-> convertOperand(operands[k])]

\* convertOperand keeps the number of the operands and their texts.
LEMMA ConvertedSame ==
  ASSUME NEW S, NEW operands \in Seq(S)
  PROVE  /\ Len(Converted(operands)) = Len(operands)
         /\ DOMAIN Converted(operands) = DOMAIN operands
         /\ Converted(operands) = << >> <=> Len(operands) = 0
         /\ \A k \in DOMAIN operands : Converted(operands)[k].text = operands[k].text
<1>1. Len(operands) \in Nat /\ DOMAIN operands = 1..Len(operands)
  OBVIOUS
<1>2. DOMAIN Converted(operands) = 1..Len(operands)
  BY <1>1 DEF Converted
<1>3. Converted(operands) \in Seq({convertOperand(operands[k]) : k \in DOMAIN operands})
  BY <1>1 DEF Converted
<1>4. Len(Converted(operands)) = Len(operands)
  BY <1>1, <1>2, <1>3
<1>5. Converted(operands) = << >> <=> Len(operands) = 0
  BY <1>1, <1>3, <1>4, EmptySeq
<1>6. \A k \in DOMAIN operands : Converted(operands)[k].text = operands[k].text
  BY DEF Converted, convertOperand
<1> QED BY <1>1, <1>2, <1>4, <1>5, <1>6

\* convertOperand keeps the addresses to ask about.
LEMMA ConvertedCandidates ==
  ASSUME NEW S, NEW operands \in Seq(S), NEW k \in Nat, k >= 1
  PROVE  Candidates(Converted(operands), k) = Candidates(operands, k)
<1>1. Len(operands) \in Nat /\ DOMAIN operands = 1..Len(operands)
  OBVIOUS
<1>2. Len(Converted(operands)) = Len(operands)
  BY ConvertedSame
<1>3. CASE k <= Len(operands)
  <2>1. Converted(operands)[k] = convertOperand(operands[k])
    BY <1>1, <1>3 DEF Converted
  <2>2. /\ Converted(operands)[k].branchTarget = operands[k].branchTarget
        /\ Converted(operands)[k].resolved = operands[k].resolved
        /\ Converted(operands)[k].absolute = operands[k].absolute
    BY <2>1 DEF convertOperand
  <2> QED BY <1>2, <1>3, <2>2 DEF Candidates
<1>4. CASE ~(k <= Len(operands))
  BY <1>2, <1>4 DEF Candidates
<1> QED BY <1>3, <1>4

\* populateMetadata's immediates are those of the converted operands too.
LEMMA ConvertedImmediates ==
  ASSUME NEW S, NEW operands \in Seq(S)
  PROVE  ImmediateValues(Converted(operands)) = ImmediateValues(operands)
<1>1. Len(operands) \in Nat /\ DOMAIN operands = 1..Len(operands)
  OBVIOUS
<1>2. Len(Converted(operands)) = Len(operands)
  BY ConvertedSame
<1>3. ASSUME NEW k \in Nat, k >= 1
      PROVE  ImmediateOf(Converted(operands), k) = ImmediateOf(operands, k)
  <2>1. CASE k <= Len(operands)
    <3>1. Converted(operands)[k].immediate = operands[k].immediate
      BY <1>1, <1>3, <2>1 DEF Converted, convertOperand
    <3> QED BY <1>2, <2>1, <3>1 DEF ImmediateOf
  <2>2. CASE ~(k <= Len(operands))
    BY <1>2, <2>2 DEF ImmediateOf
  <2> QED BY <2>1, <2>2
<1>4. /\ ImmediateOf(Converted(operands), 1) = ImmediateOf(operands, 1)
      /\ ImmediateOf(Converted(operands), 2) = ImmediateOf(operands, 2)
  BY <1>3
<1> QED BY ONLY <1>4 DEF ImmediateValues

-----------------------------------------------------------------------------
(* The inductive invariant.                                                *)

\* The inductive invariant.
RInv == program \in Programs /\ RenderIInv

\* What may be shown for an operand.
Shows(texts) == ToSet(texts) \cup ({"symbol"} \X Address)

\* AskedInOrder while formatOperands is at work.
Turn(s, operands, shown, left) ==
  /\ AskedSoFar(s, operands, Len(shown) + 1)
  /\ AllSettled(s, operands, shown)
  /\ Pending(s, operands, Len(shown) + 1, left)

\* The invariant says so.
LEMMA InOrderTurn ==
  ASSUME inst # Nothing, symbolizer, AskedInOrder
  PROVE  Turn(asked, decoded.operands, rendered, candidates)
BY Zenon DEF AskedInOrder, Turn, AskedSoFar, AllSettled, SettledBy, Pending, QuestionsIn,
   Settled, QuestionsAbout

\* The decoded instruction, once it is there.
LEMMA DecodedAs ==
  ASSUME RInv, pc # "decoder"
  PROVE  \E last \in Nat : DescribedAs(decoded, program.words, program.address, last)
BY ProgramDescribed DEF RInv, RenderIInv, DescribedOnce

\* What the invariant says of a finished or half-formatted Instruction.
LEMMA InstFacts ==
  ASSUME RInv, inst # Nothing
  PROVE  /\ pc \in {"format", "returned"}
         /\ Listed(decoded.texts, decoded.operands, program.words, program.address)
         /\ inst.operands = Converted(decoded.operands)
         /\ Len(inst.operands) = Len(decoded.operands)
         /\ asked \in Seq(Questions) /\ rendered \in Seq(Shows(decoded.texts))
         /\ candidates \in Seq(Address)
         /\ pc = "format" => symbolizer /\ Turn(asked, decoded.operands, rendered, candidates)
<1>1. pc \in {"format", "returned"}
  BY DEF RInv, RenderIInv, RenderTypeOK
<1>2. Listed(decoded.texts, decoded.operands, program.words, program.address)
  BY <1>1, DecodedAs DEF DescribedAs
<1>3. inst.operands = Converted(decoded.operands)
  BY DEF RInv, RenderIInv, OwnInstruction, Converted
<1>4. decoded.operands \in Seq(ToSet(decoded.operands))
  BY <1>2 DEF Listed
<1>5. Len(inst.operands) = Len(decoded.operands)
  BY <1>3, <1>4, ConvertedSame
<1>6. /\ asked \in Seq(Questions) /\ rendered \in Seq(Shows(decoded.texts))
      /\ candidates \in Seq(Address)
  BY DEF RInv, RenderIInv, RenderTypeOK, Questions, Shows
<1>7. pc = "format" => symbolizer
  BY DEF RInv, RenderIInv, AskedInOrder
<1>8. AskedInOrder
  BY DEF RInv, RenderIInv
<1> QED BY <1>1, <1>2, <1>3, <1>5, <1>6, <1>7, <1>8, InOrderTurn

\* Nothing is one value, a decoded or finished instruction another.
LEMMA SomethingIsNot ==
  /\ \A words, address : Described(words, address) # Nothing
  /\ \A m, b, e, t, o, i : [mnemonic |-> m, bytes |-> b, extensionWords |-> e, texts |-> t,
                            operands |-> o, immediateValues |-> i] # Nothing
<1>1. \A m, b, e, t, o, i : [mnemonic |-> m, bytes |-> b, extensionWords |-> e, texts |-> t,
                             operands |-> o, immediateValues |-> i] # Nothing
  BY DEF Nothing
<1>2. ASSUME NEW words, NEW address
      PROVE  Described(words, address) # Nothing
  BY <1>1 DEF Described
<1> QED BY <1>1, <1>2

\* Before anything is decoded.
LEMMA InitRInv ==
  RenderInit => RInv
<1> SUFFICES ASSUME RenderInit
             PROVE  RInv
  OBVIOUS
<1>1. program \in Programs
  BY DEF RenderInit
<1>2. RenderTypeOK
  BY DEF RenderInit, RenderTypeOK
<1>3. DescribedOnce
  BY DEF RenderInit, DescribedOnce
<1>4. OwnInstruction /\ AskedInOrder
  BY DEF RenderInit, OwnInstruction, AskedInOrder
<1> QED BY <1>1, <1>2, <1>3, <1>4 DEF RInv, RenderIInv

\* The decoder describes the slice as it is: nobody has written into it yet.
LEMMA RunDecoderStep ==
  ASSUME RInv, RunDecoder
  PROVE  RInv'
<1>1. /\ pc = "decoder" /\ pc' = "finalize" /\ decoded' = Described(buffer, program.address)
      /\ program' = program /\ buffer' = buffer /\ symbolizer' = symbolizer
      /\ inst' = inst /\ rendered' = rendered /\ candidates' = candidates /\ asked' = asked
  BY DEF RunDecoder
<1>2. inst = Nothing /\ buffer = program.words /\ candidates = << >> /\ asked = << >>
  BY <1>1 DEF RInv, RenderIInv, RenderTypeOK, DescribedOnce
<1>3. decoded' # Nothing
  BY <1>1, SomethingIsNot
<1>4. RenderTypeOK'
  <2>1. /\ buffer \in {program.words, Reused} /\ symbolizer \in BOOLEAN
        /\ candidates \in Seq(Address) /\ Len(candidates) <= 2
        /\ asked \in Seq([operand : {1, 2}, address : Address, ok : BOOLEAN])
        /\ rendered = << >>
    BY <1>2 DEF RInv, RenderIInv, RenderTypeOK
  <2> QED BY <1>1, <1>2, <1>3, <2>1 DEF RenderTypeOK, Reused
<1>5. DescribedOnce'
  BY <1>1, <1>2 DEF DescribedOnce
<1>6. OwnInstruction' /\ AskedInOrder'
  BY <1>1, <1>2 DEF OwnInstruction, AskedInOrder, Nothing
<1>7. program' \in Programs
  BY <1>1 DEF RInv
<1> QED BY <1>4, <1>5, <1>6, <1>7 DEF RInv, RenderIInv

\* finalizeInstruction copies the bytes before anybody can write into them.
LEMMA FinalizeStep ==
  ASSUME RInv, Finalize
  PROVE  RInv'
<1> DEFINE operands == Converted(decoded.operands)
           formats  == symbolizer /\ operands # << >>
<1>1. /\ pc = "finalize"
      /\ inst' = [mnemonic        |-> decoded.mnemonic,
                  bytes           |-> Copied(decoded.bytes),
                  extensionWords  |-> decoded.extensionWords,
                  texts           |-> decoded.texts,
                  operands        |-> operands,
                  immediateValues |-> decoded.immediateValues]
      /\ pc' = IF formats THEN "format" ELSE "returned"
      /\ candidates' = IF formats THEN Candidates(operands, 1) ELSE << >>
      /\ program' = program /\ buffer' = buffer /\ symbolizer' = symbolizer
      /\ decoded' = decoded /\ rendered' = rendered /\ asked' = asked
  BY DEF Finalize, Converted
<1>2. /\ inst = Nothing /\ buffer = program.words /\ asked = << >> /\ rendered = << >>
      /\ decoded # Nothing /\ symbolizer \in BOOLEAN
      /\ decoded = Described(program.words, program.address)
  BY <1>1 DEF RInv, RenderIInv, RenderTypeOK, DescribedOnce
<1>3. PICK last \in Nat : DescribedAs(decoded, program.words, program.address, last)
  BY <1>1, DecodedAs
<1>4. /\ Listed(decoded.texts, decoded.operands, program.words, program.address)
      /\ decoded.bytes = SharedBytes(2 * last)
  BY <1>3 DEF DescribedAs
<1>5. decoded.operands \in Seq(ToSet(decoded.operands)) /\ Len(decoded.operands) \in Nat
  BY <1>4 DEF Listed
<1>6. /\ Len(operands) = Len(decoded.operands)
      /\ operands = << >> <=> Len(decoded.operands) = 0
      /\ Candidates(operands, 1) = Candidates(decoded.operands, 1)
  BY <1>5, ConvertedSame, ConvertedCandidates
<1>7. /\ Candidates(decoded.operands, 1) \in Seq(Address)
      /\ Len(Candidates(decoded.operands, 1)) <= 2
  BY <1>4, CandidatesSound
<1>8. inst' # Nothing
  BY <1>1, SomethingIsNot
<1>9. Copied(decoded.bytes) = OwnBytes(SubSeq(program.words, 1, decoded.bytes.size \div 2))
  BY <1>2, <1>4 DEF Copied, Shown, SharedBytes
<1>10. inst'.operands = operands
  BY <1>1
<1> HIDE DEF operands
<1>11. RenderTypeOK'
  <2>1. /\ pc' \in {"format", "returned"}
        /\ candidates' \in Seq(Address) /\ Len(candidates') <= 2
    BY <1>1, <1>6, <1>7
  <2>2. /\ rendered' \in Seq(ToSet(decoded.texts) \cup ({"symbol"} \X Address))
        /\ Len(rendered') <= Len(inst'.operands)
    BY <1>1, <1>2, <1>5, <1>6, <1>10
  <2>3. asked' \in Seq([operand : {1, 2}, address : Address, ok : BOOLEAN])
    BY <1>1, <1>2
  <2>4. buffer' \in {program'.words, Reused'}
    BY <1>1, <1>2
  <2> QED BY <1>1, <1>2, <1>8, <2>1, <2>2, <2>3, <2>4 DEF RenderTypeOK
<1>12. DescribedOnce'
  BY <1>1, <1>2 DEF DescribedOnce
<1>13. OwnInstruction'
  <2>1. ~(pc' = "returned" /\ symbolizer /\ operands # << >>)
    BY <1>1
  <2> QED BY <1>1, <1>9, <1>10, <2>1 DEF OwnInstruction, Converted, operands
<1>14. AskedInOrder'
  <2>1. CASE formats
    <3>1. AskedSoFar(<< >>, decoded.operands, 1)
      BY DEF AskedSoFar
    <3>2. Pending(<< >>, decoded.operands, 1, Candidates(decoded.operands, 1))
      BY DEF Pending, QuestionsIn
    <3>3. AllSettled(<< >>, decoded.operands, << >>)
      BY DEF AllSettled
    <3>4. Turn(asked', decoded'.operands, rendered', candidates')
      BY <1>1, <1>2, <1>6, <2>1, <3>1, <3>2, <3>3 DEF Turn
    <3>5. pc' # "returned" /\ symbolizer'
      BY <1>1, <2>1
    <3> QED BY <1>8, <3>4, <3>5, Zenon
           DEF AskedInOrder, Turn, AskedSoFar, AllSettled, SettledBy, Pending, QuestionsIn,
               Settled, QuestionsAbout
  <2>2. CASE ~formats
    <3>1. symbolizer => Len(decoded.operands) = 0 /\ Candidates(decoded.operands, 1) = << >>
      BY <1>6, <2>2 DEF Candidates
    <3>2. asked' = << >> /\ rendered' = << >> /\ candidates' = << >> /\ pc' = "returned"
      BY <1>1, <1>2, <2>2
    <3>3. ToSet(<< >>) = {} /\ Len(<< >>) = 0
      BY DEF ToSet
    <3> QED BY <1>1, <3>1, <3>2, <3>3 DEF AskedInOrder, QuestionsAbout
  <2> QED BY <2>1, <2>2
<1>15. program' \in Programs
  BY <1>1 DEF RInv
<1> QED BY <1>11, <1>12, <1>13, <1>14, <1>15 DEF RInv, RenderIInv

\* What a question or a text leaves alone.
LEMMA FormatFrame ==
  ASSUME RInv, pc = "format", buffer' \in {program.words, Reused},
         program' = program, symbolizer' = symbolizer, pc' = pc, decoded' = decoded, inst' = inst,
         asked' \in Seq(Questions), rendered' \in Seq(Shows(decoded.texts)),
         candidates' \in Seq(Address), Len(candidates') <= 2,
         Len(rendered') <= Len(inst.operands),
         Turn(asked', decoded.operands, rendered', candidates')
  PROVE  RInv'
<1>1. inst # Nothing /\ decoded # Nothing /\ symbolizer
  BY DEF RInv, RenderIInv, RenderTypeOK, AskedInOrder
<1>2. RenderTypeOK'
  <2>1. buffer' \in {program'.words, Reused'}
    BY DEF Reused
  <2>2. asked' \in Seq([operand : {1, 2}, address : Address, ok : BOOLEAN])
    BY DEF Questions
  <2>3. rendered' \in Seq(ToSet(decoded'.texts) \cup ({"symbol"} \X Address))
    BY DEF Shows
  <2>4. symbolizer \in BOOLEAN
    BY DEF RInv, RenderIInv, RenderTypeOK
  <2> QED BY <1>1, <2>1, <2>2, <2>3, <2>4 DEF RenderTypeOK
<1>3. DescribedOnce'
  BY DEF RInv, RenderIInv, DescribedOnce
<1>4. OwnInstruction'
  BY DEF RInv, RenderIInv, OwnInstruction
<1>5. AskedInOrder'
  <2>1. Turn(asked', decoded'.operands, rendered', candidates')
    OBVIOUS
  <2>2. inst' # Nothing /\ pc' # "returned" /\ symbolizer'
    BY <1>1
  <2> QED BY <2>1, <2>2, Zenon
         DEF AskedInOrder, Turn, AskedSoFar, AllSettled, SettledBy, Pending, QuestionsIn,
             Settled, QuestionsAbout
<1>6. program' \in Programs
  BY DEF RInv
<1> QED BY <1>2, <1>3, <1>4, <1>5, <1>6 DEF RInv, RenderIInv

\* A question about an address of the current operand: refused, or its symbol is shown.
LEMMA AskStep ==
  ASSUME RInv, Ask
  PROVE  RInv'
<1> DEFINE current == Len(rendered) + 1
           a       == Head(candidates)
           ops     == decoded.operands
<1>1. /\ pc = "format" /\ candidates # << >> /\ buffer' \in {buffer, Reused}
      /\ program' = program /\ symbolizer' = symbolizer /\ pc' = pc
      /\ decoded' = decoded /\ inst' = inst
  BY DEF Ask
<1>2. inst # Nothing /\ buffer \in {program.words, Reused} /\ Len(candidates) <= 2
  BY <1>1 DEF RInv, RenderIInv, RenderTypeOK
<1>3. /\ Listed(decoded.texts, ops, program.words, program.address)
      /\ inst.operands = Converted(ops) /\ Len(inst.operands) = Len(ops)
      /\ asked \in Seq(Questions) /\ rendered \in Seq(Shows(decoded.texts))
      /\ candidates \in Seq(Address) /\ Turn(asked, ops, rendered, candidates)
  BY <1>1, <1>2, InstFacts
<1>4. PICK ok \in BOOLEAN :
        /\ asked' = Append(asked, [operand |-> current, address |-> a, ok |-> ok])
        /\ IF ok THEN Render(<<"symbol", a>>)
                 ELSE rendered' = rendered /\ candidates' = Tail(candidates)
  BY DEF Ask
<1>5. a \in Address /\ a \in ToSet(candidates) /\ Tail(candidates) \in Seq(Address)
      /\ Len(Tail(candidates)) = Len(candidates) - 1
  BY <1>1, <1>3, HeadAndTail
<1>6. /\ AskedSoFar(asked, ops, current) /\ AllSettled(asked, ops, rendered)
      /\ Pending(asked, ops, current, candidates)
  BY <1>3 DEF Turn
<1>7. current \in Nat /\ current >= 1
  BY <1>3
<1>8. a \in ToSet(Candidates(ops, current))
  BY <1>5, <1>6 DEF Pending
<1>9. Len(ops) \in Nat /\ Len(ops) <= 2 /\ DOMAIN ops = 1..Len(ops) /\ ops \in Seq(ToSet(ops))
  BY <1>3 DEF Listed
<1>10. current \in DOMAIN ops /\ current \in {1, 2} /\ current <= Len(ops)
  <2>1. current \in DOMAIN ops
    BY <1>3, <1>7, <1>8, CandidatesSound
  <2> QED BY <1>7, <1>9, <2>1
<1>q. PICK q : q = [operand |-> current, address |-> a, ok |-> ok]
  OBVIOUS
<1>11. /\ q \in Questions /\ q.operand = current /\ q.address = a /\ q.ok = ok
       /\ asked' = Append(asked, q)
  BY <1>4, <1>5, <1>10, <1>q DEF Questions
<1>12. asked' \in Seq(Questions)
  BY <1>3, <1>11, OneMore
<1>13. AskedSoFar(asked', ops, current)
  BY <1>3, <1>6, <1>7, <1>8, <1>10, <1>11, AskedMore
<1>14. AllSettled(asked', ops, rendered)
  BY <1>3, <1>6, <1>11, SettledStill
<1>15. buffer' \in {program.words, Reused}
  BY <1>1, <1>2
<1>16. CASE ok
  <2>x. PICK shown : shown = <<"symbol", a>>
    OBVIOUS
  <2>1. /\ rendered' = Append(rendered, shown)
        /\ candidates' = Candidates(inst.operands, Len(rendered) + 2)
    BY <1>4, <1>16, <2>x DEF Render
  <2>2. shown \in Shows(decoded.texts)
    BY <1>5, <2>x DEF Shows
  <2>3. /\ rendered' \in Seq(Shows(decoded.texts)) /\ Len(rendered') = current
        /\ Len(rendered) + 2 = current + 1
    BY <1>3, <2>1, <2>2, OneMore
  <2>4. candidates' = Candidates(ops, current + 1)
    BY <1>3, <1>7, <1>9, <2>1, <2>3, ConvertedCandidates
  <2>5. candidates' \in Seq(Address) /\ Len(candidates') <= 2
    BY <1>3, <1>7, <2>4, CandidatesSound
  <2>6. SettledBy(asked', ops, current, shown)
    BY <1>3, <1>11, <1>16, <2>x, Answered
  <2>7. AllSettled(asked', ops, rendered')
    BY <1>3, <1>14, <2>1, <2>2, <2>6, SettledMore
  <2>8. AskedSoFar(asked', ops, current + 1)
    BY <1>7, <1>12, <1>13, AskedEarlier
  <2>9. Pending(asked', ops, current + 1, candidates')
    BY <1>7, <1>12, <1>13, <2>4, NextPending
  <2>10. Turn(asked', ops, rendered', candidates')
    BY <2>3, <2>7, <2>8, <2>9 DEF Turn
  <2>11. Len(rendered') <= Len(inst.operands)
    BY <1>3, <1>10, <2>3
  <2> QED BY <1>1, <1>12, <1>15, <2>3, <2>5, <2>10, <2>11, FormatFrame
<1>17. CASE ~ok
  <2>1. rendered' = rendered /\ candidates' = Tail(candidates)
    BY <1>4, <1>17
  <2>2. Pending(asked', ops, current, candidates')
    BY <1>1, <1>3, <1>6, <1>11, <1>17, <2>1, OneRefused
  <2>3. Turn(asked', ops, rendered', candidates')
    BY <1>13, <1>14, <2>1, <2>2 DEF Turn
  <2>4. candidates' \in Seq(Address) /\ Len(candidates') <= 2
    BY <1>2, <1>3, <1>5, <2>1
  <2>5. rendered' \in Seq(Shows(decoded.texts)) /\ Len(rendered') <= Len(inst.operands)
    BY <1>3, <1>9, <1>10, <2>1
  <2> QED BY <1>1, <1>12, <1>15, <2>3, <2>4, <2>5, FormatFrame
<1> QED BY <1>16, <1>17

\* An operand whose addresses were all refused keeps its text.
LEMMA ShowTextStep ==
  ASSUME RInv, ShowText
  PROVE  RInv'
<1> DEFINE current == Len(rendered) + 1
           ops     == decoded.operands
<1>1. /\ pc = "format" /\ candidates = << >> /\ Len(rendered) < Len(inst.operands)
      /\ Render(inst.operands[current].text)
      /\ program' = program /\ buffer' = buffer /\ symbolizer' = symbolizer /\ pc' = pc
      /\ decoded' = decoded /\ inst' = inst /\ asked' = asked
  BY DEF ShowText
<1>2. inst # Nothing /\ buffer \in {program.words, Reused}
  BY <1>1 DEF RInv, RenderIInv, RenderTypeOK
<1>3. /\ Listed(decoded.texts, ops, program.words, program.address)
      /\ inst.operands = Converted(ops) /\ Len(inst.operands) = Len(ops)
      /\ asked \in Seq(Questions) /\ rendered \in Seq(Shows(decoded.texts))
      /\ candidates \in Seq(Address) /\ Turn(asked, ops, rendered, candidates)
  BY <1>1, <1>2, InstFacts
<1>4. /\ AskedSoFar(asked, ops, current) /\ AllSettled(asked, ops, rendered)
      /\ Pending(asked, ops, current, << >>)
  BY <1>1, <1>3 DEF Turn
<1>5. /\ Len(ops) \in Nat /\ DOMAIN ops = 1..Len(ops) /\ ops \in Seq(ToSet(ops))
      /\ decoded.texts \in Seq(ToSet(decoded.texts)) /\ Len(decoded.texts) = Len(ops)
      /\ \A k \in 1..Len(ops) : decoded.texts[k] = ops[k].text
  BY <1>3 DEF Listed
<1>6. current \in Nat /\ current >= 1 /\ current \in 1..Len(ops)
  BY <1>1, <1>3, <1>5
<1>s. PICK shown : shown = ops[current].text
  OBVIOUS
<1>7. /\ rendered' = Append(rendered, shown)
      /\ candidates' = Candidates(inst.operands, Len(rendered) + 2)
  <2>1. inst.operands[current].text = shown
    BY <1>3, <1>5, <1>6, <1>s, ConvertedSame
  <2> QED BY <1>1, <2>1 DEF Render
<1>8. shown \in Shows(decoded.texts)
  <2>1. shown = decoded.texts[current] /\ current \in DOMAIN decoded.texts
    BY <1>5, <1>6, <1>s
  <2> QED BY <2>1 DEF Shows, ToSet
<1>9. /\ rendered' \in Seq(Shows(decoded.texts)) /\ Len(rendered') = current
      /\ Len(rendered) + 2 = current + 1
  BY <1>3, <1>7, <1>8, OneMore
<1>10. candidates' = Candidates(ops, current + 1)
  BY <1>3, <1>5, <1>6, <1>7, <1>9, ConvertedCandidates
<1>11. candidates' \in Seq(Address) /\ Len(candidates') <= 2
  BY <1>3, <1>6, <1>10, CandidatesSound
<1>12. SettledBy(asked, ops, current, shown)
  BY <1>3, <1>4, <1>s, AllRefused
<1>13. AllSettled(asked, ops, rendered')
  BY <1>3, <1>4, <1>7, <1>8, <1>12, SettledMore
<1>14. AskedSoFar(asked, ops, current + 1)
  BY <1>3, <1>4, <1>6, AskedEarlier
<1>15. Pending(asked, ops, current + 1, candidates')
  BY <1>3, <1>4, <1>6, <1>10, NextPending
<1>16. Turn(asked', ops, rendered', candidates')
  BY <1>1, <1>9, <1>13, <1>14, <1>15 DEF Turn
<1>17. Len(rendered') <= Len(inst.operands)
  BY <1>3, <1>5, <1>6, <1>9
<1>18. asked' \in Seq(Questions) /\ buffer' \in {program.words, Reused}
  BY <1>1, <1>2, <1>3
<1> QED BY <1>1, <1>9, <1>11, <1>16, <1>17, <1>18, FormatFrame

\* formatOperands returns when all the operands are settled.
LEMMA JoinStep ==
  ASSUME RInv, Join
  PROVE  RInv'
<1> DEFINE ops == decoded.operands
<1>1. /\ pc = "format" /\ Len(rendered) = Len(inst.operands)
      /\ inst' = [inst EXCEPT !.texts = rendered] /\ pc' = "returned"
      /\ program' = program /\ buffer' = buffer /\ symbolizer' = symbolizer
      /\ decoded' = decoded /\ rendered' = rendered /\ candidates' = candidates /\ asked' = asked
  BY DEF Join
<1>2. RenderTypeOK /\ DescribedOnce /\ OwnInstruction /\ inst # Nothing /\ decoded # Nothing
  BY <1>1 DEF RInv, RenderIInv, RenderTypeOK
<1>3. /\ Listed(decoded.texts, ops, program.words, program.address)
      /\ inst.operands = Converted(ops) /\ Len(inst.operands) = Len(ops)
      /\ rendered \in Seq(Shows(decoded.texts)) /\ symbolizer
      /\ Turn(asked, ops, rendered, candidates)
  BY <1>1, <1>2, InstFacts
<1>4. /\ Len(ops) \in Nat /\ ops \in Seq(ToSet(ops))
      /\ decoded.texts \in Seq(ToSet(decoded.texts)) /\ Len(decoded.texts) = Len(ops)
  BY <1>3 DEF Listed
<1>b. PICK bytes : bytes = OwnBytes(SubSeq(program.words, 1, decoded.bytes.size \div 2))
  OBVIOUS
<1>5. inst' = [mnemonic        |-> decoded.mnemonic,
               bytes           |-> bytes,
               extensionWords  |-> decoded.extensionWords,
               texts           |-> rendered,
               operands        |-> Converted(ops),
               immediateValues |-> decoded.immediateValues]
  <2>1. PICK texts : inst = [mnemonic        |-> decoded.mnemonic,
                             bytes           |-> bytes,
                             extensionWords  |-> decoded.extensionWords,
                             texts           |-> texts,
                             operands        |-> Converted(ops),
                             immediateValues |-> decoded.immediateValues]
    BY <1>2, <1>b DEF OwnInstruction, Converted
  <2> QED BY <1>1, <2>1
<1>6. inst' # Nothing
  BY <1>5, SomethingIsNot
<1>7. inst'.operands = Converted(ops)
  BY <1>5
<1>8. RenderTypeOK'
  <2>1. /\ buffer \in {program.words, Reused} /\ symbolizer \in BOOLEAN
        /\ candidates \in Seq(Address) /\ Len(candidates) <= 2
        /\ asked \in Seq([operand : {1, 2}, address : Address, ok : BOOLEAN])
        /\ rendered \in Seq(ToSet(decoded.texts) \cup ({"symbol"} \X Address))
    BY <1>2 DEF RenderTypeOK
  <2>2. Len(rendered') <= Len(inst'.operands)
    BY <1>1, <1>3, <1>4, <1>7
  <2> QED BY <1>1, <1>2, <1>6, <2>1, <2>2 DEF RenderTypeOK, Reused
<1>9. DescribedOnce'
  BY <1>1, <1>2 DEF DescribedOnce
<1>10. OwnInstruction'
  <2>1. CASE Len(ops) = 0
    <3>1. Converted(ops) = << >>
      BY <1>4, <2>1, ConvertedSame
    <3>2. rendered = << >> /\ decoded.texts = << >>
      BY <1>1, <1>3, <1>4, <2>1, EmptySeq
    <3> QED BY <1>1, <1>3, <1>5, <1>7, <1>b, <3>1, <3>2 DEF OwnInstruction, Converted
  <2>2. CASE Len(ops) # 0
    <3>1. Converted(ops) # << >>
      BY <1>4, <2>2, ConvertedSame
    <3> QED BY <1>1, <1>3, <1>5, <1>7, <1>b, <3>1 DEF OwnInstruction, Converted
  <2> QED BY <2>1, <2>2
<1>11. AskedInOrder'
  <2>1. Turn(asked', decoded'.operands, rendered', candidates')
    BY <1>1, <1>3
  <2>2. inst' # Nothing /\ symbolizer' /\ pc' # "format" /\ Len(rendered') = Len(decoded'.operands)
    BY <1>1, <1>3, <1>6
  <2> QED BY <2>1, <2>2, Zenon
         DEF AskedInOrder, Turn, AskedSoFar, AllSettled, SettledBy, Pending, QuestionsIn,
             Settled, QuestionsAbout
<1>12. program' \in Programs
  BY <1>1 DEF RInv
<1> QED BY <1>8, <1>9, <1>10, <1>11, <1>12 DEF RInv, RenderIInv

\* What the caller does with its slice afterwards.
LEMMA ReuseBufferStep ==
  ASSUME RInv, ReuseBuffer
  PROVE  RInv'
<1>1. /\ pc = "returned" /\ buffer' = Reused
      /\ program' = program /\ symbolizer' = symbolizer /\ pc' = pc /\ decoded' = decoded
      /\ inst' = inst /\ rendered' = rendered /\ candidates' = candidates /\ asked' = asked
  BY DEF ReuseBuffer
<1>2. RenderTypeOK'
  BY <1>1 DEF RInv, RenderIInv, RenderTypeOK, Reused
<1>3. DescribedOnce'
  BY <1>1 DEF RInv, RenderIInv, DescribedOnce
<1>4. OwnInstruction'
  BY <1>1 DEF RInv, RenderIInv, OwnInstruction
<1>5. AskedInOrder'
  BY <1>1 DEF RInv, RenderIInv, AskedInOrder, Settled, QuestionsAbout
<1>6. program' \in Programs
  BY <1>1 DEF RInv
<1> QED BY <1>2, <1>3, <1>4, <1>5, <1>6 DEF RInv, RenderIInv

\* Nothing happens.
LEMMA StutterStep ==
  ASSUME RInv, UNCHANGED renderVars
  PROVE  RInv'
<1>1. /\ buffer' = buffer /\ program' = program /\ symbolizer' = symbolizer /\ pc' = pc
      /\ decoded' = decoded /\ inst' = inst /\ rendered' = rendered
      /\ candidates' = candidates /\ asked' = asked
  BY DEF renderVars
<1>2. RenderTypeOK'
  BY <1>1 DEF RInv, RenderIInv, RenderTypeOK, Reused
<1>3. DescribedOnce'
  BY <1>1 DEF RInv, RenderIInv, DescribedOnce
<1>4. OwnInstruction'
  BY <1>1 DEF RInv, RenderIInv, OwnInstruction
<1>5. AskedInOrder'
  BY <1>1 DEF RInv, RenderIInv, AskedInOrder, Settled, QuestionsAbout
<1>6. program' \in Programs
  BY <1>1 DEF RInv
<1> QED BY <1>2, <1>3, <1>4, <1>5, <1>6 DEF RInv, RenderIInv

\* RenderIInv is inductive.
LEMMA RInvAlways ==
  RenderSpec => []RInv
<1>1. RInv /\ [RenderNext]_renderVars => RInv'
  BY RunDecoderStep, FinalizeStep, AskStep, ShowTextStep, JoinStep, ReuseBufferStep, StutterStep
     DEF RenderNext
<1> QED BY <1>1, InitRInv, PTL DEF RenderSpec

-----------------------------------------------------------------------------
(* The invariants of Rendering.                                            *)

\* The variables have the values they are said to have, and no operand is
\* formatted twice, whatever the words, the symbolizer's answers and the
\* moments at which the caller reuses its slice.
THEOREM RenderTypeOKHolds ==
  RenderSpec => []RenderTypeOK
<1>1. RInv => RenderTypeOK
  BY DEF RInv, RenderIInv
<1> QED BY <1>1, RInvAlways, PTL

\* The state between the steps of finalizeInstruction and formatOperands.
THEOREM RenderIInvHolds ==
  RenderSpec => []RenderIInv
<1>1. RInv => RenderIInv
  BY DEF RInv
<1> QED BY <1>1, RInvAlways, PTL

\* The fields of the Instruction, when there is one.
LEMMA OwnFields ==
  ASSUME RInv, inst # Nothing
  PROVE  /\ inst.bytes = OwnBytes(SubSeq(program.words, 1, decoded.bytes.size \div 2))
         /\ inst.extensionWords = decoded.extensionWords
         /\ inst.texts = IF pc = "returned" /\ symbolizer /\ inst.operands # << >>
                         THEN rendered ELSE decoded.texts
         /\ inst.immediateValues = decoded.immediateValues
BY DEF RInv, RenderIInv, OwnInstruction

\* After the return, all the operands are settled if there is a symbolizer.
LEMMA AllAnswered ==
  ASSUME RInv, pc = "returned", symbolizer
  PROVE  /\ inst # Nothing /\ Len(rendered) = Len(decoded.operands)
         /\ DOMAIN rendered = DOMAIN decoded.operands
         /\ DOMAIN inst.operands = DOMAIN decoded.operands
         /\ inst.operands = << >> <=> Len(decoded.operands) = 0
         /\ \A k \in DOMAIN rendered : Settled(k, rendered[k])
<1>1. inst # Nothing
  BY DEF RInv, RenderIInv, RenderTypeOK
<1>2. /\ Listed(decoded.texts, decoded.operands, program.words, program.address)
      /\ inst.operands = Converted(decoded.operands) /\ rendered \in Seq(Shows(decoded.texts))
  BY <1>1, InstFacts
<1>3. decoded.operands \in Seq(ToSet(decoded.operands))
  BY <1>2 DEF Listed
<1>4. /\ Len(rendered) = Len(decoded.operands)
      /\ \A k \in DOMAIN rendered : Settled(k, rendered[k])
  BY <1>1 DEF RInv, RenderIInv, AskedInOrder
<1>5. DOMAIN rendered = DOMAIN decoded.operands
  BY <1>2, <1>3, <1>4
<1>6. /\ DOMAIN inst.operands = DOMAIN decoded.operands
      /\ inst.operands = << >> <=> Len(decoded.operands) = 0
  BY <1>2, <1>3, ConvertedSame
<1> QED BY <1>1, <1>4, <1>5, <1>6

\* A symbolizer that knows no address changes nothing of what is printed.
LEMMA SilentInRInv ==
  RInv => SilentSymbolizer
<1> SUFFICES ASSUME RInv, pc = "returned", \A n \in DOMAIN asked : ~asked[n].ok
             PROVE  inst.texts = decoded.texts
  BY DEF SilentSymbolizer
<1>1. inst # Nothing
  BY DEF RInv, RenderIInv, RenderTypeOK
<1>2. CASE ~(symbolizer /\ inst.operands # << >>)
  BY <1>1, <1>2, OwnFields
<1>3. CASE symbolizer /\ inst.operands # << >>
  <2>1. inst.texts = rendered
    BY <1>1, <1>3, OwnFields
  <2>2. /\ Listed(decoded.texts, decoded.operands, program.words, program.address)
        /\ rendered \in Seq(Shows(decoded.texts))
    BY <1>1, InstFacts
  <2>3. /\ Len(rendered) = Len(decoded.operands)
        /\ \A k \in DOMAIN rendered : Settled(k, rendered[k])
    BY <1>3, AllAnswered
  <2>4. /\ decoded.texts \in Seq(ToSet(decoded.texts))
        /\ Len(decoded.texts) = Len(decoded.operands)
        /\ \A k \in 1..Len(decoded.operands) : decoded.texts[k] = decoded.operands[k].text
    BY <2>2 DEF Listed
  <2>5. ASSUME NEW k \in DOMAIN rendered
        PROVE  rendered[k] = decoded.operands[k].text
    <3>1. \A n \in QuestionsAbout(k) : n \in DOMAIN asked
      BY DEF QuestionsAbout
    <3> QED BY <2>3, <3>1 DEF Settled
  <2>6. rendered = decoded.texts
    BY <2>2, <2>3, <2>4, <2>5
  <2> QED BY <2>1, <2>6
<1> QED BY <1>2, <1>3

\* With a symbolizer that refuses every address, and with one that is there but
\* asked about nothing, the operands are printed as the decoder wrote them.
THEOREM SilentSymbolizerHolds ==
  RenderSpec => []SilentSymbolizer
BY SilentInRInv, RInvAlways, PTL

\* SymbolsInPlace is a part of AskedInOrder, read after the return.
LEMMA InPlaceInRInv ==
  RInv => SymbolsInPlace
<1> SUFFICES ASSUME RInv, pc = "returned", symbolizer, NEW k \in DOMAIN inst.operands
             PROVE  Settled(k, inst.texts[k])
  BY DEF SymbolsInPlace
<1>1. /\ inst # Nothing /\ DOMAIN inst.operands = DOMAIN rendered
      /\ \A l \in DOMAIN rendered : Settled(l, rendered[l])
  BY AllAnswered
<1>2. inst.operands # << >>
  OBVIOUS
<1>3. inst.texts = rendered
  BY <1>1, <1>2, OwnFields
<1> QED BY <1>1, <1>3

\* Every operand's text is the symbol of the address asked about last, or, if
\* all its addresses were refused, the decoder's.
THEOREM SymbolsInPlaceHolds ==
  RenderSpec => []SymbolsInPlace
BY InPlaceInRInv, RInvAlways, PTL

\* The bytes copied are the opcode word and the extension words.
LEMMA OutliveInRInv ==
  RInv => BytesOutliveBuffer
<1> SUFFICES ASSUME RInv, inst # Nothing
             PROVE  Shown(inst.bytes) = <<program.words[1]>> \o inst.extensionWords
  BY DEF BytesOutliveBuffer
<1>1. pc # "decoder" /\ program \in Programs
  BY DEF RInv, RenderIInv, RenderTypeOK
<1>2. PICK last \in Nat : DescribedAs(decoded, program.words, program.address, last)
  BY <1>1, DecodedAs
<1>3. /\ 1 <= last /\ last <= Len(program.words)
      /\ decoded.bytes = SharedBytes(2 * last)
      /\ decoded.extensionWords = SubSeq(program.words, 2, last)
  BY <1>2 DEF DescribedAs
<1>4. decoded.bytes.size \div 2 = last
  BY <1>3 DEF SharedBytes
<1>5. Shown(inst.bytes) = SubSeq(program.words, 1, last)
  BY <1>4, OwnFields DEF Shown, OwnBytes
<1>6. program.words \in Seq(Word)
  BY <1>1, ProgramsAssumption
<1>7. SubSeq(program.words, 1, last) = <<program.words[1]>> \o SubSeq(program.words, 2, last)
  BY <1>3, <1>6
<1> QED BY <1>3, <1>5, <1>7, OwnFields

\* The instruction's bytes are its opcode and extension words, and stay so
\* however often the caller writes into the slice they were decoded from.
THEOREM BytesOutliveBufferHolds ==
  RenderSpec => []BytesOutliveBuffer
BY OutliveInRInv, RInvAlways, PTL

\* The operands are the ones the decoder described.
LEMMA UsedOnceInRInv ==
  RInv => WordsUsedOnce
<1> SUFFICES ASSUME RInv, decoded # Nothing
             PROVE  LET decoder == DecoderOf[program.words[1]]
                    IN  /\ UNION {decoded.operands[k].reads : k \in DOMAIN decoded.operands} =
                             2..(decoded.bytes.size \div 2)
                        /\ \A k, l \in DOMAIN decoded.operands :
                             k # l => decoded.operands[k].reads \cap decoded.operands[l].reads = {}
                        /\ decoder # NoDecoder =>
                             decoded.bytes.size =
                               Decode(decoder, program.words[1], 2 * Len(program.words)).size
  BY DEF WordsUsedOnce
<1>1. pc # "decoder" /\ program \in Programs
  BY DEF RInv, RenderIInv, RenderTypeOK
<1>2. PICK last \in Nat : DescribedAs(decoded, program.words, program.address, last)
  BY <1>1, DecodedAs
<1>3. /\ decoded.bytes = SharedBytes(2 * last)
      /\ UsedOnce(decoded.operands, last)
      /\ FindDecoder(program.words[1]) # NoDecoder =>
           Decode(FindDecoder(program.words[1]), program.words[1], 2 * Len(program.words)).size =
             2 * last
  BY <1>2 DEF DescribedAs
<1>4. decoded.bytes.size = 2 * last /\ decoded.bytes.size \div 2 = last
  BY <1>3 DEF SharedBytes
<1>5. program.words[1] \in Word
  <2>1. program.words \in Seq(Word) /\ program.words # << >>
    BY <1>1, ProgramsAssumption
  <2> QED BY <2>1
<1>6. DecoderOf[program.words[1]] = FindDecoder(program.words[1])
  BY <1>5 DEF DecoderOf
<1>7. /\ UNION {decoded.operands[k].reads : k \in DOMAIN decoded.operands} = 2..last
      /\ \A k, l \in DOMAIN decoded.operands :
           k # l => decoded.operands[k].reads \cap decoded.operands[l].reads = {}
  BY <1>3 DEF UsedOnce
<1> QED BY <1>3, <1>4, <1>6, <1>7, Zenon

\* The operands of an instruction, of every decoder and addressing mode, are
\* made of the words behind its opcode: of each of them, and of none twice.
THEOREM WordsUsedOnceHolds ==
  RenderSpec => []WordsUsedOnce
BY UsedOnceInRInv, RInvAlways, PTL

\* What ImmediatesFit says of one immediate.
Fits(imm) ==
  /\ imm.value \in 0..(Values(imm.size) - 1)
  /\ imm.signed \in (-(Values(imm.size) \div 2))..((Values(imm.size) \div 2) - 1)
  /\ (imm.value - imm.signed) % Values(imm.size) = 0

\* An Immediate of the decoders.
LEMMA ImmediateFits ==
  ASSUME NEW size \in {1, 2, 4}, NEW value \in 0..(Values(size) - 1)
  PROVE  Fits(Immediate(value, size))
<1> DEFINE imm == Immediate(value, size)
<1>1. imm.value = value /\ imm.size = size /\ imm.signed = AsSigned(value, size)
  BY DEF Immediate
<1>2. /\ AsSigned(value, size) \in (-(Values(size) \div 2))..((Values(size) \div 2) - 1)
      /\ (value - AsSigned(value, size)) % Values(size) = 0
  BY SignedValue
<1> HIDE DEF imm
<1> QED BY <1>1, <1>2, Zenon DEF Fits, imm

\* ... and of all.
AllFit(immediates) == \A n \in DOMAIN immediates : Fits(immediates[n])

\* The immediate of a sound operand.
LEMMA OneOperandFits ==
  ASSUME NEW o, SoundImmediate(o)
  PROVE  o.immediate = << >> \/ \E imm : o.immediate = <<imm>> /\ Fits(imm)
BY ImmediateFits DEF SoundImmediate

\* The immediates of at most two sound operands.
LEMMA AllOperandsFit ==
  ASSUME NEW texts, NEW operands, NEW w, NEW address, Listed(texts, operands, w, address)
  PROVE  AllFit(ImmediateValues(operands))
<1> DEFINE first == ImmediateOf(operands, 1)
           second == ImmediateOf(operands, 2)
<1>1. ASSUME NEW k \in Nat, k >= 1
      PROVE  \/ ImmediateOf(operands, k) = << >>
             \/ \E imm : ImmediateOf(operands, k) = <<imm>> /\ Fits(imm)
  <2>1. CASE k <= Len(operands)
    <3>1. Len(operands) \in Nat
      BY DEF Listed
    <3>2. SoundImmediate(operands[k])
      BY <1>1, <2>1, <3>1 DEF Listed, Sound
    <3> QED BY <2>1, <3>2, OneOperandFits DEF ImmediateOf
  <2>2. CASE ~(k <= Len(operands))
    BY <2>2 DEF ImmediateOf
  <2> QED BY <2>1, <2>2
<1>2. first = << >> \/ \E imm : first = <<imm>> /\ Fits(imm)
  BY <1>1
<1>3. second = << >> \/ \E imm : second = <<imm>> /\ Fits(imm)
  BY <1>1
<1>4. ImmediateValues(operands) = first \o second
  BY DEF ImmediateValues
<1> HIDE DEF first, second
<1>5. CASE first = << >> /\ second = << >>
  <2>1. ImmediateValues(operands) = << >>
    BY <1>4, <1>5, Joined
  <2> QED BY <2>1 DEF AllFit
<1>6. ASSUME NEW a, Fits(a),
             \/ first = <<a>> /\ second = << >>
             \/ first = << >> /\ second = <<a>>
      PROVE  AllFit(ImmediateValues(operands))
  <2>1. ImmediateValues(operands) = <<a>>
    BY <1>4, <1>6, Joined
  <2> QED BY <1>6, <2>1 DEF AllFit
<1>7. ASSUME NEW a, NEW b, Fits(a), Fits(b), first = <<a>>, second = <<b>>
      PROVE  AllFit(ImmediateValues(operands))
  <2>1. ImmediateValues(operands) = <<a, b>>
    BY <1>4, <1>7, Joined
  <2>2. DOMAIN <<a, b>> = {1, 2} /\ <<a, b>>[1] = a /\ <<a, b>>[2] = b
    OBVIOUS
  <2>3. \A n \in DOMAIN <<a, b>> : Fits(<<a, b>>[n])
    BY <1>7, <2>2
  <2> QED BY <2>1, <2>3, Zenon DEF AllFit
<1>8. CASE first = << >>
  BY <1>3, <1>5, <1>6, <1>8, Zenon
<1>9. ASSUME NEW a, first = <<a>>, Fits(a)
      PROVE  AllFit(ImmediateValues(operands))
  BY <1>3, <1>6, <1>7, <1>9, Zenon
<1> QED BY <1>2, <1>8, <1>9, Zenon

\* ImmediateValues is made before convertOperand and of the same operands.
LEMMA ImmediatesInRInv ==
  RInv => ImmediatesFit
<1> SUFFICES ASSUME RInv, inst # Nothing
             PROVE  /\ AllFit(inst.immediateValues)
                    /\ inst.immediateValues = ImmediateValues(inst.operands)
  BY DEF ImmediatesFit, AllFit, Fits
<1>1. pc # "decoder"
  BY DEF RInv, RenderIInv, RenderTypeOK
<1>2. PICK last \in Nat : DescribedAs(decoded, program.words, program.address, last)
  BY <1>1, DecodedAs
<1>3. decoded.immediateValues = ImmediateValues(decoded.operands)
  BY <1>2 DEF DescribedAs
<1>4. /\ Listed(decoded.texts, decoded.operands, program.words, program.address)
      /\ inst.operands = Converted(decoded.operands)
  BY InstFacts
<1>5. decoded.operands \in Seq(ToSet(decoded.operands))
  BY <1>4 DEF Listed
<1>6. inst.immediateValues = ImmediateValues(decoded.operands)
  BY <1>3, OwnFields
<1>7. ImmediateValues(inst.operands) = ImmediateValues(decoded.operands)
  BY <1>4, <1>5, ConvertedImmediates
<1>8. AllFit(ImmediateValues(decoded.operands))
  BY <1>4, AllOperandsFit
<1> QED BY <1>6, <1>7, <1>8

\* Every immediate of every instruction is a value of its size, Signed the same
\* value as a signed one, and ImmediateValues repeats those of the operands.
THEOREM ImmediatesFitHolds ==
  RenderSpec => []ImmediatesFit
BY ImmediatesInRInv, RInvAlways, PTL

\* What AsksForTheAddressMeant says of one question.
RightQuestion(structured, w, address, a) ==
  LET meant    == Meant(structured, w, address)
      isBranch == structured.kind = "branch_target"
      words    == Cardinality(structured.reads)
  IN  /\ a \in Address
      /\ (a = meant) <=>
           ~ \/ isBranch /\ words > 0
             \/ ~isBranch /\ words = 1 /\ a >= 32768
      /\ isBranch => a = Wrapped(meant + 2 * words)

\* A right address is a right question.
LEMMA AskedRight ==
  ASSUME NEW structured, NEW w, NEW address, NEW a, AddressRight(structured, w, address, a)
  PROVE  RightQuestion(structured, w, address, a)
<1>1. a \in Address
  BY DEF AddressRight
<1>2. /\ (a = Meant(structured, w, address)) <=>
            ~ \/ structured.kind = "branch_target" /\ Cardinality(structured.reads) > 0
              \/ /\ structured.kind # "branch_target" /\ Cardinality(structured.reads) = 1
                 /\ a >= 32768
  BY DEF AddressRight
<1>3. structured.kind = "branch_target" =>
        a = Wrapped(Meant(structured, w, address) + 2 * Cardinality(structured.reads))
  BY DEF AddressRight
<1> QED BY <1>1, <1>2, <1>3 DEF RightQuestion

\* Every address asked about is one of a sound operand.
LEMMA MeantInRInv ==
  RInv => AsksForTheAddressMeant
<1> SUFFICES ASSUME RInv, NEW n \in DOMAIN asked
             PROVE  RightQuestion(decoded.operands[asked[n].operand], program.words,
                                  program.address, asked[n].address)
  BY DEF AsksForTheAddressMeant, RightQuestion
<1>1. inst # Nothing
  <2>1. SUFFICES ASSUME inst = Nothing
                 PROVE  FALSE
    OBVIOUS
  <2>2. pc \in {"decoder", "finalize"}
    BY <2>1 DEF RInv, RenderIInv, RenderTypeOK
  <2>3. asked = << >>
    BY <2>2 DEF RInv, RenderIInv, DescribedOnce
  <2> QED BY <2>3
<1>2. /\ Listed(decoded.texts, decoded.operands, program.words, program.address)
      /\ asked \in Seq(Questions)
  BY <1>1, InstFacts
<1> DEFINE k == asked[n].operand
<1>3. k \in Nat /\ k >= 1
  <2>1. asked[n] \in Questions
    BY <1>2
  <2> QED BY <2>1 DEF Questions
<1>4. asked[n].address \in ToSet(Candidates(decoded.operands, k))
  BY <1>1 DEF RInv, RenderIInv, AskedInOrder
<1> HIDE DEF k
<1>5. AddressRight(decoded.operands[k], program.words, program.address, asked[n].address)
  BY <1>2, <1>3, <1>4, CandidatesSound
<1> QED
  BY <1>5, AskedRight DEF k

\* Of every operand of every instruction the symbolizer is asked for the address
\* the processor would use, but for the branches with a displacement word and
\* the short addresses of the upper half; those branches are off by the size of
\* their displacement.
THEOREM AsksForTheAddressMeantHolds ==
  RenderSpec => []AsksForTheAddressMeant
BY MeantInRInv, RInvAlways, PTL

=============================================================================
