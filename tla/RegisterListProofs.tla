------------------------- MODULE RegisterListProofs -------------------------
(***************************************************************************)
(* The text of a MOVEM register list, for every mask.                      *)
(***************************************************************************)
EXTENDS RegisterList, SequenceTheorems, TLAPS

\* Two registers whose numbers follow one another either follow one another
\* themselves, or nothing of the mask lies between a data and an address
\* register.
LEMMA FollowsOrStraddles ==
  ASSUME NEW d \in Nat, NEW a \in Nat, d < a, a <= 15,
         extractRegNum(a) = extractRegNum(d) + 1
  PROVE  a = d + 1 \/ (d < 8 /\ a = d + 9)
BY DEF extractRegNum

LEMMA Appended ==
  ASSUME NEW S, NEW s \in Seq(S), NEW e \in S
  PROVE  /\ Append(s, e) \in Seq(S)
         /\ Len(s) \in Nat
         /\ Len(Append(s, e)) = Len(s) + 1
         /\ Append(s, e)[Len(s) + 1] = e
         /\ \A k \in 1..Len(s) : Append(s, e)[k] = s[k]
         /\ Append(s, e) # << >>
BY AppendProperties, LenProperties

LEMMA RegTypes ==
  ASSUME RegTypeOK
  PROVE  /\ \A p \in mask : p \in Nat /\ p <= 15
         /\ Len(registers) \in Nat
         /\ \A k \in 1..Len(registers) : registers[k] \in Nat
         /\ Len(ranges) \in Nat
         /\ \A k \in 1..Len(ranges) : ranges[k][1] \in Nat /\ ranges[k][2] \in Nat
<1>1. \A p \in mask : p \in Nat /\ p <= 15
  BY MasksAssumption DEF RegTypeOK
<1>2. Len(registers) \in Nat /\ \A k \in 1..Len(registers) : registers[k] \in Nat
  BY ElementOfSeq, LenProperties DEF RegTypeOK
<1>3. Len(ranges) \in Nat /\ \A k \in 1..Len(ranges) : ranges[k] \in Nat \X Nat
  BY ElementOfSeq, LenProperties DEF RegTypeOK
<1> QED BY <1>1, <1>2, <1>3

-----------------------------------------------------------------------------
LEMMA RegInitIInv == RegInit => RegIInv
<1> SUFFICES ASSUME RegInit PROVE RegIInv
  OBVIOUS
<1>1. Len(registers) = 0 /\ Len(ranges) = 0
  BY DEF RegInit
<1>2. \A p \in mask : p \in Nat
  BY MasksAssumption DEF RegInit
<1>3. RegTypeOK
  BY EmptySeq DEF RegInit, RegTypeOK
<1>4. ListSoFar
  BY <1>1, <1>2 DEF RegInit, ListSoFar
<1>5. OpenRange
  BY <1>1 DEF RegInit, OpenRange
<1>6. ClosedRanges /\ LastRange /\ RangesAreMaximal
  BY <1>1 DEF RegInit, ClosedRanges, LastRange, RangesAreMaximal
<1> QED BY <1>3, <1>4, <1>5, <1>6 DEF RegIInv

\* One more bit of the mask: no range has been written yet.
LEMMA TestBitKeeps == ASSUME RegIInv, TestBit PROVE RegIInv'
<1>1. /\ RegTypeOK /\ ListSoFar /\ OpenRange /\ LastRange
      /\ ~Listed /\ bit' = bit + 1 /\ mask' = mask /\ i' = i /\ j' = j /\ ranges' = ranges
      /\ registers' = IF bit \in mask THEN Append(registers, bit) ELSE registers
  BY DEF RegIInv, TestBit
<1>2. /\ j = 1 /\ i = 1 /\ ranges = << >> /\ Len(ranges) = 0
  BY <1>1 DEF OpenRange, RegTypeOK
<1>3. bit \in Nat /\ bit + 1 <= 16
  BY <1>1 DEF Listed, RegTypeOK
<1>4. registers' \in Seq(Nat) /\ Len(registers') \in Nat
  BY <1>1, <1>3, Appended, LenProperties DEF RegTypeOK
<1>5. RegTypeOK'
  BY <1>1, <1>3, <1>4 DEF RegTypeOK
<1>6. ListSoFar'
  <2>1. CASE bit \in mask
    <3>1. /\ Len(registers) \in Nat
          /\ Len(registers') = Len(registers) + 1
          /\ registers'[Len(registers) + 1] = bit
          /\ \A k \in 1..Len(registers) : registers'[k] = registers[k]
      BY <1>1, <1>3, <2>1, Appended DEF RegTypeOK
    <3>2. /\ \A k \in 1..Len(registers) : registers[k] \in mask /\ registers[k] < bit
          /\ \A p \in mask : p < bit => \E k \in 1..Len(registers) : registers[k] = p
          /\ \A k, l \in 1..Len(registers) : k < l => registers[k] < registers[l]
      BY <1>1 DEF ListSoFar
    <3>3. \A k \in 1..Len(registers') : registers'[k] \in mask /\ registers'[k] < bit + 1
      BY <1>1, <1>3, <2>1, <3>1, <3>2, RegTypes
    <3>4. ASSUME NEW p \in mask, p < bit + 1
          PROVE  \E k \in 1..Len(registers') : registers'[k] = p
      <4>1. CASE p = bit
        BY <3>1, <4>1
      <4>2. CASE p # bit
        <5>1. PICK k \in 1..Len(registers) : registers[k] = p
          BY <1>1, <1>3, <3>2, <3>4, <4>2, RegTypes
        <5> QED BY <3>1, <5>1
      <4> QED BY <4>1, <4>2
    <3>5. \A k, l \in 1..Len(registers') : k < l => registers'[k] < registers'[l]
      BY <1>1, <1>3, <3>1, <3>2, RegTypes
    <3> QED BY <1>1, <3>3, <3>4, <3>5 DEF ListSoFar
  <2>2. CASE bit \notin mask
    <3>1. registers' = registers
      BY <1>1, <2>2
    <3>2. \A p \in mask : p < bit + 1 => p < bit
      BY <1>1, <1>3, <2>2, RegTypes
    <3>3. \A k \in 1..Len(registers) : registers[k] < bit + 1
      BY <1>1, <1>3, RegTypes DEF ListSoFar
    <3> QED BY <1>1, <3>1, <3>2, <3>3 DEF ListSoFar
  <2> QED BY <2>1, <2>2
<1>7. OpenRange'
  BY <1>1, <1>2, <1>4 DEF OpenRange
<1>8. ClosedRanges' /\ LastRange' /\ RangesAreMaximal'
  BY <1>1, <1>2 DEF ClosedRanges, LastRange, RangesAreMaximal
<1> QED BY <1>5, <1>6, <1>7, <1>8 DEF RegIInv

\* Between two registers of the list there is none of the mask.
LEMMA NothingBetween ==
  ASSUME RegIInv, Listed,
         NEW k \in 1..(Len(registers) - 1), NEW p \in mask,
         registers[k] < p, p < registers[k + 1]
  PROVE  FALSE
<1>1. /\ RegTypeOK /\ bit = 16
      /\ \A q \in mask : q < bit => \E m \in 1..Len(registers) : registers[m] = q
      /\ \A m, l \in 1..Len(registers) : m < l => registers[m] < registers[l]
  BY DEF RegIInv, ListSoFar, Listed
<1>2. /\ Len(registers) \in Nat
      /\ \A m \in 1..Len(registers) : registers[m] \in Nat
      /\ p \in Nat /\ p < bit
  BY <1>1, RegTypes
<1>3. PICK m \in 1..Len(registers) : registers[m] = p
  BY <1>1, <1>2
<1>4. m <= k \/ k + 1 <= m
  BY <1>2
<1>5. registers[m] <= registers[k] \/ registers[k + 1] <= registers[m]
  <2>1. m = k \/ m < k \/ m = k + 1 \/ k + 1 < m
    BY <1>2, <1>4
  <2> QED BY <1>1, <1>2, <2>1
<1> QED BY <1>2, <1>3, <1>5

\* What a range gains when the next register follows: that register, or the
\* whole gap between D and A registers when the mask straddles.
LEMMA FollowingGap ==
  ASSUME RegIInv, Listed,
         NEW k \in 1..(Len(registers) - 1), Follows(k + 1),
         NEW p \in 0..15, registers[k] < p, p <= registers[k + 1], p \notin mask
  PROVE  Straddles
<1> DEFINE d == registers[k]
           a == registers[k + 1]
<1>1. /\ RegTypeOK
      /\ \A m \in 1..Len(registers) : registers[m] \in mask
      /\ \A m, l \in 1..Len(registers) : m < l => registers[m] < registers[l]
  BY DEF RegIInv, ListSoFar
<1>2. /\ Len(registers) \in Nat
      /\ \A q \in mask : q \in Nat /\ q <= 15
  BY <1>1, RegTypes
<1>3. d \in mask /\ a \in mask /\ d < a
  BY <1>1, <1>2
<1>4. extractRegNum(a) = extractRegNum(d) + 1
  BY <1>2 DEF Follows
<1>5. d \in Nat /\ a \in Nat /\ a <= 15
  BY <1>2, <1>3
<1>6. a = d + 1 \/ (d < 8 /\ a = d + 9)
  BY <1>3, <1>4, <1>5, FollowsOrStraddles
<1>7. a # d + 1
  BY <1>3, <1>5
<1>8. \A q \in mask : q <= d \/ a <= q
  BY <1>2, <1>5, NothingBetween
<1> QED BY <1>3, <1>6, <1>7, <1>8 DEF Straddles

\* A range begins, or takes one register more: nothing is written.
LEMMA StartAndExtendKeep ==
  ASSUME RegIInv, StartRange \/ ExtendRange
  PROVE  RegIInv'
<1>1. /\ RegTypeOK /\ ListSoFar /\ OpenRange /\ ClosedRanges /\ LastRange /\ RangesAreMaximal
      /\ Listed /\ j <= Len(registers) /\ j' = j + 1
      /\ j = i \/ Follows(j)
      /\ mask' = mask /\ bit' = bit /\ registers' = registers /\ i' = i /\ ranges' = ranges
  BY DEF RegIInv, StartRange, ExtendRange
<1>2. /\ i \in Nat /\ j \in Nat /\ i <= j /\ Len(registers) \in Nat
      /\ \A k \in i..(j - 2) : Follows(k + 1)
  BY <1>1, RegTypes DEF RegTypeOK, OpenRange
<1>3. RegTypeOK'
  BY <1>1 DEF RegTypeOK
<1>4. ListSoFar'
  BY <1>1 DEF ListSoFar
<1>5. \A k \in i..(j - 1) : Follows(k + 1)
  <2> SUFFICES ASSUME NEW k \in i..(j - 1) PROVE Follows(k + 1)
    OBVIOUS
  <2>1. CASE k = j - 1
    <3>1. j # i /\ k + 1 = j
      BY <1>2, <2>1
    <3> QED BY <1>1, <3>1
  <2>2. CASE k # j - 1
    BY <1>2, <2>2
  <2> QED BY <2>1, <2>2
<1>6. ASSUME NEW p \in 0..15, registers[i] <= p, p <= registers[j], p \notin mask
      PROVE  Straddles
  <2>1. /\ \A k \in 1..Len(registers) : registers[k] \in Nat /\ registers[k] \in mask
        /\ 1 <= i /\ registers[j] \in Nat
    BY <1>1, <1>2, RegTypes DEF ListSoFar, RegTypeOK
  <2>2. CASE j = i
    <3>1. i \in 1..Len(registers) /\ registers[j] = registers[i]
      BY <1>1, <1>2, <2>1, <2>2
    <3>2. p = registers[i]
      BY <1>6, <2>1, <3>1
    <3> QED BY <1>6, <2>1, <3>1, <3>2
  <2>3. CASE j # i
    <3>1. i < j /\ j - 1 \in 1..(Len(registers) - 1) /\ (j - 1) + 1 = j /\ Follows(j)
      BY <1>1, <1>2, <2>1, <2>3
    <3>2. CASE p <= registers[j - 1]
      BY <1>1, <1>6, <3>1, <3>2 DEF OpenRange
    <3>3. CASE ~(p <= registers[j - 1])
      <4>1. registers[j - 1] < p
        BY <2>1, <3>1, <3>3
      <4> QED BY <1>1, <1>6, <3>1, <4>1, FollowingGap
    <3> QED BY <3>2, <3>3
  <2> QED BY <2>2, <2>3
<1>7. OpenRange'
  <2>1. (j + 1) - 2 = j - 1
    BY <1>2
  <2>2. \A k \in i..((j + 1) - 2) : Follows(k + 1)
    BY <1>5, <2>1
  <2>3. (j + 1) - 1 = j /\ j + 1 <= Len(registers) + 1
    BY <1>1, <1>2
  <2> QED BY <1>1, <1>2, <1>6, <2>2, <2>3 DEF OpenRange, Follows, Listed, Straddles
<1>8. ClosedRanges' /\ LastRange' /\ RangesAreMaximal'
  BY <1>1 DEF ClosedRanges, LastRange, RangesAreMaximal, Follows, Straddles
<1> QED BY <1>3, <1>4, <1>7, <1>8 DEF RegIInv

\* A range is written.
LEMMA CloseRangeKeeps == ASSUME RegIInv, CloseRange PROVE RegIInv'
<1> DEFINE range == <<registers[i], registers[j - 1]>>
           n == Len(ranges)
<1>1. /\ RegTypeOK /\ ListSoFar /\ OpenRange /\ ClosedRanges /\ LastRange /\ RangesAreMaximal
      /\ Listed /\ i < j /\ ~(j <= Len(registers) /\ Follows(j))
      /\ ranges' = Append(ranges, range) /\ i' = j /\ j' = j
      /\ mask' = mask /\ bit' = bit /\ registers' = registers
  BY DEF RegIInv, CloseRange
<1>2. /\ i \in Nat /\ 1 <= i /\ j \in Nat /\ j <= Len(registers) + 1
      /\ Len(registers) \in Nat /\ n \in Nat
      /\ \A k \in 1..Len(registers) : registers[k] \in Nat
      /\ \A k, l \in 1..Len(registers) : k < l => registers[k] < registers[l]
  BY <1>1, RegTypes DEF RegTypeOK, OpenRange, ListSoFar
<1>3. range \in Nat \X Nat /\ range[1] = registers[i] /\ range[2] = registers[j - 1]
  BY <1>1, <1>2
<1>4. /\ ranges' \in Seq(Nat \X Nat)
      /\ Len(ranges') = n + 1
      /\ ranges'[n + 1] = range
      /\ \A k \in 1..n : ranges'[k] = ranges[k]
      /\ ranges' # << >>
  <2> DEFINE T == Nat \X Nat
  <2>1. ranges \in Seq(T) /\ range \in T /\ ranges' = Append(ranges, range)
    BY <1>1, <1>3 DEF RegTypeOK
  <2> HIDE DEF T, range
  <2>2. /\ Append(ranges, range) \in Seq(T)
        /\ Len(Append(ranges, range)) = Len(ranges) + 1
        /\ Append(ranges, range)[Len(ranges) + 1] = range
        /\ \A k \in 1..Len(ranges) : Append(ranges, range)[k] = ranges[k]
        /\ Append(ranges, range) # << >>
    BY <2>1, Appended
  <2> QED BY <2>1, <2>2 DEF T, n
<1> HIDE DEF range, n
<1>5. RegTypeOK'
  BY <1>1, <1>2, <1>4 DEF RegTypeOK
<1>6. ListSoFar'
  BY <1>1 DEF ListSoFar
<1>7. OpenRange'
  <2>1. j..(j - 2) = {}
    BY <1>2
  <2> QED BY <1>1, <1>2, <2>1 DEF OpenRange, Listed
<1>8. ClosedRanges'
  <2>1. ASSUME NEW k \in 1..(j - 1)
        PROVE  \E r \in 1..(n + 1) :
                 /\ ranges'[r][1] <= registers[k]
                 /\ registers[k] <= ranges'[r][2]
                 /\ k < j - 1 /\ Follows(k + 1) => registers[k + 1] <= ranges'[r][2]
    <3>1. CASE k < i
      <4>1. k \in 1..(i - 1)
        BY <1>2, <3>1
      <4>2. PICK r \in 1..n :
                 /\ ranges[r][1] <= registers[k]
                 /\ registers[k] <= ranges[r][2]
                 /\ k < i - 1 /\ Follows(k + 1) => registers[k + 1] <= ranges[r][2]
        BY <1>1, <4>1 DEF ClosedRanges, n
      <4>3. k < j - 1 /\ Follows(k + 1) => k < i - 1
        <5>1. 1 < i /\ i <= Len(registers)
          BY <1>1, <1>2, <4>1
        <5>2. ~Follows(i)
          BY <1>1, <5>1 DEF LastRange
        <5>3. k = i - 1 => k + 1 = i
          BY <1>2
        <5> QED BY <1>2, <4>1, <5>2, <5>3
      <4>4. r \in 1..(n + 1) /\ ranges'[r] = ranges[r]
        BY <1>2, <1>4
      <4> QED BY <4>2, <4>3, <4>4
    <3>2. CASE ~(k < i)
      <4>1. /\ i <= k /\ k <= j - 1 /\ j - 1 \in 1..Len(registers) /\ i \in 1..Len(registers)
            /\ k \in 1..Len(registers)
        BY <1>1, <1>2, <3>2
      <4>2. registers[i] <= registers[k] /\ registers[k] <= registers[j - 1]
        <5>1. (i = k \/ i < k) /\ (k = j - 1 \/ k < j - 1)
          BY <1>2, <4>1
        <5> QED BY <1>2, <4>1, <5>1
      <4>3. k < j - 1 => registers[k + 1] <= registers[j - 1]
        <5>1. k < j - 1 => k + 1 \in 1..Len(registers) /\ (k + 1 = j - 1 \/ k + 1 < j - 1)
          BY <1>2, <4>1
        <5> QED BY <1>2, <4>1, <5>1
      <4>4. n + 1 \in 1..(n + 1)
        BY <1>2
      <4> QED BY <1>3, <1>4, <4>2, <4>3, <4>4
    <3> QED BY <3>1, <3>2
  <2>2. ASSUME NEW r \in 1..(n + 1), NEW p \in 0..15,
               ranges'[r][1] <= p, p <= ranges'[r][2], p \notin mask
        PROVE  Straddles
    <3>1. CASE r = n + 1
      BY <1>1, <1>3, <1>4, <2>2, <3>1 DEF OpenRange
    <3>2. CASE r # n + 1
      <4>1. r \in 1..n
        BY <1>2, <3>2
      <4> QED BY <1>1, <1>4, <2>2, <4>1 DEF ClosedRanges, n
    <3> QED BY <3>1, <3>2
  <2> QED BY <1>1, <1>4, <2>1, <2>2 DEF ClosedRanges, Follows, Straddles
<1>9. LastRange'
  <2>1. n + 1 = Len(ranges') /\ ranges'[Len(ranges')][2] = registers[j - 1]
    BY <1>3, <1>4
  <2>2. i' = j /\ registers' = registers /\ j # 1 /\ ranges' # << >>
    <3>1. i \in Nat /\ 1 <= i /\ j \in Nat /\ i < j
      BY ONLY <1>1, <1>2, Zenon
    <3>2. j # 1
      BY ONLY <3>1
    <3> QED BY ONLY <1>1, <1>4, <3>2, Zenon
  <2>3. j <= Len(registers) => ~Follows(j)
    BY <1>1
  <2>4. Follows(i)' <=> Follows(j)
    BY ONLY <2>2, Zenon DEF Follows
  <2> QED BY <2>1, <2>2, <2>3, <2>4 DEF LastRange
<1>10. RangesAreMaximal'
  <2> SUFFICES ASSUME NEW k \in 1..n
               PROVE  extractRegNum(ranges'[k + 1][1]) # extractRegNum(ranges'[k][2]) + 1
    BY <1>2, <1>4 DEF RangesAreMaximal
  <2>1. CASE k = n
    <3>1. n # 0 /\ ranges # << >>
      BY <1>2, <2>1 DEF n
    <3>2. 1 < i /\ i <= Len(registers) /\ ranges[n][2] = registers[i - 1]
      BY <1>1, <1>2, <3>1 DEF LastRange, n
    <3>3. ~Follows(i)
      BY <1>1, <3>2 DEF LastRange
    <3> QED BY <1>3, <1>4, <2>1, <3>2, <3>3 DEF Follows
  <2>2. CASE k # n
    <3>1. k \in 1..(n - 1) /\ k + 1 \in 1..n
      BY <1>2, <2>2
    <3> QED BY <1>1, <1>4, <3>1 DEF RangesAreMaximal, n
  <2> QED BY <2>1, <2>2
<1> QED BY <1>5, <1>6, <1>7, <1>8, <1>9, <1>10 DEF RegIInv

LEMMA RegIInvNext == RegIInv /\ [RegNext]_regVars => RegIInv'
<1> SUFFICES ASSUME RegIInv, [RegNext]_regVars PROVE RegIInv'
  OBVIOUS
<1>1. CASE UNCHANGED regVars
  BY <1>1 DEF regVars, RegIInv, RegTypeOK, ListSoFar, OpenRange, ClosedRanges, LastRange,
              RangesAreMaximal, Follows, Straddles, Listed
<1> QED BY <1>1, TestBitKeeps, StartAndExtendKeep, CloseRangeKeeps DEF RegNext

-----------------------------------------------------------------------------
\* The two loops keep their invariant, for every mask.
THEOREM RegInvariance == RegSpec => []RegIInv
BY RegInitIInv, RegIInvNext, PTL DEF RegSpec

\* The loops' variables keep their types.
THEOREM RegTypeCorrect == RegSpec => []RegTypeOK
<1>1. RegIInv => RegTypeOK
  BY DEF RegIInv
<1> QED BY <1>1, RegInvariance, PTL

\* No two ranges of a text could be written as one.
THEOREM Maximal == RegSpec => []RangesAreMaximal
<1>1. RegIInv => RangesAreMaximal
  BY DEF RegIInv
<1> QED BY <1>1, RegInvariance, PTL

\* The text of a register list names exactly the registers of the mask,
\* unless the data registers of the mask end one number below its address
\* registers; then it names others too.
THEOREM TextExact == RegSpec => []TextIsMask
<1>1. RegIInv => TextIsMask
  <2> SUFFICES ASSUME RegIInv, Finished PROVE Denoted(ranges) = mask <=> ~Straddles
    BY DEF TextIsMask
  <2>1. /\ RegTypeOK /\ ClosedRanges /\ Listed /\ i = Len(registers) + 1
        /\ Len(registers) \in Nat /\ Len(ranges) \in Nat
        /\ \A k \in 1..Len(registers) : registers[k] \in Nat
        /\ \A p \in mask : p \in Nat /\ p <= 15
        /\ \A k, l \in 1..Len(registers) : k < l => registers[k] < registers[l]
    BY RegTypes DEF RegIInv, RegTypeOK, OpenRange, Finished, ListSoFar
  <2>2. \A p \in mask : \E k \in 1..Len(registers) : registers[k] = p
    BY <2>1 DEF RegIInv, ListSoFar, Listed
  <2>3. DOMAIN ranges = 1..Len(ranges)
    BY <2>1, LenProperties DEF RegTypeOK
  <2>4. ASSUME ~Straddles PROVE Denoted(ranges) = mask
    <3>1. ASSUME NEW p \in mask PROVE p \in Denoted(ranges)
      <4>1. PICK k \in 1..Len(registers) : registers[k] = p
        BY <2>2
      <4>2. k \in 1..(i - 1)
        BY <2>1
      <4>3. PICK r \in 1..Len(ranges) : ranges[r][1] <= p /\ p <= ranges[r][2]
        BY <2>1, <4>1, <4>2 DEF ClosedRanges
      <4>4. p \in 0..15
        <5>1. p \in Nat /\ p <= 15
          BY <2>1
        <5> QED BY <5>1
      <4>5. r \in DOMAIN ranges
        BY <2>3
      <4> QED BY <4>3, <4>4, <4>5 DEF Denoted
    <3>2. ASSUME NEW p \in Denoted(ranges) PROVE p \in mask
      BY <2>1, <2>3, <2>4 DEF Denoted, ClosedRanges
    <3> QED BY <3>1, <3>2
  <2>5. ASSUME Straddles PROVE Denoted(ranges) # mask
    <3>1. PICK d \in mask, a \in mask :
            d < 8 /\ a = d + 9 /\ \A p \in mask : p <= d \/ a <= p
      BY <2>5 DEF Straddles
    <3>0. d < 8 /\ a = d + 9
      BY <3>1
    <3>2. PICK k \in 1..Len(registers), m \in 1..Len(registers) :
            registers[k] = d /\ registers[m] = a
      BY <2>2
    <3>3. m = k + 1
      <4>1. d \in Nat /\ a \in Nat /\ d < a
        BY <2>1, <3>1
      <4>2. k < m
        <5>1. ~(m < k) /\ m # k
          BY <2>1, <3>2, <4>1
        <5> QED BY <2>1, <5>1
      <4>3. ~(k + 1 < m)
        <5> SUFFICES ASSUME k + 1 < m PROVE FALSE
          OBVIOUS
        <5>1. k + 1 \in 1..Len(registers) /\ registers[k] < registers[k + 1]
              /\ registers[k + 1] < registers[m]
          BY <2>1, <4>2
        <5>2. registers[k + 1] \in mask /\ registers[k + 1] \in Nat
          BY <2>1, <5>1 DEF RegIInv, ListSoFar
        <5> QED BY <3>1, <3>2, <4>1, <5>1, <5>2
      <4> QED BY <2>1, <4>2, <4>3
    <3>4. Follows(k + 1)
      <4>1. d \in Nat /\ d <= 6 /\ d + 9 = registers[k + 1] /\ registers[k] = d
        BY <2>1, <3>1, <3>2, <3>3
      <4>2. (d + 9) % 8 = (d % 8) + 1
        BY <4>1
      <4>3. (k + 1) - 1 = k
        BY <2>1
      <4> QED BY <4>1, <4>2, <4>3 DEF Follows, extractRegNum
    <3>5. k \in 1..(i - 1) /\ k < i - 1
      BY <2>1, <3>3
    <3>6. PICK r \in 1..Len(ranges) : ranges[r][1] <= d /\ a <= ranges[r][2]
      BY <2>1, <3>2, <3>3, <3>4, <3>5 DEF ClosedRanges
    <3>7. ranges[r][1] \in Nat /\ ranges[r][2] \in Nat /\ d \in Nat /\ a <= 15
      BY <2>1, <3>1, RegTypes
    <3>8. d + 1 \in Denoted(ranges)
      <4>0. r \in DOMAIN ranges
        BY <2>3
      <4>1. /\ \A low, d0, high \in Nat : low <= d0 /\ d0 + 9 <= high =>
                 low <= d0 + 1 /\ d0 + 1 <= high
            /\ \A d0 \in Nat : d0 < 8 => d0 + 1 \in 0..15
        BY ONLY TRUE
      <4>2. ranges[r][1] <= d /\ d + 9 <= ranges[r][2]
        BY ONLY <3>0, <3>6
      <4>3. ranges[r][1] <= d + 1 /\ d + 1 <= ranges[r][2] /\ d + 1 \in 0..15
        BY ONLY <3>0, <3>7, <4>1, <4>2
      <4> QED BY <4>0, <4>3 DEF Denoted
    <3>9. d + 1 \notin mask
      <4>1. ~(d + 1 <= d) /\ ~(a <= d + 1)
        BY <3>0, <3>7
      <4> QED BY ONLY <3>1, <4>1
    <3> QED BY <3>8, <3>9
  <2> QED BY <2>4, <2>5
<1> QED BY <1>1, RegInvariance, PTL

=============================================================================
