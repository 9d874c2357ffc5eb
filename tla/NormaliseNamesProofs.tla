------------------------ MODULE NormaliseNamesProofs ------------------------
(***************************************************************************)
(* Proofs that normaliseNames keeps the types, hands back no empty name   *)
(* and is idempotent, for every number of names, every name length and   *)
(* every desired maximum.                                                 *)
(***************************************************************************)
EXTENDS NormaliseNames, FiniteSetTheorems, TLAPS

USE NormaliseNamesAssumption

(* What a call hands back: no empty name, the greatest length of the      *)
(* names in max_name_length, and the code of a clash of those names.       *)
Returned ==
  called => /\ maxLen = MaxNameLength(names)
            /\ status = ReturnCode(maxLen, NamesWithSpaces(names))

(* The inductive invariant.                                                *)
NamesIInv == TypeOK /\ NoEmptyNameOnReturn /\ Returned

-----------------------------------------------------------------------------
(* The loop of maxNameLength has a result: the names' lengths have a       *)
(* greatest element, or are all below 0 when there are none.  By a least   *)
(* prefix 0..k-1 that has no greatest length.                              *)
LEMMA MaxExists ==
  ASSUME NEW num \in Nat, NEW ns \in [0..num - 1 -> Names]
  PROVE  \E m \in {0} \cup {ns[ix].len : ix \in DOMAIN ns} :
           \A ix \in DOMAIN ns : ns[ix].len =< m
<1> DEFINE P(k) == \E m \in Nat :
                     /\ m = 0 \/ \E ix \in 0..k - 1 : ns[ix].len = m
                     /\ \A ix \in 0..k - 1 : ns[ix].len =< m
           T == {k \in 0..num : ~P(k)}
           R == OpToRel(<, Nat)
<1>0. \A ix \in DOMAIN ns : ns[ix].len \in Nat
  BY DEF Names
<1>1. T = {}
  <2> SUFFICES ASSUME T # {} PROVE FALSE
    OBVIOUS
  <2>1. T \subseteq Nat
    OBVIOUS
  <2>2. \E k \in T : \A j \in T : ~(<<j, k>> \in R)
    BY <2>1, NatLessThanWellFounded, WFMin, Zenon
  <2>3. PICK k \in T : \A j \in T : ~(<<j, k>> \in R)
    BY <2>2
  <2>4. k \in 0..num /\ ~P(k)
    BY <2>3, Zenon
  <2>5. P(0)
    <3>1. \A ix \in 0..0 - 1 : ns[ix].len =< 0
      OBVIOUS
    <3>2. QED
      BY <3>1, Zenon
  <2>6. k # 0
    BY <2>4, <2>5, Zenon
  <2>7. P(k - 1)
    <3>1. k - 1 \in 0..num /\ <<k - 1, k>> \in R
      BY <2>4, <2>6 DEF OpToRel
    <3>2. k - 1 \notin T
      BY <2>3, <3>1, Zenon
    <3>3. QED
      BY <3>1, <3>2, Zenon
  <2>8. PICK m \in Nat : /\ m = 0 \/ \E ix \in 0..k - 2 : ns[ix].len = m
                         /\ \A ix \in 0..k - 2 : ns[ix].len =< m
    BY <2>7
  <2>9. /\ k - 1 \in 0..k - 1 /\ k - 1 \in DOMAIN ns
        /\ 0..k - 1 = (0..k - 2) \cup {k - 1} /\ 0..k - 1 \subseteq DOMAIN ns
    BY <2>4, <2>6
  <2>10. ns[k - 1].len \in Nat
    BY <1>0, <2>9
  <2>11. P(k)
    <3>1. CASE ns[k - 1].len > m
      <4>1. \A ix \in 0..k - 1 : ns[ix].len =< ns[k - 1].len
        <5>1. SUFFICES ASSUME NEW ix \in 0..k - 1 PROVE ns[ix].len =< ns[k - 1].len
          OBVIOUS
        <5>2. CASE ix = k - 1
          BY <2>10, <5>2
        <5>3. CASE ix # k - 1
          <6>1. ix \in 0..k - 2 /\ ix \in DOMAIN ns
            BY <2>9, <5>3
          <6>2. ns[ix].len \in Nat /\ ns[ix].len =< m
            BY <1>0, <2>8, <6>1
          <6>3. QED
            BY <2>10, <3>1, <6>2
        <5>4. QED
          BY <5>2, <5>3
      <4>2. \E ix \in 0..k - 1 : ns[ix].len = ns[k - 1].len
        BY <2>9
      <4>3. QED
        BY <2>10, <4>1, <4>2, Zenon
    <3>2. CASE ~(ns[k - 1].len > m)
      <4>1. \A ix \in 0..k - 1 : ns[ix].len =< m
        BY <1>0, <2>8, <2>9, <2>10, <3>2
      <4>2. m = 0 \/ \E ix \in 0..k - 1 : ns[ix].len = m
        BY <2>8, <2>9
      <4>3. QED
        BY <4>1, <4>2, Zenon
    <3>3. QED
      BY <3>1, <3>2
  <2>12. QED
    BY <2>4, <2>11
<1>2. num \in 0..num
  OBVIOUS
<1>3. P(num)
  BY <1>1, <1>2, Zenon
<1>4. DOMAIN ns = 0..num - 1
  OBVIOUS
<1>5. QED
  BY <1>3, <1>4

(* What maxNameLength returns: a natural at least every length, and equal *)
(* to one of them or to 0.                                                 *)
LEMMA MaxNameLengthFacts ==
  ASSUME NEW num \in Nat, NEW ns \in [0..num - 1 -> Names]
  PROVE  /\ MaxNameLength(ns) \in {0} \cup {ns[ix].len : ix \in DOMAIN ns}
         /\ MaxNameLength(ns) \in Nat
         /\ \A ix \in DOMAIN ns : ns[ix].len =< MaxNameLength(ns)
<1>1. MaxNameLength(ns) \in {0} \cup {ns[ix].len : ix \in DOMAIN ns}
      /\ \A ix \in DOMAIN ns : ns[ix].len =< MaxNameLength(ns)
  BY MaxExists DEF MaxNameLength
<1>2. QED
  BY <1>1 DEF Names

(* No name is empty exactly when the count of empty names is 0.            *)
LEMMA NoEmptyCount ==
  ASSUME NEW num \in Nat, NEW ns \in [0..num - 1 -> Names]
  PROVE  NumEmptyName(ns) = 0 <=> \A ix \in DOMAIN ns : ns[ix].len # 0
<1> DEFINE E == {ix \in DOMAIN ns : ns[ix].len = 0}
<1>1. IsFiniteSet(0..num - 1)
  BY FS_Interval
<1>2. IsFiniteSet(E)
  BY <1>1, FS_Subset
<1>3. Cardinality(E) = 0 <=> E = {}
  BY <1>2, FS_EmptySet
<1>4. QED
  BY <1>3 DEF NumEmptyName

(* A set of powers of ten below an int has a cardinality.                 *)
LEMMA SubsetOfDigitsCard ==
  ASSUME NEW S \in SUBSET (1..9)
  PROVE  Cardinality(S) \in Nat
<1>1. IsFiniteSet(1..9)
  <2>1. 1 \in Int /\ 9 \in Int
    OBVIOUS
  <2>2. QED
    BY <2>1, FS_Interval, Zenon
<1>2. IsFiniteSet(S)
  BY <1>1, FS_Subset
<1>3. QED
  BY <1>2, FS_CardinalityType

(* A constructed name is never empty: to_string(ix) has a digit.           *)
LEMMA DigitsPositive ==
  ASSUME NEW ix \in Nat
  PROVE  Digits(ix) \in Nat /\ Digits(ix) >= 1
<1>1. {k \in 1..9 : ix >= 10^k} \in SUBSET (1..9)
  BY Zenon
<1>2. Cardinality({k \in 1..9 : ix >= 10^k}) \in Nat
  BY <1>1, SubsetOfDigitsCard
<1>3. QED
  BY <1>2 DEF Digits

(* The names normaliseNames constructs.                                    *)
LEMMA ConstructedFacts ==
  ASSUME NEW num \in Nat, prefixLen \in {0, 1}
  PROVE  /\ ConstructedNames(num) \in [0..num - 1 -> Names]
         /\ \A ix \in 0..num - 1 : ConstructedNames(num)[ix].len > 0
         /\ ~NamesWithSpaces(ConstructedNames(num))
<1>1. \A ix \in 0..num - 1 : prefixLen + Digits(ix) \in Nat /\ prefixLen + Digits(ix) > 0
  BY DigitsPositive
<1>2. QED
  BY <1>1 DEF ConstructedNames, Names, NamesWithSpaces

-----------------------------------------------------------------------------
LEMMA InitIInv == Init => NamesIInv
<1> SUFFICES ASSUME Init PROVE NamesIInv
  OBVIOUS
<1>1. PICK num \in 0..MaxNum :
        names \in [0..num - 1 -> {nm \in [len : Lengths, space : BOOLEAN] :
                                   nm.len = 0 => ~nm.space}]
  BY DEF Init
<1>2. names \in [0..num - 1 -> Names]
  BY <1>1 DEF Names
<1>3. TypeOK
  BY <1>1, <1>2 DEF Init, TypeOK
<1>4. QED
  BY <1>3 DEF Init, NamesIInv, NoEmptyNameOnReturn, Returned

(* One call of normaliseNames, the first or a later one, keeps NamesIInv.  *)
LEMMA NormaliseIInv ==
  ASSUME NamesIInv, Normalise PROVE NamesIInv'
<1> DEFINE numEmpty  == NumEmptyName(names)
           maxIn     == IF numEmpty = 0 THEN MaxNameLength(names) ELSE maxLen
           construct == ConstructNames(numEmpty, maxIn, maxLen)
           newNames  == IF construct THEN ConstructedNames(Cardinality(DOMAIN names))
                                     ELSE names
           spaces    == ~construct /\ NamesWithSpaces(names)
           final     == FinalMaxLength(newNames, maxIn)
<1>0. /\ prefixLen \in {0, 1}
      /\ names' = newNames /\ maxLen' = final
      /\ status' = ReturnCode(final, spaces) /\ called' = TRUE
      /\ prefixLen' = prefixLen
  BY DEF NamesIInv, TypeOK, Normalise
<1>1. PICK num \in 0..MaxNum : names \in [0..num - 1 -> Names]
  BY DEF NamesIInv, TypeOK
<1>2. Cardinality(DOMAIN names) = num
  <2>1. DOMAIN names = 0..num - 1
    BY <1>1
  <2>2. QED
    BY <2>1, FS_Interval
<1>3. construct => newNames = ConstructedNames(num) /\ ~spaces
  BY <1>2, Zenon
<1>4. ~construct => newNames = names /\ (spaces <=> NamesWithSpaces(names))
  BY Zenon
<1>a. ~construct => numEmpty = 0
  BY DEF ConstructNames
<1>b. final = MaxNameLength(newNames)
  BY DEF FinalMaxLength
<1> HIDE DEF numEmpty, maxIn, construct, newNames, spaces, final
<1>5. newNames \in [0..num - 1 -> Names]
  BY <1>0, <1>1, <1>3, <1>4, ConstructedFacts
<1>6. NoEmptyNameOnReturn'
  <2>1. CASE construct
    <3>1. num \in Nat /\ names' = ConstructedNames(num)
      BY <1>0, <1>1, <1>3, <2>1
    <3>2. \A ix \in 0..num - 1 : ConstructedNames(num)[ix].len > 0
      BY <1>0, <3>1, ConstructedFacts
    <3>3. DOMAIN names' = 0..num - 1
      BY <1>0, <1>5
    <3>4. QED
      BY <1>0, <3>1, <3>2, <3>3 DEF NoEmptyNameOnReturn
  <2>2. CASE ~construct
    <3>1. \A ix \in DOMAIN names : names[ix].len # 0
      BY <1>1, <1>a, <2>2, NoEmptyCount DEF numEmpty
    <3>2. \A ix \in DOMAIN names : names[ix].len \in Nat
      BY <1>1 DEF Names
    <3>3. QED
      BY <1>0, <1>4, <2>2, <3>1, <3>2 DEF NoEmptyNameOnReturn
  <2>3. QED
    BY <2>1, <2>2
<1>7. final = MaxNameLength(names') /\ final \in Nat
  BY <1>0, <1>1, <1>5, <1>b, MaxNameLengthFacts
<1>8. Returned'
  <2>1. spaces <=> NamesWithSpaces(names')
    <3>1. CASE construct
      <4>1. ~NamesWithSpaces(ConstructedNames(num))
        BY <1>0, <1>1, ConstructedFacts
      <4>2. QED
        BY <1>0, <1>3, <3>1, <4>1, Zenon
    <3>2. CASE ~construct
      BY <1>0, <1>4, <3>2, Zenon
    <3>3. QED
      BY <3>1, <3>2
  <2>2. status' = ReturnCode(maxLen', NamesWithSpaces(names'))
    <3>1. ReturnCode(final, spaces) = ReturnCode(final, NamesWithSpaces(names'))
      BY <2>1, Zenon DEF ReturnCode
    <3>2. QED
      BY <1>0, <3>1
  <2>3. QED
    BY <1>0, <1>7, <2>2 DEF Returned
<1>9. TypeOK'
  <2>1. ReturnCode(final, spaces) \in {0, 1}
    BY DEF ReturnCode
  <2>2. QED
    BY <1>0, <1>5, <1>7, <2>1 DEF TypeOK
<1>10. QED
  BY <1>6, <1>8, <1>9 DEF NamesIInv

LEMMA StutterIInv ==
  ASSUME NamesIInv, UNCHANGED vars PROVE NamesIInv'
BY DEF vars, NamesIInv, TypeOK, NoEmptyNameOnReturn, Returned

(* normaliseNames keeps NamesIInv over every sequence of calls, for every  *)
(* number of names, every name length and every desired maximum.           *)
THEOREM NamesInvariant == Spec => []NamesIInv
<1>1. Init => NamesIInv
  BY InitIInv
<1>2. NamesIInv /\ [Next]_vars => NamesIInv'
  BY NormaliseIInv, StutterIInv DEF Next
<1>3. QED
  BY <1>1, <1>2, PTL DEF Spec

(* Every variable keeps its type: in particular normaliseNames returns 0  *)
(* or 1 and leaves a natural number in max_name_length.                    *)
THEOREM NamesTypeCorrect == Spec => []TypeOK
  BY NamesInvariant, PTL DEF NamesIInv

(* normaliseNames hands back no empty name.                                *)
THEOREM NamesNonEmpty == Spec => []NoEmptyNameOnReturn
  BY NamesInvariant, PTL DEF NamesIInv

-----------------------------------------------------------------------------
(* A call on what an earlier call handed back: no name is empty, so the   *)
(* length is recomputed to the max_name_length passed in, which the strict *)
(* test does not exceed; the names are kept, the recomputed length is the  *)
(* same, and so is the code.                                               *)
LEMMA RepeatCall ==
  ASSUME NamesIInv, Normalise, called
  PROVE  UNCHANGED <<names, maxLen, status>>
<1> DEFINE numEmpty  == NumEmptyName(names)
           maxIn     == IF numEmpty = 0 THEN MaxNameLength(names) ELSE maxLen
           construct == ConstructNames(numEmpty, maxIn, maxLen)
           newNames  == IF construct THEN ConstructedNames(Cardinality(DOMAIN names))
                                     ELSE names
           spaces    == ~construct /\ NamesWithSpaces(names)
           final     == FinalMaxLength(newNames, maxIn)
<1>0. /\ names' = newNames /\ maxLen' = final
      /\ status' = ReturnCode(final, spaces)
  BY DEF Normalise
<1>1. PICK num \in 0..MaxNum : names \in [0..num - 1 -> Names]
  BY DEF NamesIInv, TypeOK
<1>2. /\ maxLen = MaxNameLength(names)
      /\ status = ReturnCode(maxLen, NamesWithSpaces(names))
      /\ \A ix \in DOMAIN names : names[ix].len > 0
  BY DEF NamesIInv, Returned, NoEmptyNameOnReturn
<1>3. numEmpty = 0
  <2>1. \A ix \in DOMAIN names : names[ix].len # 0
    BY <1>2
  <2>2. QED
    BY <1>1, <2>1, NoEmptyCount
<1>4. maxIn = maxLen /\ maxLen \in Nat
  BY <1>1, <1>2, <1>3, MaxNameLengthFacts
<1>5. ~construct
  BY <1>3, <1>4 DEF ConstructNames
<1>6. newNames = names /\ (spaces <=> NamesWithSpaces(names))
  BY <1>5, Zenon
<1>7. final = maxLen
  BY <1>2, <1>6 DEF FinalMaxLength
<1> HIDE DEF numEmpty, maxIn, construct, newNames, spaces, final
<1>8. status' = status
  <2>a. ReturnCode(final, spaces) = ReturnCode(maxLen, NamesWithSpaces(names))
    BY <1>6, <1>7, Zenon DEF ReturnCode
  <2>1. status' = ReturnCode(maxLen, NamesWithSpaces(names))
    BY <1>0, <2>a
  <2>2. QED
    BY <1>2, <2>1
<1>9. QED
  BY <1>0, <1>6, <1>7, <1>8

(* normaliseNames is idempotent: called again on the names and the         *)
(* max_name_length it handed back, it changes neither and returns the same *)
(* code, for every number of names, every name length and every desired   *)
(* maximum.                                                                *)
THEOREM NamesIdempotent == Spec => Idempotent
<1>1. NamesIInv /\ [Next]_vars => [called => UNCHANGED <<names, maxLen, status>>]_vars
  BY RepeatCall DEF Next
<1>2. QED
  BY <1>1, NamesInvariant, PTL DEF Spec, Idempotent
=============================================================================
