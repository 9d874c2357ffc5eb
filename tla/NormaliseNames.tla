--------------------------- MODULE NormaliseNames ---------------------------
(***************************************************************************)
(* normaliseNames(name_type, num_name, names, max_name_length) of          *)
(* lp_data/HighsModelUtils.cpp, with the helpers it calls, namesWithSpaces *)
(* and maxNameLength.  It keeps the caller's names when none is empty and *)
(* none is longer than the desired maximum (the value of max_name_length   *)
(* on entry); otherwise it replaces every name by the first letter of      *)
(* name_type followed by the name's index.  It returns 1 when the final    *)
(* names have spaces and more than 8 characters -- names fixed-format MPS  *)
(* cannot hold -- and leaves their greatest length in max_name_length.     *)
(*                                                                         *)
(* The caller keeps names and max_name_length between calls, so it may    *)
(* call normaliseNames again on what a call handed back.                   *)
(*                                                                         *)
(* A name is abstracted to what the function reads of it: its length and *)
(* whether it contains a space.  to_string(ix) is abstracted to its       *)
(* length, the number of decimal digits of the int ix.                     *)
(***************************************************************************)
EXTENDS Integers, FiniteSets

CONSTANTS
  MaxNum,    \* the largest num_name tried
  Lengths,   \* the lengths a caller's name may have
  Desired    \* the values of max_name_length on entry

ASSUME NormaliseNamesAssumption ==
  /\ MaxNum \in Nat
  /\ Lengths \subseteq Nat /\ 0 \in Lengths
  /\ Desired \subseteq Nat

(* A name: its length and whether find(" ") finds a space in it.          *)
Names == {nm \in [len : Nat, space : BOOLEAN] : nm.len = 0 => ~nm.space}

VARIABLES
  names,      \* names[0..num_name-1]
  maxLen,     \* max_name_length, in and out
  prefixLen,  \* the length of name_type.substr(0, 1): 0 or 1
  status,     \* the int the last call returned
  called      \* normaliseNames has returned at least once

vars == <<names, maxLen, prefixLen, status, called>>

-----------------------------------------------------------------------------
(* std::to_string(ix).length() for an int ix >= 0: an int has at most 10  *)
(* decimal digits.                                                         *)
Digits(ix) == 1 + Cardinality({k \in 1..9 : ix >= 10^k})

(* namesWithSpaces(num_name, names, false): some name has a space.         *)
NamesWithSpaces(ns) == \E ix \in DOMAIN ns : ns[ix].space

(* maxNameLength(num_name, names): the loop max_name_length =              *)
(* std::max(names[ix].length(), max_name_length) from 0.                   *)
MaxNameLength(ns) ==
  CHOOSE m \in {0} \cup {ns[ix].len : ix \in DOMAIN ns} :
    \A ix \in DOMAIN ns : ns[ix].len =< m

(* The number of empty names: the first loop, num_empty_name.              *)
NumEmptyName(ns) == Cardinality({ix \in DOMAIN ns : ns[ix].len = 0})

(* names[ix] = name_prefix + std::to_string(ix) for every ix.             *)
ConstructedNames(num) ==
  [ix \in 0..num - 1 |-> [len |-> prefixLen + Digits(ix), space |-> FALSE]]

-----------------------------------------------------------------------------
Init ==
  /\ \E num \in 0..MaxNum :
       names \in [0..num - 1 -> {nm \in [len : Lengths, space : BOOLEAN] :
                                   nm.len = 0 => ~nm.space}]
  /\ maxLen \in Desired
  /\ prefixLen \in {0, 1}
  /\ status = 0
  /\ called = FALSE

ConstructIfTooLongOnly(numEmpty, maxIn, desired) ==  \* no empty-name test
  maxIn > desired

(* construct_names = num_empty_name || max_name_length >                   *)
(* desired_max_name_length, where max_name_length was recomputed only     *)
(* when no name is empty.                                                  *)
ConstructNames(numEmpty, maxIn, desired) ==
  numEmpty # 0 \/ maxIn > desired

ReturnMinusOne(final, spaces) ==  \* the clash returned as -1
  IF final > 8 /\ spaces THEN -1 ELSE 0

(* if (max_name_length > 8 && names_with_spaces) return 1; return 0;       *)
ReturnCode(final, spaces) ==
  IF final > 8 /\ spaces THEN 1 ELSE 0

KeepStaleMax(newNames, maxIn) ==  \* the final maxNameLength left out
  maxIn

(* max_name_length = maxNameLength(num_name, names), after the names may   *)
(* have been replaced.                                                     *)
FinalMaxLength(newNames, maxIn) == MaxNameLength(newNames)

(* The whole call of normaliseNames, on the names and max_name_length the  *)
(* caller holds: the first call, or a call on what an earlier one handed  *)
(* back.                                                                   *)
Normalise ==
  LET desired   == maxLen
      numEmpty  == NumEmptyName(names)
      maxIn     == IF numEmpty = 0 THEN MaxNameLength(names) ELSE maxLen
      construct == ConstructNames(numEmpty, maxIn, desired)
      newNames  == IF construct THEN ConstructedNames(Cardinality(DOMAIN names))
                                ELSE names
      spaces    == ~construct /\ NamesWithSpaces(names)
      final     == FinalMaxLength(newNames, maxIn)
  IN  /\ names' = newNames
      /\ maxLen' = final
      /\ status' = ReturnCode(final, spaces)
      /\ called' = TRUE
      /\ UNCHANGED prefixLen

Next == Normalise

Spec == Init /\ [][Next]_vars

-----------------------------------------------------------------------------
(***************************************************************************)
(* Properties.                                                             *)
(***************************************************************************)

(* The type of every variable.                                             *)
TypeOK ==
  /\ \E num \in 0..MaxNum : names \in [0..num - 1 -> Names]
  /\ maxLen \in Nat /\ prefixLen \in {0, 1} /\ status \in {0, 1}
  /\ called \in BOOLEAN

(* normaliseNames hands back no empty name: an empty name in the input     *)
(* makes it construct every name.                                          *)
NoEmptyNameOnReturn ==
  called => \A ix \in DOMAIN names : names[ix].len > 0

(* What normaliseNames hands back is a fixed point of it: called again on  *)
(* the names and the max_name_length it returned, it keeps the names,      *)
(* returns the same max_name_length and the same code.  This rests on the *)
(* final recomputation of max_name_length (line 206) and on the strict    *)
(* > of the length test (line 191), across two calls.                      *)
Idempotent ==
  [][called => UNCHANGED <<names, maxLen, status>>]_vars

=============================================================================
