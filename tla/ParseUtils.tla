----------------------------- MODULE ParseUtils -----------------------------
(***************************************************************************)
(* The string helpers of base/utils.cpp: tokenize(), with which both trace *)
(* frontends split a trace line, and parse_capacity_str /                  *)
(* parse_frequency_str.  A string is a sequence of one-character strings   *)
(* over a small alphabet; the model evaluates each helper on one input     *)
(* per behaviour (Init picks the input, Apply computes the results).       *)
(*                                                                         *)
(* std::stoull is modelled by what it does on these alphabets: it reads    *)
(* the longest prefix of decimal digits and throws invalid_argument when   *)
(* there is none (no whitespace or sign is in the alphabets).  The thrown  *)
(* exception is the result Thrown.                                         *)
(***************************************************************************)
EXTENDS Integers, Sequences, SequencesExt, TLC

CONSTANTS
  Chars,    \* the alphabet of the inputs
  MaxLen    \* the longest input

\* The value of each decimal digit character.
Digit == ("0" :> 0) @@ ("1" :> 1) @@ ("2" :> 2) @@ ("3" :> 3) @@ ("4" :> 4) @@
         ("5" :> 5) @@ ("6" :> 6) @@ ("7" :> 7) @@ ("8" :> 8) @@ ("9" :> 9)

ASSUME ParseAssumption == MaxLen \in Nat /\ " " \in Chars

Strings == BoundedSeq(Chars, MaxLen)

\* The result of a call that throws.
Thrown == -1

-----------------------------------------------------------------------------
(* tokenize(tokens, line, delim) for a one-character delim.                *)

\* line.find(delim, last): the 0-based index of the first delim at or
\* after last, or -1 for npos.
Find(line, delim, last) ==
  SelectInSubSeq(line, last + 1, Len(line), LAMBDA c : c = delim) - 1

\* Mutant: the push_back of the rest of the line after the loop is missing.
TokenizeNoTail(line, delim) ==
  LET tok[last \in 0 .. Len(line)] ==
        LET pos == Find(line, delim, last) IN
        IF pos < 0 THEN <<>>
        ELSE << SubSeq(line, last + 1, pos) >> \o tok[pos + 1]
  IN tok[0]

\* The loop pushes line.substr(last_pos, pos - last_pos) for every delim
\* found and then the rest of the line, with last_pos = pos + 1.
Tokenize(line, delim) ==
  LET tok[last \in 0 .. Len(line)] ==
        LET pos == Find(line, delim, last) IN
        IF pos < 0 THEN << SubSeq(line, last + 1, Len(line)) >>
        ELSE << SubSeq(line, last + 1, pos) >> \o tok[pos + 1]
  IN tok[0]

-----------------------------------------------------------------------------
(* stoull and the two parsers.                                              *)

\* The longest prefix of decimal digits.
DigitPrefix(s) ==
  LET n == CHOOSE k \in 0 .. Len(s) :
             /\ \A i \in 1 .. k : s[i] \in DOMAIN Digit
             /\ k < Len(s) => s[k + 1] \notin DOMAIN Digit
  IN SubSeq(s, 1, n)

\* The decimal value of a digit string.
DecimalValue(ds) == FoldLeft(LAMBDA acc, c : 10 * acc + Digit[c], 0, ds)

\* std::stoull(s), or Thrown.  The values of MaxLen digits are far below
\* 2^64, so out_of_range is not reached.
Stoull(s) == IF DigitPrefix(s) = <<>> THEN Thrown ELSE DecimalValue(DigitPrefix(s))

CapacitySuffixes == << <<"K", "B">>, <<"M", "B">>, <<"G", "B">> >>

FrequencySuffixes == << <<"M", "H", "z">>, <<"G", "H", "z">> >>

\* size_str.find(suffix) != npos.
HasInfix(s, suf) == \E i \in 0 .. Len(s) - Len(suf) : SubSeq(s, i + 1, i + Len(suf)) = suf

\* The index (1-based) of the first suffix of the list found in s, or 0.
FirstSuffix(s, sufs) == SelectInSeq(sufs, LAMBDA suf : HasInfix(s, suf))

\* A size_t result value * 2^shift, kept as the pair so that TLC does not
\* compute 2^30 multiples; no value of MaxLen digits reaches 2^64 once
\* shifted, so no bit is lost.
Shifted(value, shift) == [value |-> value, shift |-> shift]

\* Mutant: the shift 10 * i for the 0-based index i (KB taken as bytes).
ParseCapacityShiftLow(s) ==
  LET i == FirstSuffix(s, CapacitySuffixes) IN
  IF i = 0 THEN Shifted(0, 0)
  ELSE IF Stoull(s) = Thrown THEN Shifted(Thrown, 0)
  ELSE Shifted(Stoull(s), 10 * (i - 1))

\* parse_capacity_str: the first of KB, MB, GB found anywhere in the
\* string selects a shift of 10, 20 or 30 bits.
ParseCapacity(s) ==
  LET i == FirstSuffix(s, CapacitySuffixes) IN
  IF i = 0 THEN Shifted(0, 0)
  ELSE IF Stoull(s) = Thrown THEN Shifted(Thrown, 0)
  ELSE Shifted(Stoull(s), 10 * i)

\* parse_frequency_str: MHz or GHz select a shift of 0 or 10 bits.
ParseFrequency(s) ==
  LET i == FirstSuffix(s, FrequencySuffixes) IN
  IF i = 0 THEN 0
  ELSE IF Stoull(s) = Thrown THEN Thrown
  ELSE Stoull(s) * 2^(10 * (i - 1))

-----------------------------------------------------------------------------
(* One call per behaviour.                                                  *)

VARIABLES
  str,   \* the argument
  out    \* the results, or NoResult before the call

vars == <<str, out>>

NoResult == [tokens |-> <<>>, capacity |-> Shifted(Thrown, 0), frequency |-> Thrown, done |-> FALSE]

Init == str \in Strings /\ out = NoResult

\* The calls tokenize(tokens, str, " "), parse_capacity_str(str) and
\* parse_frequency_str(str).
Apply ==
  /\ ~out.done
  /\ out' = [tokens |-> Tokenize(str, " "), capacity |-> ParseCapacity(str),
             frequency |-> ParseFrequency(str), done |-> TRUE]
  /\ UNCHANGED str

Next == Apply

Spec == Init /\ [][Next]_vars

-----------------------------------------------------------------------------
(* Properties.                                                              *)

\* Joining the tokens with the delimiter gives back the line: tokenize
\* loses no character and invents none, whatever the runs of delimiters at
\* the start, the end or in the middle of the line.
Join(tokens, delim) ==
  IF tokens = <<>> THEN <<>>
  ELSE FoldLeft(LAMBDA acc, t : acc \o <<delim>> \o t, Head(tokens), Tail(tokens))

TokensRejoin == out.done => Join(out.tokens, " ") = str

\* A well-formed capacity: a decimal number directly followed by a suffix.
\* parse_capacity_str gives the number times 2^10, 2^20 or 2^30 (spec
\* section 4.1).
CapacityMatchesSpec ==
  out.done =>
    \A k \in 1 .. 3 :
      \A n \in 1 .. Len(str) - 1 :
        /\ str = SubSeq(str, 1, n) \o CapacitySuffixes[k]
        /\ \A i \in 1 .. n : str[i] \in DOMAIN Digit
        => out.capacity = Shifted(DecimalValue(SubSeq(str, 1, n)), 10 * k)

=============================================================================
