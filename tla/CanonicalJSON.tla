---------------------------- MODULE CanonicalJSON ----------------------------
(***************************************************************************)
(* The canonical form of a JSON document (modules/schema/canonical.go),     *)
(* from which the content hash of a schema is computed.                     *)
(*                                                                          *)
(* A document is an object of numbers: a sequence of members, in the order  *)
(* in which they were written.  Arrays keep their order and strings escape  *)
(* one character at a time; neither is modelled.  A number is what its      *)
(* literal spells: sign, digits, how many of them follow the point, and the *)
(* exponent.  Keys are small integers, in the byte order of the strings.    *)
(***************************************************************************)
EXTENDS Integers, Sequences, FiniteSets

CONSTANTS
  Digits,       \* digits that literals are made of
  MaxDigits,    \* bound: digits of a literal
  MaxExponent,  \* bound: size of an exponent
  DocKeys,      \* keys of a document
  DocNumbers,   \* numbers in documents
  MaxMembers    \* bound: members of a document

ASSUME CanonicalAssumption ==
  /\ Digits \subseteq 0 .. 9 /\ MaxDigits \in Nat \ {0} /\ MaxExponent \in Nat
  /\ DocKeys \subseteq Nat /\ MaxMembers \in Nat

\* Literals of JSON's grammar: no leading zero before another whole digit.
Literals ==
  {n \in [negative : BOOLEAN, digits : UNION {[1 .. k -> Digits] : k \in 1 .. MaxDigits},
          fraction : 0 .. MaxDigits - 1, exponent : -MaxExponent .. MaxExponent] :
     /\ n.fraction < Len(n.digits)
     /\ Len(n.digits) - n.fraction > 1 => n.digits[1] # 0}

ASSUME DocumentAssumption == DocNumbers \subseteq Literals

-----------------------------------------------------------------------------
(* normalizeJSONNumber.                                                      *)

TrimLeft(digits) ==
  LET kept == {i \in DOMAIN digits : \E j \in 1 .. i : digits[j] # 0}
  IN  SubSeq(digits, Len(digits) - Cardinality(kept) + 1, Len(digits))

\* Zeroes at the end of a sequence of digits.
Trailing(digits) ==
  Cardinality({i \in DOMAIN digits : \A j \in i .. Len(digits) : digits[j] = 0})

Zeroes(n) == [i \in 1 .. n |-> 0]

\* Zeroes that the loop removes while the scale is positive.
Trimmable(digits, scale) ==
  IF scale <= 0 THEN 0 ELSE IF Trailing(digits) < scale THEN Trailing(digits) ELSE scale

\* The canonical text: sign, digits before and digits after the point.
NormalizeNumber(n) ==
  LET significant == TrimLeft(n.digits)
      cut    == Trimmable(significant, n.fraction - n.exponent)
      digits == SubSeq(significant, 1, Len(significant) - cut)
      scale  == n.fraction - n.exponent - cut
      size   == Len(digits)
  IN  IF significant = <<>>
      THEN [negative |-> FALSE, whole |-> <<0>>, fraction |-> <<>>]
      ELSE [negative |-> n.negative,
            whole |-> CASE scale <= 0 -> digits \o Zeroes(-scale)
                        [] scale > 0 /\ scale < size -> SubSeq(digits, 1, size - scale)
                        [] OTHER -> <<0>>,
            fraction |-> CASE scale <= 0 -> <<>>
                           [] scale > 0 /\ scale < size -> SubSeq(digits, size - scale + 1, size)
                           [] OTHER -> Zeroes(scale - size) \o digits]

-----------------------------------------------------------------------------
(* CanonicalizeJSON of a document.                                           *)

\* decodeCanonicalValue refuses a key that occurs twice.
Decodes(document) ==
  \A i, j \in DOMAIN document : document[i].key = document[j].key => i = j

\* writeCanonicalValue: the members in the order of their keys.
Canonical(document) ==
  [i \in DOMAIN document |->
     LET member == CHOOSE m \in {document[j] : j \in DOMAIN document} :
                     Cardinality({j \in DOMAIN document : document[j].key <= m.key}) = i
     IN  <<member.key, NormalizeNumber(member.number)>>]

-----------------------------------------------------------------------------
(* What literals and documents mean: the reference.                          *)

\* The integer that digits spell.
Spelled(digits) ==
  LET sum[i \in 0 .. Len(digits)] == IF i = 0 THEN 0 ELSE 10 * sum[i - 1] + digits[i]
  IN  sum[Len(digits)]

\* A literal's value in units of 10^-Precision: its digits, with the point moved past the
\* last place that any literal of this size can have.
Precision == MaxDigits - 1 + MaxExponent
Magnitude(n) == Spelled(n.digits \o Zeroes(Precision + n.exponent - n.fraction))
Value(n) == IF n.negative THEN -Magnitude(n) ELSE Magnitude(n)

Meaning(document) ==
  {<<document[i].key, Value(document[i].number)>> : i \in DOMAIN document}

Documents ==
  LET members == [key : DocKeys, number : DocNumbers]
  IN  {d \in UNION {[1 .. k -> members] : k \in 0 .. MaxMembers} : Decodes(d)}

\* Two literals have one canonical text exactly when they are one number.
NumbersAreFaithful ==
  \A m, n \in Literals : NormalizeNumber(m) = NormalizeNumber(n) <=> Value(m) = Value(n)

\* Two documents have one canonical text exactly when they have the same
\* members, in whatever order they were written.
DocumentsAreFaithful ==
  \A d, e \in Documents : Canonical(d) = Canonical(e) <=> Meaning(d) = Meaning(e)
=============================================================================
