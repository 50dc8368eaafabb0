------------------------------- MODULE Varint -------------------------------
(***************************************************************************)
(* encoding/binary's unsigned varints: a byte holds VarintBase values and, *)
(* above them, the bit that says that more follow.                         *)
(***************************************************************************)
EXTENDS Integers, Sequences, SequencesExt

CONSTANT VarintBase   \* 128 in encoding/binary: what one byte of a varint holds

ASSUME VarintAssumption == VarintBase \in Nat /\ VarintBase > 1

RECURSIVE PutUvarint(_)
PutUvarint(n) ==
  IF n < VarintBase THEN <<n>>
  ELSE <<(n % VarintBase) + VarintBase>> \o PutUvarint(n \div VarintBase)

\* binary.Uvarint: the value and the bytes read, n = 0 when the buffer ends
\* inside the number.
Uvarint(b) ==
  LET ends == {i \in DOMAIN b : b[i] < VarintBase}
      n == IF ends = {} THEN 0 ELSE CHOOSE i \in ends : \A j \in ends : i <= j
      Digit(i) == (b[i] % VarintBase) * VarintBase ^ (i - 1)
  IN [x |-> FoldLeft(LAMBDA acc, i : acc + Digit(i), 0, [i \in 1..n |-> i]), n |-> n]

Drop(b, n) == SubSeq(b, n + 1, Len(b))
=============================================================================
