----------------------------- MODULE SctpSerial -----------------------------
(***************************************************************************)
(* Transmission sequence numbers (TSNs) of src/src/sctp/association.ts:    *)
(* unsigned 32-bit integers that wrap around.  TSNMod is 2^32 in the       *)
(* program and any even number here, so that small instances wrap too.     *)
(* Every operator is the arithmetic the code writes with >>> and &, on     *)
(* arguments that never leave -TSNMod .. 2 * TSNMod.                       *)
(***************************************************************************)
EXTENDS Integers

CONSTANT
    TSNMod      \* 2^32: how many TSNs there are

ASSUME TSNModAssumption ==
    /\ TSNMod \in Nat
    /\ \E half \in 1 .. TSNMod : TSNMod = half + half

TSN == 0 .. (TSNMod - 1)

\* Planted bug, for the properties to notice: + without >>> 0.
PlusUnwrapped(tsn, n) == tsn + n

\* (tsn + n) >>> 0, for 0 <= n < 2^32.
Plus(tsn, n) == IF tsn + n < TSNMod THEN tsn + n ELSE tsn + n - TSNMod

\* Planted bug: the TSN itself.
PredForgotten(tsn) == tsn

\* (tsn - 1) >>> 0.
Pred(tsn) == IF tsn = 0 THEN TSNMod - 1 ELSE tsn - 1

\* (tsn - cum) >>> 0: how far tsn lies ahead of cum.
Offset(tsn, cum) == IF tsn >= cum THEN tsn - cum ELSE tsn - cum + TSNMod

\* n & 0xffffffff, whose result is a SIGNED 32-bit integer in JavaScript.
ToInt32(n) ==
    IF n + n >= TSNMod THEN n - TSNMod
    ELSE IF n + n < -TSNMod THEN n + TSNMod
    ELSE n

\* The comparison of two TSNs as the code computes it: the signed result of &
\* against the unsigned literal 0x80000000 (which is TSNMod / 2).
snLt(a, b) == LET d == ToInt32(a - b) IN d + d > TSNMod

snLte(a, b) == a = b \/ snLt(a, b)
=============================================================================
