------------------------------ MODULE Amounts ------------------------------
(***************************************************************************)
(* Amounts as text: the API sends stroops, pages show and sign decimals    *)
(* with Places places, and the verifier reads such decimals back.  A text  *)
(* is the sequence of its digits.                                          *)
(***************************************************************************)
EXTENDS Integers, Sequences

CONSTANTS Base,           \* ten
          Places          \* seven

ASSUME AmountsAssumption == Base \in Nat \ {0, 1} /\ Places \in Nat

\* A digit more, and a power more.
Shift(n, digit) == n * Base + digit
Times(n, factor) == n * factor

Reading == INSTANCE Accumulate WITH Start <- 0, Step <- Shift
Multiplying == INSTANCE Accumulate WITH Start <- 1, Step <- Times

Power(k) == Multiplying!After([i \in 1..k |-> Base])

\* Stroops in one unit of an asset.
Unit == Power(Places)

\* BigInt.prototype.toString: as many digits as needed, at least one.
Digits(n) ==
    LET width == CHOOSE k \in 1..(n + 1) :
                    n < Power(k) /\ (k = 1 \/ Power(k - 1) <= n)
    IN [i \in 1..width |-> (n \div Power(width - i)) % Base]

\* BigInt(text).
Number(digits) == Reading!After(digits)

Zeros(k) == [i \in 1..k |-> 0]

PadStart(digits, k) == Zeros(k - Len(digits)) \o digits

PadEnd(digits, k) == digits \o Zeros(k - Len(digits))

\* A slip of DecimalText: zeros after the point are lost.
UnpaddedText(stroops) == [whole |-> Digits(stroops \div Unit),
                          fraction |-> Digits(stroops % Unit)]

\* Stroops with the point set: what formatAmount shows and what is signed.
DecimalText(stroops) ==
    [whole |-> Digits(stroops \div Unit),
     fraction |-> PadStart(Digits(stroops % Unit), Places)]

\* atomicUnits: what the verifier reads.
AtomicUnits(text) == Number(text.whole) * Unit
                     + Number(PadEnd(text.fraction, Places))
=============================================================================
