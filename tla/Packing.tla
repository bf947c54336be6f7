------------------------------ MODULE Packing ------------------------------
(***************************************************************************)
(* Bytes to field elements and back: PackableField for the BLS12-381       *)
(* scalar (crates/primitives/types/src/util.rs).  A field element is its   *)
(* number.                                                                 *)
(***************************************************************************)
EXTENDS LinearAlgebra

CONSTANTS Base,        \* values of a byte (256 in the program)
          DataBytes    \* PackableField::DATA_BYTES (31)

\* base to the k.
Power(base, k) ==
    LET power[i \in 0 .. k] == IF i = 0 THEN 1 ELSE base * power[i - 1] IN power[k]

\* Any window of DataBytes bytes is below the field's prime, which has one byte more.
ASSUME PackingAssumption ==
    /\ Base \in Nat \ {0, 1}
    /\ DataBytes \in Nat \ {0}
    /\ Power(Base, DataBytes) <= P /\ P <= Power(Base, DataBytes + 1)

Byte == 0 .. Base - 1

CeilDiv(a, b) == (a + b - 1) \div b
Least(a, b) == IF a < b THEN a ELSE b

\* The number with these digits, the highest first; its digit at base^i.
Number(base, digits) == FoldLeft(LAMBDA acc, digit : acc * base + digit, 0, digits)
Digit(base, x, i) == (x \div Power(base, i)) % base

\* pack: one zero byte, the window, zeros to the right.  The mutant of the next
\* pads on the left.
PackLeft(window) == Number(Base, window)
Pack(window) == Number(Base, window \o [i \in 1 .. DataBytes - Len(window) |-> 0])

\* unpack: the low DataBytes bytes; the leading one is dropped whatever it is.
Unpack(x) == [i \in 1 .. DataBytes |-> Digit(Base, x, DataBytes - i)]

\* bytes_to_field_elements: consecutive windows, the last one may be short; no
\* bytes give one zero element.
BytesToFieldElements(data) ==
    IF data = <<>> THEN <<0>>
    ELSE [k \in 1 .. CeilDiv(Len(data), DataBytes) |->
            Pack(SubSeq(data, (k - 1) * DataBytes + 1, Least(k * DataBytes, Len(data))))]

FieldElementsToBytes(elements) ==
    FlattenSeq([k \in 1 .. Len(elements) |-> Unpack(elements[k])])
=============================================================================
