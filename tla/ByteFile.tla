------------------------------ MODULE ByteFile ------------------------------
(***************************************************************************)
(* What the data path of nmfs promises of one regular file: a sequence of  *)
(* bytes.  Objects, the record of the size and reloads are invisible.      *)
(***************************************************************************)
EXTENDS Naturals, Sequences

CONSTANTS
  Bytes,      \* byte values; 0 is one of them
  MaxSize,    \* bound on offsets and sizes
  MaxWrite    \* bound on the length of one write

VARIABLE bytes

Init == bytes = << >>

Longer(a, b) == IF a > b THEN a ELSE b
ByteOf(i) == IF i <= Len(bytes) THEN bytes[i] ELSE 0

\* d at offset o; a gap before it reads as 0.
Write(o, d) ==
  bytes' = [i \in 1 .. Longer(Len(bytes), o + Len(d)) |->
              IF i \in o + 1 .. o + Len(d) THEN d[i - o] ELSE ByteOf(i)]

\* A failing write may write part of its range, and nothing else.
FailWrite(o, d) ==
  \E k \in 0 .. Len(d) :
    bytes' = [i \in 1 .. Longer(Len(bytes), o + Len(d)) |->
                IF i \in o + 1 .. o + k THEN d[i - o] ELSE ByteOf(i)]

\* A shorter file, or a longer one with zeros at the end.
Resize(n) == bytes' = [i \in 1 .. n |-> ByteOf(i)]

\* A failing resize may have cleared part of what it was to cut off.
FailResize(n) ==
  /\ Len(bytes') = Len(bytes)
  /\ \A i \in 1 .. Len(bytes) :
       bytes'[i] = bytes[i] \/ (i > n /\ bytes'[i] = 0)

Next ==
  \/ \E n \in 1 .. MaxWrite : \E o \in 0 .. MaxSize - n : \E d \in [1 .. n -> Bytes] :
       Write(o, d) \/ FailWrite(o, d)
  \/ \E n \in 0 .. MaxSize : Resize(n) \/ FailResize(n)

Spec == Init /\ [][Next]_bytes

=============================================================================
