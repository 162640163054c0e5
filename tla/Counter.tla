------------------------------ MODULE Counter ------------------------------
(***************************************************************************)
(* The wrapping counters of Counter.h: a counter of some number of bits is *)
(* a number below m = 2^bits; it is sent truncated to a number below a     *)
(* smaller power of two s, and expanded at the receiver around a recent    *)
(* value of the counter.                                                   *)
(***************************************************************************)
EXTENDS Integers

(* operator>=: a is less than half the range ahead of b. *)
AtLeast(a, b, m) == (a - b) % m < m \div 2

(* operator<, which is not defined by negating >=. *)
LessThan(a, b, m) == (a - b) % m >= m \div 2

Truncate(value, s) == value % s

(* Sign extension of a number below s. *)
Signed(x, s) == IF x >= s \div 2 THEN x - s ELSE x

ExpandFromTruncated(recent, smaller, s, m) ==
    LET gap == (Signed(smaller, s) - (recent % s)) % s
    IN  (recent + Signed(gap, s)) % m

(* The low bits are replaced, and the next higher bit rolls back or ahead   *)
(* when the low bits are too far apart.                                     *)
ExpandFromTruncatedWithBias(recent, smaller, bias, s, m) ==
    LET low == recent % s
        result == smaller + (recent - low)
    IN  IF low < smaller
        THEN IF smaller - low >= (s \div 2) - bias THEN (result - s) % m
                                                 ELSE result % m
        ELSE IF low - smaller > (s \div 2) + bias THEN (result + s) % m
                                                ELSE result % m
=============================================================================
