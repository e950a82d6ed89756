---------------------------------- MODULE PIT ----------------------------------
(***************************************************************************)
(* The arithmetic of kernel/src/scheduling/pit/pit.c: the timer divides    *)
(* its clock by a divisor of 16 bits.  What is ordered is a frequency, what *)
(* Tick counts with is what GetFrequency makes of the divisor.  The timer's *)
(* interrupt and the thread that sleeps are in Interrupts.                 *)
(***************************************************************************)
EXTENDS Integers

BaseFrequency == 1193182
DivisorBits   == 2 ^ 16

\* The divisor SetDivisor sets and sends, low byte and high byte.
SetDivisor(divisor) == IF divisor < 100 THEN 100 ELSE divisor

GetFrequency(divisor) == BaseFrequency \div divisor

\* The quotient is passed on as an uint16_t.  A frequency of 0 divides by 0.
SetFrequency(frequency) == SetDivisor((BaseFrequency \div frequency) % DivisorBits)

-----------------------------------------------------------------------------
\* The frequencies whose quotient fits into 16 bits and is not too small.
LeastFrequency    == BaseFrequency \div DivisorBits + 1
GreatestFrequency == BaseFrequency \div 100
=============================================================================
