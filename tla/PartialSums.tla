----------------------------- MODULE PartialSums -----------------------------
(* Total(s)[n] is the sum of the first n elements of a sequence of numbers.    *)
EXTENDS Naturals

Total(s) == LET total[n \in Nat] == IF n = 0 THEN 0 ELSE total[n - 1] + s[n]
            IN  total
=============================================================================
