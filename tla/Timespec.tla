------------------------------ MODULE Timespec ------------------------------
(***************************************************************************)
(* Points and spans of time as the event loop keeps them: whole seconds    *)
(* and the nanoseconds beyond.  The number of nanoseconds in a second is a *)
(* constant, so that a small one can be checked exhaustively.              *)
(***************************************************************************)
EXTENDS Integers

CONSTANT NSEC_PER_SEC

ASSUME NsecAssumption == NSEC_PER_SEC \in Nat \ {0}

Timespec == [sec : Nat, nsec : 0..(NSEC_PER_SEC - 1)]

Zero == [sec |-> 0, nsec |-> 0]

\* a is an earlier point, or a shorter span, than b.
Less(a, b) == a.sec < b.sec \/ (a.sec = b.sec /\ a.nsec < b.nsec)

\* The point a span d after a.
Plus(a, d) ==
    IF a.nsec + d.nsec < NSEC_PER_SEC
    THEN [sec |-> a.sec + d.sec, nsec |-> a.nsec + d.nsec]
    ELSE [sec |-> a.sec + d.sec + 1, nsec |-> a.nsec + d.nsec - NSEC_PER_SEC]

\* How long it is from a to b: nothing once b has passed.
Until(a, b) ==
    IF Less(b, a) THEN Zero
    ELSE IF b.nsec < a.nsec
         THEN [sec |-> b.sec - a.sec - 1, nsec |-> b.nsec - a.nsec + NSEC_PER_SEC]
         ELSE [sec |-> b.sec - a.sec, nsec |-> b.nsec - a.nsec]
=============================================================================
