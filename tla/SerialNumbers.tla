--------------------------- MODULE SerialNumbers ---------------------------
(***************************************************************************)
(* Serial numbers: counters that travel on the wire in a fixed width and    *)
(* wrap.  coop_rudp compares 16-bit channel sequence numbers and 32-bit     *)
(* packet sequence numbers and message ids with the same half-space rule.   *)
(* The width is a parameter (Space = 2^16 or 2^32 in the code), so that a   *)
(* small instance wraps after a few steps.                                  *)
(***************************************************************************)
EXTENDS Integers

(* The wire form of the n-th number of a stream that starts at 0.           *)
Wire(n, Space) == n % Space

(* ++x on a counter of that width.                                          *)
Succ(x, Space) == (x + 1) % Space

(* seq16_after / seq32_after: a is ahead of b by less than half the space.  *)
SeqAfter(a, b, Space) == a # b /\ (a - b) % Space < Space \div 2
=============================================================================
