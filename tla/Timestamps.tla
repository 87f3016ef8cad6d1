---------------------------- MODULE Timestamps ----------------------------
(***************************************************************************)
(* How the service compares instants.  An instant is a natural number of  *)
(* ticks.  The database keeps it as RFC 3339 text and SQLite compares the *)
(* TEXT columns byte by byte; the page handlers parse the text and        *)
(* compare instants.  Both agree while the year has four digits.  chrono  *)
(* writes a later year with a leading '+' ("+10000-01-01T..."), and '+'    *)
(* sorts before every digit, so such an instant is textually smaller than *)
(* every instant before it.                                               *)
(*                                                                         *)
(* Abstracted: the offset is always +00:00 and the length of the fraction *)
(* does not disturb the byte order ('+' < '.' < digits), so years of the   *)
(* same width compare as their instants do.  Years above 99999 are not     *)
(* represented.                                                            *)
(***************************************************************************)
EXTENDS Integers

CONSTANT Year10000      \* the first instant whose year needs five digits

ASSUME YearAssumption == Year10000 \in Nat

\* The instant is written with a leading '+'.
LongYear(t) == t >= Year10000

\* a < b as SQLite's BINARY collation compares the two texts.
TextBefore(a, b) ==
    IF LongYear(a) = LongYear(b) THEN a < b ELSE LongYear(a)
===========================================================================
