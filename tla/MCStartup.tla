----------------------------- MODULE MCStartup -----------------------------
\* Small instances of Startup for TLC.
EXTENDS Startup

CONSTANTS p1, p2

Https == [scheme |-> "https", rest |-> "none"]
Http == [scheme |-> "http", rest |-> "none"]
Weak == [HashPassword(20) EXCEPT !.memory = 8]
Dated == [HashPassword(20) EXCEPT !.version = 16]

\* Files with and without each flaw that a start has to notice.
SomeFiles ==
    {Nothing,
     [Nothing EXCEPT !.username = " admin"],
     [Nothing EXCEPT !.hash = Weak, !.origin = Https],
     [Nothing EXCEPT !.hash = Dated, !.origin = Https],
     [Nothing EXCEPT !.hash = HashPassword(16), !.origin = Http],
     [Nothing EXCEPT !.hash = HashPassword(16), !.origin = [Https EXCEPT !.rest = "slash"]],
     [Nothing EXCEPT !.origin = Https],
     [Nothing EXCEPT !.port = Garbage]}

SomeEnvironments ==
    {Nothing, [Nothing EXCEPT !.hash = HashPassword(16)], [Nothing EXCEPT !.username = "007"]}
===========================================================================
