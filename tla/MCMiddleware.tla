------------------------------ MODULE MCMiddleware ------------------------------
(* Instances of Middleware for TLC. *)
EXTENDS Middleware

\* Every kind of status: with a body, without, and the one panics are answered by.
SomeStatuses == {200, 204, 304, 404, 500}
Bodyless     == {204, 304}

================================================================================
