-------------------------- MODULE MCSessionRegistry --------------------------
(* A small instance of SessionRegistry: three callers that race for two      *)
(* sessions, enough stacks for a three-way race and a rebuild after a Close. *)
EXTENDS SessionRegistry, TLC

CONSTANTS c1, c2, c3

\* One session resumes a row of an earlier run, the other starts empty.
MCInitialRows == [s \in Sessions |-> IF s = DefaultSession THEN 0 ELSE 1]

CallerSymmetry == Permutations({c1, c2, c3})
===============================================================================
