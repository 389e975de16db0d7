------------------------------- MODULE MCStudio -------------------------------
(* Instances of a Studio for TLC. *)
EXTENDS Studio, TLC

CONSTANTS RequestBound, CommandBound, SetUpBound, GrantBound

(* A server under load while the runtime stays; a server whose runtime is  *)
(* ended and whose platform refuses usable tokens; commands and grants     *)
(* that race; and commands from the beginning.                             *)
MCBounds ==
  {[requests |-> RequestBound, command |-> 0, archive |-> 0, grant |-> 2,
    refuses |-> FALSE, started |-> TRUE],
   [requests |-> 1, command |-> 1, archive |-> 0, grant |-> 1, refuses |-> TRUE, started |-> TRUE],
   [requests |-> 0, command |-> CommandBound, archive |-> 0, grant |-> GrantBound,
    refuses |-> FALSE, started |-> TRUE],
   [requests |-> 0, command |-> SetUpBound, archive |-> 1, grant |-> 0,
    refuses |-> FALSE, started |-> FALSE]}

Symmetric == Permutations(Requests) \cup Permutations(Sessions) \cup Permutations(Attempts)
               \cup Permutations(Connections)
=============================================================================
