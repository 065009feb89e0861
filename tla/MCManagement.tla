----------------------------- MODULE MCManagement -----------------------------
(* Instances of Management for TLC. *)
EXTENDS Management

CONSTANTS k, l, v, w

\* A setting and an add-on are each set to one value; the project may start from
\* either value of either, and a restore may bring either back.
MCAsked ==
    {[kind |-> "set", key |-> k, value |-> v],
     [kind |-> "set", key |-> l, value |-> w],
     [kind |-> "stack"], [kind |-> "restore"], [kind |-> "read"]}
=============================================================================
