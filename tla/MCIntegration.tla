---------------------------- MODULE MCIntegration ----------------------------
(* One project for every link; the links that share state are together, and  *)
(* one project has a file before a connection, whose failure ends the run.   *)
EXTENDS Integration

MCProjects ==
    {<<"decluttarr", "prowlarr">>, <<"category", "downloadClient">>, <<"quiLogin", "qui">>}
    \cup {<<l>> : l \in Links \ {"decluttarr", "prowlarr", "category", "downloadClient",
                                 "quiLogin", "qui"}}
MCKeys == 1..2
MCPasswords == 1..3
=============================================================================
