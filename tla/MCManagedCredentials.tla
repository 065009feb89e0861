------------------------ MODULE MCManagedCredentials ------------------------
EXTENDS ManagedCredentials

MCArrs == <<"lidarr", "sonarr">>
MCPasswords == 1..4
MCKeys == 1..2
=============================================================================
