--------------------------- MODULE MCBackupArchive ---------------------------
EXTENDS BackupArchive

CONSTANTS a, b, c1, c2, n1
=============================================================================
