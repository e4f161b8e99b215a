--------------------------- MODULE MCDbMigration ---------------------------
EXTENDS DbMigration
=============================================================================
