----------------------------- MODULE MCMigration -----------------------------
EXTENDS Migration
CONSTANTS d1, d2, d3
MCDirs == {d1, d2, d3}
=============================================================================
