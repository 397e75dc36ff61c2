---------------------------- MODULE MCAuditWriter ----------------------------
EXTENDS AuditWriter
CONSTANTS r1, r2, r3, r4
MCRows == {r1, r2, r3, r4}
=============================================================================
