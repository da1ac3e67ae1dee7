---------------------------- MODULE MCAuditShip ----------------------------
EXTENDS AuditShip
=============================================================================
