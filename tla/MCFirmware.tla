------------------------------ MODULE MCFirmware ------------------------------
(* An instance of FirmwareHandlers for TLC: status reports of both profiles.  *)
EXTENDS FirmwareHandlers

CONSTANT c1

ReportKinds == {"status"}

=============================================================================
