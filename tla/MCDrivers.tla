------------------------------- MODULE MCDrivers -------------------------------
(***************************************************************************)
(* DriverLife with the real drivers.                                        *)
(***************************************************************************)
EXTENDS DriverLife, Drivers
================================================================================
