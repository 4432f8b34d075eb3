---------------------------- MODULE CommSessionMC ----------------------------
(* A file of two parts needs five numbered requests: GDT, LGN, GFI, CFI, LOF. *)
EXTENDS CommSession

SerialHost   == {"SERIAL_A"}
EthernetHost == {"ETHERNET"}
BothHosts    == {"SERIAL_A", "ETHERNET"}
=============================================================================
