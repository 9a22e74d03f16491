-------------------------- MODULE MCDeviceLibrary --------------------------
(* DeviceLibrary on small instances; clients, items and devices are        *)
(* interchangeable.                                                        *)
EXTENDS DeviceLibrary, TLC

MCSymmetry ==
  Permutations(Client) \union Permutations(Item) \union Permutations(Device)
=============================================================================
