--------------------------- MODULE MCDeviceHealth ---------------------------
(***************************************************************************)
(* The module the instances of DeviceHealth for TLC run on; the            *)
(* configurations give the devices and the streams as model values.        *)
(***************************************************************************)
EXTENDS DeviceHealth
=============================================================================
