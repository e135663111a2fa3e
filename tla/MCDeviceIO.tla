---------------------------- MODULE MCDeviceIO ----------------------------
(* Device input and output for TLC; the instances are in the cfg files.    *)
EXTENDS DeviceIO
==========================================================================
