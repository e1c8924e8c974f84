-------------------------- MODULE MCDeviceCheckin --------------------------
(* Instances of DeviceCheckin for TLC. Check-ins, users and credentials are *)
(* interchangeable.                                                         *)
EXTENDS DeviceCheckin, TLC

CheckinSymmetry == Permutations(Checkin) \cup Permutations(User) \cup Permutations(Ref)
=============================================================================
