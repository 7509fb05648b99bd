------------------------ MODULE MCDeviceReservation ------------------------
(* DeviceReservation on two devices, one of which is a USB iPad.           *)
EXTENDS DeviceReservation, TLC

CONSTANTS ipad, phone

MCDevices == {ipad, phone}
MCIpads == {ipad}
=============================================================================
