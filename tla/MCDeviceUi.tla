---------------------------- MODULE MCDeviceUi -----------------------------
(* Two networks, Macs and sessions; the lists that hold them in both       *)
(* orders, and shorter.                                                    *)
EXTENDS DeviceUi
CONSTANTS Home, Cafe, Desk, Lap, Fix, Docs
MCWifiList == {<<Home, Cafe>>, <<Cafe, Home>>, <<Cafe>>}
MCMacList == {<<Desk, Lap>>, <<Lap>>}
MCSessionList == {<<>>, <<Fix, Docs>>, <<Docs, Fix>>}
MCTimeouts == <<2, 0>>
=============================================================================
