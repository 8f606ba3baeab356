------------------------ MODULE MC_IosDeviceSelection ------------------------
(* Two connected devices and two simulators, lists of up to two entries   *)
(* (so ties and repeated names happen), one target, scores 0..2 around a *)
(* threshold of 1, so a score equal to the threshold happens.             *)
EXTENDS IosDeviceSelection

MCDevices == {"iPhone", "iPad"}
MCSimulators == {"iPhone 15 Sim", "iPad Sim"}
MCTargets == {"iph"}
MCScores == 0..2
=============================================================================
