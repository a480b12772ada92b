---------------------------- MODULE MCAlertIntake ----------------------------
(* Two alerts of one incident and one alert of another deployment.          *)
EXTENDS AlertIntake, TLC

CONSTANTS a1, a2, a3, d1, d2, i1, i2, t1, t2

MCDeploymentOf == a1 :> d1 @@ a2 :> d1 @@ a3 :> d2
MCIncidentOf == a1 :> i1 @@ a2 :> i1 @@ a3 :> i2
MCBatches == {<<>>, <<a1, a1>>, <<a2, a3>>, <<a3, a1>>}
=============================================================================
