----------------------------- MODULE MCPlatform -----------------------------
(***************************************************************************)
(* An instance of Platform: temperatures on both sides of each threshold,  *)
(* and pwm1 values beyond both ends of its scale.                          *)
(***************************************************************************)
EXTENDS Platform

MCTemps       == {-1000, 34999, 35000, 45000}
MCOperatorPwm == {-1, 255}
=============================================================================
