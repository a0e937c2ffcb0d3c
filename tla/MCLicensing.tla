---------------------------- MODULE MCLicensing ----------------------------
(***************************************************************************)
(* Instances of Licensing for TLC: time counts days, a token lasts two, a  *)
(* failing revalidation is tolerated for two or three, and the clock can   *)
(* be set three days forth and back.                                       *)
(***************************************************************************)
EXTENDS Licensing

MCClockSettings == {0, 3}
=============================================================================
