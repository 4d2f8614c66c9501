--------------------------- MODULE MCCaptchaSync ---------------------------
(* A page that is loaded twice, next to what its first load left behind.   *)
EXTENDS CaptchaSync

CONSTANTS p1

MCPages == {p1}
=============================================================================
