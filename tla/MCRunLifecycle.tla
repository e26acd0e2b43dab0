--------------------------- MODULE MCRunLifecycle ---------------------------
(* Instances of RunLifecycle for TLC; the clients are model values.        *)
EXTENDS RunLifecycle
=============================================================================
