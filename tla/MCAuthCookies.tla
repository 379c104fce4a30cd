---------------------------- MODULE MCAuthCookies ----------------------------
(* Instances of AuthCookies for model checking. *)
EXTENDS AuthCookies

=============================================================================
