----------------------------- MODULE MCAuthSessions -----------------------------
(* A small instance of AuthSessions for TLC. *)
EXTENDS AuthSessions, TLC

CONSTANTS h1, h2

TwoHands == {h1} \X {"REGISTER", "GUESS", "SAYARI", "COMPLETE", "LOGOUT"}
              \cup {h2} \X {"REGISTER", "GUESS", "LOGIN", "RESEND", "FORGOT", "REFRESH"}

=============================================================================
