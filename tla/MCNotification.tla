--------------------------- MODULE MCNotification ---------------------------
(* Small instances of Notification for TLC. *)
EXTENDS Notification

\* Both channels, and adapters whose uncertain answers do or do not name the
\* message: all four combinations are initial states.
MCChannel == {"sms", "email"}
MCCarriesId == BOOLEAN
=============================================================================
