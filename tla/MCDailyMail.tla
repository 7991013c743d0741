----------------------------- MODULE MCDailyMail -----------------------------
(* Small instances of DailyMail. *)
EXTENDS DailyMail
=============================================================================
