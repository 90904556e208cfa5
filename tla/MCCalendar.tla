----------------------------- MODULE MCCalendar -----------------------------
(* Calendar over a whole cycle of 400 years, 2018 among them.              *)
EXTENDS Calendar
=============================================================================
