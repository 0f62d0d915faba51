---------------------------- MODULE MailQueueMC -----------------------------
(* Mails of three orders, two workers. *)
EXTENDS MailQueue

CONSTANTS o1, o2, o3, w1, w2, none
=============================================================================
