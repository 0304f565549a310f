----------------------------- MODULE MCNotifier ------------------------------
(* The notifier for TLC: a few keys, times scaled to a few polls. *)
EXTENDS Notifier, TLC

==============================================================================
