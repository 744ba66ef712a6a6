------------------------------ MODULE MCPoller ------------------------------
(* Three fds with 0 among them: a removal in the middle of pollfds_ swaps. *)
EXTENDS Poller

MCFds == 0..2
=============================================================================
