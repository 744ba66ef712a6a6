----------------------------- MODULE MCTcpServer -----------------------------
(* Two user threads and one connection.                                    *)
EXTENDS TcpServer

CONSTANTS u1, u2

MCUsers == {u1, u2}

\* Shutdown, forceClose and send from everywhere, on a server that stays; and a server that
\* goes while another loop serves a connection on which threads send.
SafeUses ==
    [sameLoop : BOOLEAN, userOps : {Ops}, callbackOps : {Ops}, destroys : {FALSE}]
    \cup [sameLoop : {FALSE}, userOps : {{"send"}}, callbackOps : {{"send"}}, destroys : {TRUE}]

\* A server that goes after a message callback has called shutdown.
DestroyAfterShutdown ==
    [sameLoop : BOOLEAN, userOps : {{}}, callbackOps : {{"shutdown"}}, destroys : {TRUE}]
=============================================================================
