------------------------------ MODULE MCPlatform ------------------------------
(***************************************************************************)
(* Instances of the platform's components for TLC.                         *)
(***************************************************************************)
EXTENDS WsHub, TLC

CONSTANTS h1, u1, n1

\* All connections are tabs of one user on one instance.  The instance sends the
\* first notification itself, another process sends the others.
OneHub == [c \in Conns |-> h1]
OneUser == [c \in Conns |-> u1]
ToUser == [n \in Notes |-> u1]
Senders == [n \in Notes |-> IF n = n1 THEN h1 ELSE "worker"]
===============================================================================
