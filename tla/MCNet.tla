-------------------------------- MODULE MCNet -------------------------------
(***************************************************************************)
(* Two inbound connections, of which one may be open at a time, one of     *)
(* them from the address that its peer listens at, and one outbound        *)
(* connection.                                                             *)
(***************************************************************************)
EXTENDS Net

CONSTANTS a, b, o

MCInbound == {a, b}

MCOutbound == {o}

MCCallable == {b}
=============================================================================
