--------------------------- MODULE MCRemoteAssist ---------------------------
(***************************************************************************)
(* RemoteAssist with the ages of the program: 30 seconds for a state and   *)
(* for a command, 300 for a request, 600 for a lease, 30 of clock skew.    *)
(***************************************************************************)
EXTENDS RemoteAssist, TLC

MCIssuers == {"rclp-issuer"}
MCCapabilities == {"remote_assist"}
MCScopes == "rclp-issuer" :> MCCapabilities
MCDigests == {"remote-assist-authority-v0"}
NoMap == << >>
=============================================================================
