---------------------------- MODULE MCDeviceAuth ----------------------------
(***************************************************************************)
(* Instances of DeviceAuth for TLC.                                        *)
(***************************************************************************)
EXTENDS DeviceAuth, TLC

CONSTANTS d1, d2, r1, r2, r3, r4

\* A session, one with a trailing "/", a stream, a session by the name of
\* stream and a path below it; a file, an upload, the devices and a ticket.
MCPaths ==
    {<<"sessions">>, <<"sessions", "x">>, <<"sessions", "x", "">>,
     <<"sessions", "x", "stream">>, <<"sessions", "stream">>,
     <<"sessions", "x", "y", "stream">>, <<"files", "upload", "x">>,
     <<"owner", "devices">>, <<"owner", "devices", "revoke">>,
     <<"auth", "ws-ticket">>, <<"health">>}

\* Devices and requests are interchangeable.
Symmetry == Permutations(Devices) \cup Permutations(Requests)
=============================================================================
