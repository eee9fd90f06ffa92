---------------------------- MODULE MCPresence ----------------------------
(* Model values and scenarios for the model checker. *)
EXTENDS Presence

CONSTANTS s1, s2

TwoSockets == {s1, s2}

\* Tabs of one device with restarts, the sweep besides, and everything but a
\* restart or but a socket that closes during its handshake.
TabsAndAll ==
  LET tabs == {"earlyClose", "beat", "crash"}
  IN {tabs, tabs \cup {"sweep"}, AllOps \ {"crash"}, AllOps \ {"earlyClose"}}

\* A restart while the sweep runs.
SweepAndRestart == {{"sweep", "crash"}}
=============================================================================
