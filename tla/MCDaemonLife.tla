---------------------------- MODULE MCDaemonLife ----------------------------
(* The small instances of DaemonLife that TLC checks.                      *)
EXTENDS DaemonLife

Conf(s, r) == [socket |-> s, rest |-> r]

\* A configured path, the default one, and other outputs with it.
MCConfs == {Conf("/var/a.sock", 1), Conf(Default, 1), Conf(Default, 2)}

\* Two configured paths.
MCPathConfs == {Conf("/var/a.sock", 1), Conf("/var/b.sock", 1)}
=============================================================================
