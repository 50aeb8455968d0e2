---------------------------- MODULE MCPollDaemon ----------------------------
(* The small instances of PollDaemon that TLC checks.                      *)
EXTENDS PollDaemon, TLC

Sensor(n, addr) == [name |-> n, ip |-> addr]
Conf(list, limit) == [sensors |-> list, maxFails |-> limit]

\* Sensors come, go, come back and change under their name; the limit of
\* failures moves both ways.
MCConfigs ==
    { Conf(<<Sensor("a", "1"), Sensor("b", "1")>>, 1),
      Conf(<<Sensor("b", "2")>>, 2) }

\* One sensor, dropped and named again.
MCDropConfigs ==
    { Conf(<<Sensor("a", "1")>>, 1), Conf(<<>>, 1) }

WorkerSymmetry == Permutations(Workers)
=============================================================================
