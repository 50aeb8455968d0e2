---------------------------- MODULE MCSensorCycle ----------------------------
(* Small instances of SensorCycle for TLC. *)
EXTENDS SensorCycle

CONSTANTS a, b, c, d, g1, g2

Mon(kind, name, group, send, muted, deps) ==
    [kind |-> kind, name |-> name, group |-> group, send |-> send,
     muted |-> muted, deps |-> deps]

\* Two SNMP monitors, a counter plugin, a command, and an op over a query
\* of its group and the command.
MCMonitors ==
    << Mon("snmp", a, g1, TRUE, FALSE, {}),
       Mon("plugin", b, NoGroup, TRUE, TRUE, {}),
       Mon("snmp", c, NoGroup, FALSE, FALSE, {}),
       Mon("system", d, NoGroup, TRUE, FALSE, {}),
       Mon("op", a, g2, TRUE, FALSE, {Base(a), Base(b)}) >>

\* The same monitor in two groups, and an op in the first of them.
MCGroups ==
    << Mon("snmp", a, g1, TRUE, FALSE, {}),
       Mon("snmp", a, g2, TRUE, FALSE, {}),
       Mon("op", b, g1, TRUE, FALSE, {Base(a)}) >>
=============================================================================
