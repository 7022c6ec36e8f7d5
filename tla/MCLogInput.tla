----------------------------- MODULE MCLogInput -----------------------------
(* Small instances of LogInput for TLC.                                      *)
EXTENDS LogInput, TLC

CONSTANTS c1, c2

\* The colons of a line: after its program and after its header.
Both == <<TRUE, TRUE>>
First == <<TRUE, FALSE>>
None == <<FALSE, FALSE>>
Line(form, prefix, program, colons, node, host, id) ==
  [form |-> form, prefix |-> prefix, program |-> program, progColon |-> colons[1], colon |-> colons[2],
   node |-> node, host |-> host, id |-> id]

\* A record of auditd; one by syslog with node= and one without; messages of
\* audispd itself, one that holds a colon and one that does not ("queue is full -
\* dropping event"); a line without any colon; a malformed id; a line of another
\* program; an unclosed <; no host or program; no header.  A line of less than six
\* characters is ignored like one of another program.
MCLines ==
  {Line("auditd", TRUE, "audisp", Both, NoName, NoName, "100"),
   Line("syslogIP", TRUE, "audisp", Both, "n", "h", "101"),
   Line("syslog", TRUE, "audisp", Both, NoName, "h", "100"),
   Line("syslog", TRUE, "audisp", Both, NoName, "h", NoId),
   Line("syslog", TRUE, "audisp", First, NoName, "h", NoId),
   Line("syslog", TRUE, "audisp", None, NoName, "h", NoId),
   Line("syslog", TRUE, "audisp", Both, NoName, "h", BadId),
   Line("syslog", TRUE, "other", First, NoName, "h", NoId),
   Line("syslogIP", FALSE, "audisp", Both, NoName, "h", "100"),
   Line("syslog", TRUE, "none", Both, NoName, NoName, "100"),
   Line("auditd", TRUE, "audisp", None, NoName, NoName, NoId)}

MCSymmetry == Permutations(Connections)
=============================================================================
