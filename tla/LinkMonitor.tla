---------------------------- MODULE LinkMonitor -----------------------------
(***************************************************************************)
(* run_link_monitor (monitor.rs): one ping per interval, a count of the    *)
(* consecutive ones that failed, and the verdict that ends the task.  The  *)
(* ping is the opening of a session channel, under a timeout.              *)
(***************************************************************************)
EXTENDS Sessions

CONSTANTS
    KeepaliveMax,     \* --keepalive-max
    RefusesSessions   \* the server lets no session channel be opened

ASSUME KeepaliveMaxAssumption == KeepaliveMax \in Nat
ASSUME RefusesSessionsAssumption == RefusesSessions \in BOOLEAN

VARIABLES
    mon,       \* what the monitor task is doing
    failures,  \* its count of consecutive failed pings
    unanswered \* history: pings sent since the last one the server answered

monitorVars == <<mon, failures, unanswered>>

MonitorState == {"off", "sleep", "ping", "dead"}

MonitorTypeOK ==
    /\ mon \in MonitorState
    /\ failures \in 0 .. KeepaliveMax + 1
    /\ unanswered \in 0 .. KeepaliveMax + 1

MonitorInit == mon = "off" /\ failures = 0 /\ unanswered = 0

\* The task is spawned; sleep(interval) comes first.
MonitorSpawn == mon' = "sleep" /\ failures' = 0 /\ unanswered' = 0

MonitorAbort == mon' = "off" /\ failures' = 0 /\ unanswered' = 0

PingSent == mon = "sleep" /\ mon' = "ping" /\ UNCHANGED <<failures, unanswered>>

\* Variants of Judge used as mutants: the verdict is never given, comes one
\* ping late, or has its comparison the wrong way round.
JudgeNever(n) == failures' = n /\ mon' = "sleep"

JudgeLate(n) ==
    /\ failures' = n
    /\ mon' = IF n > KeepaliveMax THEN "dead" ELSE "sleep"

JudgeFlipped(n) ==
    /\ failures' = n
    /\ mon' = IF n <= KeepaliveMax THEN "dead" ELSE "sleep"

\* The end of the loop body: the count is compared after every ping.
Judge(n) ==
    /\ failures' = n
    /\ mon' = IF n >= KeepaliveMax THEN "dead" ELSE "sleep"

PingOk(g) ==
    /\ mon = "ping"
    /\ link[g] = "up"
    /\ ~RefusesSessions
    /\ Judge(0)
    /\ unanswered' = 0

\* Mutant: an error is logged and not counted.
PingErrUncounted(g) ==
    /\ mon = "ping"
    /\ link[g] = "dead"
    /\ Judge(failures)
    /\ UNCHANGED unanswered

\* channel_open_session returns an error: the session has ended, or the
\* server answered with a failure.
PingErr(g) ==
    /\ mon = "ping"
    /\ link[g] = "dead" \/ (link[g] = "up" /\ RefusesSessions)
    /\ Judge(failures + 1)
    /\ unanswered' = unanswered + 1

PingTimeout(g) ==
    /\ mon = "ping"
    /\ link[g] = "stalled"
    /\ Judge(failures + 1)
    /\ unanswered' = unanswered + 1
=============================================================================
