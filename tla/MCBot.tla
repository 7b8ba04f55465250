------------------------------- MODULE MCBot -------------------------------
(* Labels with and without update_all, one handler and the sweep: one open   *)
(* pull request and two events, or two behind a base that was pushed to, of  *)
(* which a sweep evaluates one, and one event more.                          *)
EXTENDS Bot, TLC

CONSTANTS a, b, writer, reader, h1, h2, cron

MCConfigs == {[on |-> TRUE, all |-> FALSE], [on |-> TRUE, all |-> TRUE], [on |-> FALSE, all |-> FALSE]}

Open == {n \in PRs : ~pr[n].merged}
Alone == Open = {a} /\ tip = 0
Both == Open = PRs /\ tip = 1 /\ config.on /\ ~config.all
MCInit == Init /\ (Alone \/ Both)
MCSpec == MCInit /\ [][Next]_vars /\ SweepsGoOn
=============================================================================
