-------------------------------- MODULE MCViews ------------------------------
(***************************************************************************)
(* Instances of the modules of Views, for TLC.                             *)
(***************************************************************************)
EXTENDS Views

Config(connector, scanner, ready, faults) ==
    [connector |-> connector, scanner |-> scanner, ready |-> ready, faults |-> faults]

\* What the connector may do, and one thing that may go wrong each; findings are
\* told apart where they are triaged meanwhile.
MCSettings ==
    {Config("sts-validation", FALSE, TRUE, {"skipped"}), Config("readonly-validation", TRUE, TRUE, {}),
     Config("readonly-validation", FALSE, TRUE, {"throw"}),
     Config("readonly-validation", FALSE, FALSE, {"crash"})}

MCAssessmentConfigs ==
    {[Runs |-> {1, 2}, Findings |-> {1, 2}, Urgencies |-> {1}, MaxDrafts |-> 1,
      Settings |-> MCSettings],
     [Runs |-> {1, 2}, Findings |-> {1, 2}, Urgencies |-> {1, 2}, MaxDrafts |-> 1,
      Settings |-> {Config("disabled", FALSE, FALSE, {"triage"})}]}

\* Two controls the registry has as one; one of security findings that exceed the
\* limit and one of cost findings; two evaluations of one control, and two that may fail.
MCComplianceConfigs ==
    {[Controls |-> {1, 2}, Security |-> {1, 2}, Cost |-> {}, Reads |-> <<{1}, {2}>>,
      Registry |-> {1}, Maps |-> <<{1, 2}>>, Sample |-> {1}, Limit |-> 1, Others |-> {0, 1},
      Evaluators |-> {1}, Changes |-> 1, MayFail |-> FALSE],
     [Controls |-> {1, 2}, Security |-> {1, 2}, Cost |-> {3}, Reads |-> <<{1, 2}, {3}>>,
      Registry |-> {1}, Maps |-> <<{1, 2}>>, Sample |-> {1}, Limit |-> 1, Others |-> {0},
      Evaluators |-> {1}, Changes |-> 1, MayFail |-> FALSE],
     [Controls |-> {1}, Security |-> {1, 2}, Cost |-> {}, Reads |-> <<{1, 2}>>,
      Registry |-> {1}, Maps |-> <<{1, 2}>>, Sample |-> {}, Limit |-> 2, Others |-> {0},
      Evaluators |-> {1, 2}, Changes |-> 1, MayFail |-> FALSE],
     [Controls |-> {1}, Security |-> {1}, Cost |-> {}, Reads |-> <<{1}>>,
      Registry |-> {1}, Maps |-> <<{1}>>, Sample |-> {}, Limit |-> 2, Others |-> {0},
      Evaluators |-> {1, 2}, Changes |-> 1, MayFail |-> TRUE]}

Center(accounts, findings, limit, ways, rows, tries, ticks, writes) ==
    [Accounts |-> accounts, Findings |-> findings, On |-> <<1, 1>>,
     Severity |-> <<"CRITICAL", "HIGH">>, Controls |-> findings \cap {1}, FreshMax |-> 1,
     AgingMax |-> 2, ScanLimit |-> limit, Ways |-> ways, MaxScans |-> rows, MaxTries |-> tries,
     MaxClock |-> ticks, Changes |-> writes]

\* Scores: a critical and a high finding; and a critical one with a scan, over time.
\* Freshness: a scan beside the administrators; a scan whose job is delivered twice;
\* two scans of which the one planned first may start last, both or only the later
\* of them read; and the scan of one of two accounts.
MCCommandConfigs ==
    {Center({1}, {1, 2}, 2, {"queue"}, 0, 1, 0, 1), Center({1}, {1}, 2, {"queue"}, 1, 1, 2, 0),
     Center({1}, {}, 2, {"queue"}, 1, 1, 0, 1), Center({1}, {}, 1, {"doubt"}, 1, 2, 0, 0),
     Center({1}, {}, 2, {"queue", "none"}, 2, 1, 0, 0), Center({1}, {}, 1, {"queue"}, 2, 1, 0, 0),
     Center({1, 2}, {}, 2, {"queue"}, 1, 1, 1, 0)}

\* Sources: two findings, a critical and a high one; and one finding over time.
MCExecutiveConfigs ==
    {[Findings |-> {1, 2}, Severity |-> <<"CRITICAL", "HIGH">>, MaxClock |-> 0, Acceptances |-> 0],
     [Findings |-> {1}, Severity |-> <<"INFO">>, MaxClock |-> 1, Acceptances |-> 2]}

\* The evidence lists over three pages, the acceptances with two calls under way.
MCListConfigs ==
    {[Lists |-> {"alertEvidence", "findingEvidence"}, Rows |-> 1..5, Limit |-> 2, MaxTime |-> 1,
      MaxCalls |-> 1, Filters |-> {"all"}],
     [Lists |-> {"acceptances"}, Rows |-> {1, 2}, Limit |-> 1, MaxTime |-> 0, MaxCalls |-> 2,
      Filters |-> {"active", "expired"}]}

\* Overlapping loads; and writes of others in a second session.
MCPageConfigs ==
    {[Pages |-> {"account", "monitoring"}, MaxActions |-> 2, MaxWrites |-> 0, MaxSessions |-> 1,
      MaxLoads |-> 2],
     [Pages |-> {"account", "finding", "alert"}, MaxActions |-> 2, MaxWrites |-> 1,
      MaxSessions |-> 2, MaxLoads |-> 1]}
=============================================================================
