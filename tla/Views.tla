--------------------------------- MODULE Views --------------------------------
(***************************************************************************)
(* What the organization is shown: assessments, compliance posture, the    *)
(* command center, the executive dashboard, paged lists and action pages.  *)
(* They share no state, so that a behaviour is one of one of them, for one *)
(* choice of its constants: part says which.  A variable that two of the   *)
(* modules declare belongs to the one that was chosen, and the variables   *)
(* of the others stay as they are.                                         *)
(***************************************************************************)
EXTENDS Integers, FiniteSets

CONSTANTS
    AssessmentConfigs, ComplianceConfigs, CommandConfigs,  \* records of the constants
    ExecutiveConfigs, ListConfigs, PageConfigs             \* of a module each

VARIABLES
    part,
    setting, log, product, drafts, handler, queue,         \* Assessment
    late, captured, others, evidence, alone, basis,        \* Compliance
    account, scans, stamp, won, synced, inventory,         \* CommandCenter
    source, acceptances, snapshots, connected,             \* ExecutiveSummary
    list, stored, now, shown, calls,                       \* PagedLists
    page, session, token, acts, loads, tab,                \* ActionPages
    finding, control, request, changes, clock, row         \* of several

assessmentVars == <<setting, log, product, drafts, handler, queue>>
complianceVars == <<late, captured, others, evidence, alone, basis>>
commandVars == <<account, scans, stamp, won, synced, inventory>>
executiveVars == <<source, acceptances, snapshots, connected>>
listVars == <<list, stored, now, shown, calls>>
pageVars == <<page, session, token, acts, loads, tab>>

vars == <<part, assessmentVars, complianceVars, commandVars, executiveVars, listVars, pageVars,
          finding, control, request, changes, clock, row>>

A(c) == INSTANCE Assessment WITH
    Runs <- c.Runs, Findings <- c.Findings, Urgencies <- c.Urgencies,
    MaxDrafts <- c.MaxDrafts, Settings <- c.Settings

C(c) == INSTANCE Compliance WITH
    Controls <- c.Controls, Security <- c.Security, Cost <- c.Cost, Reads <- c.Reads,
    Registry <- c.Registry, Maps <- c.Maps, Sample <- c.Sample, Limit <- c.Limit,
    Others <- c.Others, Evaluators <- c.Evaluators, Changes <- c.Changes, MayFail <- c.MayFail

D(c) == INSTANCE CommandCenter WITH
    Accounts <- c.Accounts, Findings <- c.Findings, On <- c.On, Severity <- c.Severity,
    Controls <- c.Controls, FreshMax <- c.FreshMax, AgingMax <- c.AgingMax,
    ScanLimit <- c.ScanLimit, Ways <- c.Ways, MaxScans <- c.MaxScans,
    MaxTries <- c.MaxTries, MaxClock <- c.MaxClock, Changes <- c.Changes

E(c) == INSTANCE ExecutiveSummary WITH
    Findings <- c.Findings, Severity <- c.Severity, MaxClock <- c.MaxClock,
    Acceptances <- c.Acceptances

L(c) == INSTANCE PagedLists WITH
    Lists <- c.Lists, Rows <- c.Rows, Limit <- c.Limit, MaxTime <- c.MaxTime,
    MaxCalls <- c.MaxCalls, Filters <- c.Filters

P(c) == INSTANCE ActionPages WITH
    Pages <- c.Pages, MaxActions <- c.MaxActions, MaxWrites <- c.MaxWrites,
    MaxSessions <- c.MaxSessions, MaxLoads <- c.MaxLoads
-----------------------------------------------------------------------------
ASSUME AssessmentAssumption == \A c \in AssessmentConfigs : 0 \notin c.Findings

ASSUME ComplianceAssumption ==
    \A c \in ComplianceConfigs :
        /\ 0 \notin c.Controls /\ IsFiniteSet(c.Security) /\ IsFiniteSet(c.Cost)
        /\ c.Limit \in Nat /\ c.Others \subseteq Nat
        /\ \A p \in c.Registry : c.Maps[p] \subseteq c.Security

ASSUME CommandAssumption ==
    \A c \in CommandConfigs :
        /\ IsFiniteSet(c.Accounts) /\ IsFiniteSet(c.Findings) /\ IsFiniteSet(c.Controls)
        /\ c.FreshMax \in Nat /\ c.AgingMax \in Nat /\ c.ScanLimit \in Nat
        /\ c.Ways \subseteq {"queue", "doubt", "none"}

ASSUME ExecutiveAssumption ==
    \A c \in ExecutiveConfigs : IsFiniteSet(c.Findings) /\ c.MaxClock \in Nat

ASSUME ListAssumption ==
    \A c \in ListConfigs :
        /\ c.Lists \subseteq {"alertEvidence", "findingEvidence", "acceptances"}
        /\ c.Rows \subseteq Nat \ {0} /\ c.Limit \in Nat \ {0} /\ c.MaxTime \in Nat

ASSUME PageAssumption ==
    \A c \in PageConfigs :
        c.Pages \subseteq {"account", "finding", "alert", "monitoring"} /\ c.MaxSessions \in Nat \ {0}

NoAssessment ==
    setting = 0 /\ log = 0 /\ product = 0 /\ drafts = 0 /\ handler = 0 /\ queue = 0
NoCompliance == late = 0 /\ captured = 0 /\ others = 0 /\ evidence = 0 /\ alone = 0 /\ basis = 0
NoCommand == account = 0 /\ scans = 0 /\ stamp = 0 /\ won = 0 /\ synced = 0 /\ inventory = 0
NoExecutive == source = 0 /\ acceptances = 0 /\ snapshots = 0 /\ connected = 0
NoList == list = 0 /\ stored = 0 /\ now = 0 /\ shown = 0 /\ calls = 0
NoPage == page = 0 /\ session = 0 /\ token = 0 /\ acts = 0 /\ loads = 0 /\ tab = 0

AssessmentInit(c) ==
    /\ part = <<"assessment", c>> /\ A(c)!Init
    /\ NoCompliance /\ NoCommand /\ NoExecutive /\ NoList /\ NoPage
    /\ control = 0 /\ request = 0 /\ changes = 0 /\ clock = 0

ComplianceInit(c) ==
    /\ part = <<"compliance", c>> /\ C(c)!Init
    /\ NoAssessment /\ NoCommand /\ NoExecutive /\ NoList /\ NoPage
    /\ clock = 0 /\ row = 0

CommandInit(c) ==
    /\ part = <<"command", c>> /\ D(c)!Init
    /\ NoAssessment /\ NoCompliance /\ NoExecutive /\ NoList /\ NoPage
    /\ row = 0

ExecutiveInit(c) ==
    /\ part = <<"executive", c>> /\ E(c)!Init
    /\ NoAssessment /\ NoCompliance /\ NoCommand /\ NoList /\ NoPage
    /\ control = 0 /\ changes = 0 /\ row = 0

ListInit(c) ==
    /\ part = <<"list", c>> /\ L(c)!Init
    /\ NoAssessment /\ NoCompliance /\ NoCommand /\ NoExecutive /\ NoPage
    /\ finding = 0 /\ control = 0 /\ request = 0 /\ changes = 0 /\ clock = 0 /\ row = 0

PageInit(c) ==
    /\ part = <<"page", c>> /\ P(c)!Init
    /\ NoAssessment /\ NoCompliance /\ NoCommand /\ NoExecutive /\ NoList
    /\ finding = 0 /\ control = 0 /\ request = 0 /\ changes = 0 /\ clock = 0

Init ==
    \/ \E c \in AssessmentConfigs : AssessmentInit(c)
    \/ \E c \in ComplianceConfigs : ComplianceInit(c)
    \/ \E c \in CommandConfigs : CommandInit(c)
    \/ \E c \in ExecutiveConfigs : ExecutiveInit(c)
    \/ \E c \in ListConfigs : ListInit(c)
    \/ \E c \in PageConfigs : PageInit(c)

AssessmentNext(c) ==
    /\ part = <<"assessment", c>> /\ A(c)!Next
    /\ UNCHANGED <<part, complianceVars, commandVars, executiveVars, listVars, pageVars,
                   control, request, changes, clock>>

ComplianceNext(c) ==
    /\ part = <<"compliance", c>> /\ C(c)!Next
    /\ UNCHANGED <<part, assessmentVars, commandVars, executiveVars, listVars, pageVars, clock, row>>

CommandNext(c) ==
    /\ part = <<"command", c>> /\ D(c)!Next
    /\ UNCHANGED <<part, assessmentVars, complianceVars, executiveVars, listVars, pageVars, row>>

ExecutiveNext(c) ==
    /\ part = <<"executive", c>> /\ E(c)!Next
    /\ UNCHANGED <<part, assessmentVars, complianceVars, commandVars, listVars, pageVars,
                   control, changes, row>>

ListNext(c) ==
    /\ part = <<"list", c>> /\ L(c)!Next
    /\ UNCHANGED <<part, assessmentVars, complianceVars, commandVars, executiveVars, pageVars,
                   finding, control, request, changes, clock, row>>

PageNext(c) ==
    /\ part = <<"page", c>> /\ P(c)!Next
    /\ UNCHANGED <<part, assessmentVars, complianceVars, commandVars, executiveVars, listVars,
                   finding, control, request, changes, clock>>

Next ==
    \/ \E c \in AssessmentConfigs : AssessmentNext(c)
    \/ \E c \in ComplianceConfigs : ComplianceNext(c)
    \/ \E c \in CommandConfigs : CommandNext(c)
    \/ \E c \in ExecutiveConfigs : ExecutiveNext(c)
    \/ \E c \in ListConfigs : ListNext(c)
    \/ \E c \in PageConfigs : PageNext(c)

Spec == Init /\ [][Next]_vars
-----------------------------------------------------------------------------
(* Properties: for each part what its module states.                       *)

\* Whatever is thrown, dies or is done twice: a run that says COMPLETED is whole, a
\* later run finds the plans of an earlier one, AWS is called only when announced,
\* and no reader sees a status behind the events (Assessment).
AssessmentsAreWhole ==
    \A c \in AssessmentConfigs : part = <<"assessment", c>> =>
        /\ A(c)!TypeOK /\ A(c)!CompletedIsWhole /\ A(c)!RetryFindsDrafts
        /\ A(c)!CallIsAnnounced /\ A(c)!StatusLeads

\* What an evaluation stored undisturbed does not contradict what the registry shows
\* of the same findings, and the evidence beside it says the same (Compliance).
PosturesAgree ==
    \A c \in ComplianceConfigs : part = <<"compliance", c>> =>
        C(c)!TypeOK /\ C(c)!RegistryAgrees /\ C(c)!EvidenceCarriesStatus

\* A response built from eighteen statements fits its schema and counts no more
\* owned risk than there is, if nobody wrote beside it (CommandCenter).
ScoresAddUp ==
    \A c \in CommandConfigs : part = <<"command", c>> => D(c)!TypeOK /\ D(c)!CalmFits

\* Who is called fresh was synchronized in time, who is called failed or blocked has
\* no later success, and the latest trouble has its action (CommandCenter).
FreshnessIsTrue ==
    \A c \in CommandConfigs : part = <<"command", c>> =>
        D(c)!FreshIsEarned /\ D(c)!NoAlarmAfterSuccess /\ D(c)!LatestTroubleIsShown

\* Demo data makes no score, a full score hides no open or lapsed risk, and the
\* coverage is a percentage (ExecutiveSummary).
SummariesAreEarned ==
    \A c \in ExecutiveConfigs : part = <<"executive", c>> =>
        E(c)!TypeOK /\ E(c)!DemoNeverScores /\ E(c)!PerfectIsEarned /\ E(c)!CoverageInScale

\* A list that has settled shows every row down to its last one, in order
\* (PagedLists).
ListsAreWhole ==
    \A c \in ListConfigs : part = <<"list", c>> => L(c)!TypeOK /\ L(c)!ListIsWhole

\* No token outlives the request it was made for, and a page that has settled shows
\* what it has reported as done (ActionPages).
PagesAreHonest ==
    \A c \in PageConfigs : part = <<"page", c>> =>
        P(c)!TypeOK /\ P(c)!TokensAreFresh /\ P(c)!ShowsWhatItTold
=============================================================================
