SPECIFICATION Spec
CHECK_DEADLOCK FALSE
CONSTANTS
    AssessmentConfigs <- MCAssessmentConfigs
    ComplianceConfigs <- MCComplianceConfigs
    CommandConfigs <- MCCommandConfigs
    ExecutiveConfigs <- MCExecutiveConfigs
    ListConfigs <- MCListConfigs
    PageConfigs <- MCPageConfigs
INVARIANT AssessmentsAreWhole
INVARIANT PosturesAgree
INVARIANT ScoresAddUp
INVARIANT FreshnessIsTrue
INVARIANT SummariesAreEarned
INVARIANT ListsAreWhole
INVARIANT PagesAreHonest
