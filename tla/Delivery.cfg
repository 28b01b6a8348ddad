CONSTANTS
    Plans <- MCPlans
    Reviews <- MCReviews
    WorkStarts <- MCWorkStarts
    Architectures <- MCArchitectures
    Histories <- MCHistories
    Landings <- MCLandings
    Maturities <- MCMaturities
    Closures <- MCClosures
    Answers <- MCAnswers
    MaxRevisions = 2
    Situations <- MCSituations
    Reviewable <- MCReviewable
    Narratives <- MCNarratives
    Templates = None
    Epic = "epic"
    MaxEdits = 1
    Owners <- MCOwners
    Targets <- MCTargets
    Assessments <- MCAssessments
    Flaws <- MCFlaws
    MaxRequests = 3
    MaxDrift = 1
    People <- MCPeople
    Routes <- MCRoutes
    MaxMoves = 2
    MaxClock = 1
    None = None
    Elsewhere = Elsewhere
SPECIFICATION MCSpec
INVARIANTS NeverStuck OrderIsKept ReadinessIsCumulative StepsAreReviewed ClosureIsReadable ParentIsReadyToClose ObligationsSuffice 
