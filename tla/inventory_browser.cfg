SPECIFICATION PartsSpec
CONSTANTS
    None = None
    Generation = {g0, g1, g2}
    First = g0
    Service = {s1, s2}
    Report = {p1, p2, p3}
    Executions = {x1, x2}
    Operators = {o1}
    MaxFence = 2
    Openers = {b1, b2}
    Captures = {c1, c2}
    MaxSessions = 2
    MaxChanges = 1
    MaxMishaps = 1
    Runs = {r1, r2}
    Completions = {d1, d2}
    MaxPauses = 2
    Workers = {w1, w2}
    Reapers = {e1}
    MaxTokens = 5
    MaxCrashes = 1
    connection1 = connection1
    application1 = application1
    environment1 = environment1
    service1 = service1
    service2 = service2
    credential1 = credential1
    credential2 = credential2
    key1 = key1
    Archivers = {a1}
    Importers = {i1}
    MaxRevision = 2
    organisation1 = organisation1
    organisation2 = organisation2
    onboarding1 = onboarding1
    onboarding2 = onboarding2
    Callers = {call1, call2}
    Repositories = {repository1}
    MaxAppChanges = 2
    CloudOnboardings = {onboarding3}
    Clouds = {cloud1, cloud2}
    Selections = {target1}
    MaxAccess = 3
    playbook1 = playbook1
    playbook2 = playbook2
    version1 = version1
    version2 = version2
    version3 = version3
    Attachers = {attacher1}
    MaxPlaybook = 4
    MaxEdits = 3
    Probes = {probe1, probe2}
    identity1 = identity1
    identity2 = identity2
    identity3 = identity3
    email1 = email1
    email2 = email2
    Requests = {request1, request2}
    MaxGrant = 1
    MaxInvitations = 3
SYMMETRY Symmetry
INVARIANTS TypesOK OneActive ConsumersVerified Succession ReadyIsUsable GrantedStaysOpen BindingsFollowCredential AcceptingIsComplete OneMemberPerInvitation
PROPERTIES LateCaptureInstallsNothing CaptureEndsByItsCaptor WaiterNeverForgets DeletedForGood ReadyAsValidated PublishedOnce ArchiveDetachesItsOwn
CHECK_DEADLOCK FALSE
