SPECIFICATION Spec
CONSTANTS
    developer = developer
    liaison = liaison
    principal = principal
    scheduler = scheduler
    area = area
    batch = batch
    survey = survey
    failing = failing
    zero = zero
    start = start
    preempt = preempt
    tell = tell
    ask = ask
    reply = reply
    Role = {developer, liaison}
    Liaison = liaison
    Principal = principal
    Scheduler = scheduler
    Nothing = nothing
    RoleOf <- MCTicksRoleOf
    Band <- MCTicksBand
    SubjectOf <- MCTicksSubjectOf
    From <- MCTicksFrom
    To <- MCTicksTo
    About <- MCTicksAbout
    Work = {survey, failing, zero}
    Act = {}
    Starts = {}
    Like <- MCTicksLike
    Shy = {survey}
    PerCommit = {failing}
    Subject = {area, batch}
    Shown = {batch}
    Edge = {tell}
    Asks = {}
    TickCap = 2
    MessageCap = 1
    LoopCap = 1
    WalkLimit = 1
INVARIANTS TypeOK
PROPERTIES AbandonmentHolds
