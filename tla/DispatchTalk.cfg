SPECIFICATION FairSpec
CONSTANTS
    developer = developer
    liaison = liaison
    principal = principal
    scheduler = scheduler
    area = area
    batch = batch
    survey = survey
    failing = failing
    zero = zero
    start = start
    preempt = preempt
    tell = tell
    ask = ask
    reply = reply
    Role = {developer, liaison}
    Liaison = liaison
    Principal = principal
    Scheduler = scheduler
    Nothing = nothing
    RoleOf <- MCTalkRoleOf
    Band <- MCTalkBand
    SubjectOf <- MCTalkSubjectOf
    From <- MCTalkFrom
    To <- MCTalkTo
    About <- MCTalkAbout
    Work = {start, preempt}
    Act = {preempt}
    Starts = {start}
    Like = {}
    Shy = {}
    PerCommit = {}
    Subject = {batch}
    Shown = {}
    Edge = {ask, reply}
    Asks = {ask}
    TickCap = 2
    MessageCap = 2
    LoopCap = 1
    WalkLimit = 3
PROPERTIES ComesToRest QuestionsEnd
