SPECIFICATION Spec
CONSTANTS
    Role = {"liaison", "architect", "terminologist", "vision_keeper", "tester", "researcher"}
    Owners <- MCRound
    Starters <- MCTester
    MaxOpen = 1
    MaxMail = 13
CONSTRAINT MCStory
INVARIANTS EachReplyIsNew QuestionComesBack RoundIsOneQuestion ClimbsToSomebodyNew BlockedIsCarried
CHECK_DEADLOCK FALSE
