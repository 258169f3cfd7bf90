SPECIFICATION Spec
CONSTANTS
    N = 3
    s1 = s1
    s2 = s2
    Space <- MCSpace
    Costs = {1, 2}
    TeamSet <- MCTeamSet
    Rounds = {r1, r2, r3}
    MaxActive <- MCMaxActive
    Raws = {FALSE}
    None = None
SYMMETRY Symmetry
INVARIANT MailIsAwaited AnswersAreOwn LowestBidWins SwarmHearsEveryPeer
