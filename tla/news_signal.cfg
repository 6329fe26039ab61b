CONSTANTS
 a1=a1
 a2=a2
 m1=m1
 m2=m2
 Market={m1,m2}
 Article={a1,a2}
 Story <- MCStory
 Rank <- MCRank
 Links <- MCLinks
 Weak = {}
 MaxMarkets=1
 MaxProfiles=2
 MaxEvents=1
 BatchSize=1
 CheckLimit=1
 Scores={0,8}
 MaxRevision=3
 MaxUpset=1
 NoRow=NoRow
SPECIFICATION Spec
INVARIANT SignalScored
