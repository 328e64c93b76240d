SPECIFICATION Spec
CONSTANTS
    Remotes <- MCRemotes
    DefaultRemote = "dev"
    Clouds <- MCClouds
    Instances <- MCInstances
    Typed <- MCTyped
    Starts <- MCStarts
    Names <- MCNames
    RandomIDs <- MCRandomIDs
    Junk <- MCJunk
    Quoted <- MCQuoted
    Unreadable <- MCUnreadable
    Answers <- MCAnswers
INVARIANTS
    NamedTargetIsKept
    AnswerNamesTheTarget
    TokenIsOfTheRemote
    ServicesAreReady
    PackageIsExact
    GroupIsOfThePush
