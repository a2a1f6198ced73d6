\* A buffer that must grow and move, a socket that takes two cells at a time.
SPECIFICATION FairSpec
CONSTANTS
    CheapPrepend = 1
    ExtraSize = 2
    InitialSize = 2
    Lengths <- MCLengths
    MaxLength = 2
    Replies <- MCReplies
    ByWorker = {2}
    Room = 2
INVARIANT RequestsAreWhole
INVARIANT RepliesAreInOrder
INVARIANT WritingIsWatched
INVARIANT CompletionIsTold
PROPERTY RepliesAreWritten
PROPERTY RequestsAreHandled
CHECK_DEADLOCK FALSE
