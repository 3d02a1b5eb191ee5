CONSTANTS
 Texts = {t1, t2, t3}
 Large = {t3}
 Empty = Empty
 MaxToken = 3
 MaxWrites = 2
 MaxReloads = 1
 MaxCommits = 2
 Requests = {r1}
 MaxMessages = 2
 MaxSaid = 5
 MaxLocal = 2
 MaxRevisions = 2
 MaxOut = 2
 MaxActive = 3
 MaxTurns = 2
 MaxPipe = 2
 MaxRequests = 4
 MaxRestarts = 1
SPECIFICATION OpeningSpec
INVARIANTS TypeOK DraftKept WorkKept TranscriptComplete WorkShown TurnsWatched
CHECK_DEADLOCK FALSE
