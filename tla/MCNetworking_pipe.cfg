\* Two connections, replies longer than the static buffer, a block, a write and
\* the socket, and an output limit within reach.
CONSTANTS
    a = a  b = b
    Client = {a, b}
    Scripts <- MCScripts
    Sizes = {1, 3}
    Slack = {1}
    BufSize = 2
    Chunk = 2
    NetMax = 3
    SockCap = 3
    QueryLimit = 3
    HardLimit = 12
    NodeSize = 1
SPECIFICATION FairSpec
INVARIANTS NoReplyStranded NoCommandStranded BooksInv
PROPERTIES QuitIsLast ImplementsStream RepliesArrive CommandsRun LastReplyCloses
