\* Two tabs of one user on one instance, a notification from that instance and
\* one from the worker, while the instance may shut down.
SPECIFICATION HubFairSpec
CONSTANTS
    h1 = h1
    u1 = u1
    n1 = n1
    Nobody = Nobody
    Hubs = {h1}
    Users = {u1}
    Conns = {c1, c2}
    Notes = {n1, n2}
    HubOf <- OneHub
    UserOf <- OneUser
    Recipient <- ToUser
    SentBy <- Senders
    Capacity = 1
INVARIANTS
    NoPanic
    NoStaleClient
    ShownAtMostTwice
PROPERTIES
    WriterEnds
CHECK_DEADLOCK FALSE
