\* A page reload: the new connection registers before the old one leaves.
SPECIFICATION HubSpec
CONSTANTS
    h1 = h1
    u1 = u1
    n1 = n1
    Nobody = Nobody
    Hubs = {h1}
    Users = {u1}
    Conns = {c1, c2}
    Notes = {n1}
    HubOf <- OneHub
    UserOf <- OneUser
    Recipient <- ToUser
    SentBy <- Senders
    Capacity = 1
INVARIANTS
    OnlineWhileConnected
CHECK_DEADLOCK FALSE
