--------------------------- MODULE MCCurrentNext ---------------------------
EXTENDS CurrentNext

\* The channel that is not watched first may be in the list: the two are alike.
MCBlacklists == {{}, Channels \ Firsts}

\* The first channel may be silent, when the other one is not in the list.
MCInit ==
    /\ Init
    /\ \A c \in Channels : broadcast[c] = None => c \in Firsts /\ blacklist = {}

MCSpec == MCInit /\ [][Next]_vars /\ Fairness
=============================================================================
