----------------------------- MODULE MCDvbSub -----------------------------
EXTENDS DvbSub

\* The main thread alone, and together with the thread of zapit.
MCMaxCalls == ({"neutrino"} :> 3) @@ ({"neutrino", "zapit"} :> 2)
=============================================================================
