------------------------------ MODULE MCProxy ------------------------------
(* Small instances of Proxy for TLC.                                       *)
EXTENDS Proxy, TLC

\* Two tcp rooms: a bilibili session resolves twice, a douyu session reports
\* without ending.
KindTcp == ("d" :> "douyu") @@ ("b" :> "bilibili")

\* Two websocket rooms: the ones whose close() can fail.
KindWs == ("h" :> "huajiao") @@ ("y" :> "YY")

\* One of each family, for liveness.
KindLive == ("d" :> "douyu") @@ ("h" :> "huajiao")

KindYY == "y" :> "YY"

Symmetry == Permutations(Inst) \cup Permutations(ClientThread)
=============================================================================
