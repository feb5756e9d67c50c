-------------------------- MODULE MCRequestPipeline --------------------------
(* RequestPipeline on two hosts, one REST and one batch endpoint, and two  *)
(* documents that bind, permit and inspect differently.                    *)
EXTENDS RequestPipeline

CONSTANTS dA, dB, hRest, hBatch, k1, k2, mRead, mCall, mReply

MCRule ==
    [d \in Docs |-> [h \in Hosts |->
        CASE d = dA /\ h = hRest  -> [kind |-> "single", keys |-> {k1}, body |-> TRUE]
          [] d = dA /\ h = hBatch -> [kind |-> "batch", keys |-> {k2}, body |-> FALSE]
          [] d = dB /\ h = hRest  -> [kind |-> "credentialed", keys |-> {k2}, body |-> FALSE]
          [] d = dB /\ h = hBatch -> [kind |-> "single", keys |-> {}, body |-> FALSE]]]

MCPermits ==
    [d \in Docs |-> [h \in Hosts |->
        CASE d = dA /\ h = hRest  -> {mRead}
          [] d = dA /\ h = hBatch -> {mRead}
          [] d = dB /\ h = hRest  -> {mRead, mCall}
          [] d = dB /\ h = hBatch -> {mCall}]]

Request(h, m, head, names, coded, body) ==
    [host |-> h, msgs |-> m, head |-> head, names |-> names, coded |-> coded,
     body |-> body]

MCRequests == {
    Request(hRest, <<mRead>>, {k1}, {}, {}, {}),
    Request(hRest, <<mRead>>, {}, {}, {}, {k1, k2}),
    Request(hRest, <<mRead>>, {}, {k1}, {}, {}),
    Request(hRest, <<mCall>>, {k2}, {}, {k1}, {}),
    Request(hBatch, <<mRead, mReply>>, {k2}, {}, {k1}, {}),
    Request(hBatch, <<mRead, mCall>>, {}, {}, {}, {k2})}
=============================================================================
