--------------------------- MODULE MCWebhookQueue ---------------------------
(* Small instances of the webhook queue. *)
EXTENDS WebhookQueue, TLC

CONSTANTS w1, w2, r1, r2, h1, h2, e1, e2

OneWorker == {w1}
TwoWorkers == {w1, w2}
OneRequest == {r1}
TwoRequests == {r1, r2}
OneWebhook == {h1}
TwoWebhooks == {h1, h2}
OneEvent == {e1}
TwoEvents == {e1, e2}

(* Workers, requests, webhooks and events are told apart by nothing. *)
Symmetry ==
  Permutations(Workers) \cup Permutations(Requests)
    \cup Permutations(Webhooks) \cup Permutations(Events)

=============================================================================
