--------------------------- MODULE MCWebhookInbox ---------------------------
(* An invoice, another event and four handlers. *)
EXTENDS WebhookInbox, TLC

CONSTANTS invoice, other, h1, h2, h3, h4

MCEvents   == {invoice, other}
MCInvoices == {invoice}
MCHandlers == {h1, h2, h3, h4}
Symmetry   == Permutations(MCHandlers)
=============================================================================
