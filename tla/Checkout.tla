------------------------------ MODULE Checkout ------------------------------
(***************************************************************************)
(* The checkouts of one account (packages/dkrypt/src/routes/billing.ts,    *)
(* billing.ts, cryptoBilling.ts): POST /v1/billing/checkout holds the      *)
(* account's lock while it asks Stripe or NOWPayments for a page to pay    *)
(* on, and knows repeated requests by their Idempotency-Key.               *)
(*                                                                         *)
(* Stripe forgets a key a while after it has first seen it, and a session  *)
(* that is not paid expires after the same time; the record of an attempt  *)
(* is forgotten before.  Times are steps of one clock.                     *)
(***************************************************************************)
EXTENDS Naturals

CONSTANTS
  Posts,         \* requests, repetitions included
  PostKey,       \* PostKey[p]: the Idempotency-Key of p
  PlanOf,        \* PlanOf[p]: the plan p asks for
  CryptoPosts,   \* those of provider crypto; keys are hashed with the provider
  NoPage,        \* no session and no invoice
  AttemptTtl,    \* STRIPE_CHECKOUT_IDEMPOTENCY_TTL_MS in steps
  StripeTtl,     \* how long Stripe keeps a key, and a session is open
  LastHour,      \* bound on the clock
  MaxAccountChanges \* bound on the other changes of the account

PostKeys == {PostKey[p] : p \in Posts}
StripePosts == Posts \ CryptoPosts

ASSUME CryptoPostsAssumption == CryptoPosts \subseteq Posts
ASSUME ProvidersAssumption ==
  \A p \in CryptoPosts, q \in StripePosts : PostKey[p] # PostKey[q]
ASSUME PagesAssumption == NoPage \notin Posts
ASSUME TtlAssumption == AttemptTtl \in Nat /\ StripeTtl \in Nat /\ AttemptTtl < StripeTtl
ASSUME CheckoutBoundsAssumption == LastHour \in Nat /\ MaxAccountChanges \in Nat

VARIABLES
  post,       \* post[p]: how far request p is
  sent,       \* sent[p]: the version of the details its parameters are made of
  page,       \* page[p]: the session or invoice the provider has for it
  holder,     \* who holds checkoutLocks for the account
  attempt,    \* attempt[k]: the record of a Stripe attempt with key k
  memory,     \* memory[k]: what Stripe remembers of k
  opened,     \* opened[p]: when the page of p was opened, if it was
  invoice,    \* invoice[k]: the crypto checkout of key k
  response,   \* response[p]: what p was answered
  details,    \* the version of the account's customer and address
  subscribed, \* none, other, or the plan of a past-due crypto subscription
  paused,     \* areNewBillingCheckoutsPaused
  hour,       \* the clock
  changes     \* changes of the account so far

checkoutVars == <<post, sent, page, holder, attempt, memory, opened, invoice, response,
                  details, subscribed, paused, hour, changes>>

InFlight   == {"creating", "retrieving", "answered"}
Never      == LastHour + 1
NoAttempt  == [plan |-> NoPage, details |-> 0, at |-> 0, session |-> NoPage]
NoResponse == [code |-> 0, page |-> NoPage]

CheckoutInit ==
  /\ post = [p \in Posts |-> "new"]
  /\ sent = [p \in Posts |-> 0]
  /\ page = [p \in Posts |-> NoPage]
  /\ holder = NoPage
  /\ attempt = [k \in PostKeys |-> NoAttempt]
  /\ memory = [k \in PostKeys |-> NoAttempt]
  /\ opened = [p \in Posts |-> Never]
  /\ invoice = [k \in PostKeys |-> NoPage]
  /\ response = [p \in Posts |-> NoResponse]
  /\ details = 0
  /\ subscribed = "none"
  /\ paused = FALSE
  /\ hour = 0
  /\ changes = 0

----------------------------------------------------------------------------
(* findStripeCheckoutIdempotencyAttempt: too old an attempt is unknown.    *)
AttemptOf(p) ==
  LET a == attempt[PostKey[p]] IN
  IF a # NoAttempt /\ hour - a.at <= AttemptTtl THEN a ELSE NoAttempt

(* The checkout of this key is known already.                              *)
Repeats(p) ==
  IF p \in CryptoPosts THEN invoice[PostKey[p]] # NoPage ELSE AttemptOf(p) # NoAttempt

(* The key was used for a different checkout.                              *)
Mismatch(p) ==
  /\ Repeats(p)
  /\ IF p \in CryptoPosts THEN PlanOf[invoice[PostKey[p]]] # PlanOf[p]
     ELSE \/ AttemptOf(p).plan # PlanOf[p]
          \/ AttemptOf(p).session = NoPage /\ AttemptOf(p).details # details

(* A subscription stands against a new checkout: hasActiveBillingSub-      *)
(* scription; a past-due crypto subscription is renewed by paying again.   *)
Subscribed(p) == subscribed # "none" /\ ~(p \in CryptoPosts /\ subscribed = PlanOf[p])

(* The request ends; its local variables with it.                          *)
Respond(p, code, shown) ==
  /\ post' = [post EXCEPT ![p] = "over"]
  /\ sent' = [sent EXCEPT ![p] = 0]
  /\ page' = [page EXCEPT ![p] = NoPage]
  /\ response' = [response EXCEPT ![p] = [code |-> code, page |-> shown]]

Account == <<details, subscribed, paused, hour, changes>>

(* The requests that are refused before anything is awaited.               *)
Refusal(p) ==
  IF holder # NoPage THEN 409
  ELSE IF paused /\ ~Repeats(p) THEN 503
  ELSE IF Mismatch(p) \/ (~Repeats(p) /\ Subscribed(p)) THEN 409
  ELSE 0

Refuse(p) ==
  /\ post[p] = "new" /\ Refusal(p) # 0
  /\ Respond(p, Refusal(p), NoPage)
  /\ UNCHANGED <<holder, attempt, memory, opened, invoice, Account>>

(* recordStripeCheckoutIdempotencyAttempt.                                 *)
Attempted(p, of, session) ==
  LET k == PostKey[p] known == AttemptOf(p) IN
  IF known = NoAttempt
  THEN [attempt EXCEPT ![k] = [plan |-> PlanOf[p], details |-> of, at |-> hour, session |-> session]]
  ELSE IF known.plan # PlanOf[p] \/ known.details # of \/ known.session # NoPage
  THEN attempt
  ELSE [attempt EXCEPT ![k].session = session]

(* A Stripe checkout up to the await: an attempt is recorded before Stripe *)
(* is asked, a session that is known is asked for.                         *)
AskStripe(p) ==
  /\ p \in StripePosts /\ post[p] = "new" /\ Refusal(p) = 0
  /\ LET known == AttemptOf(p).session IN
     /\ post' = [post EXCEPT ![p] = IF known = NoPage THEN "creating" ELSE "retrieving"]
     /\ page' = [page EXCEPT ![p] = known]
  /\ attempt' = IF Repeats(p) THEN attempt ELSE Attempted(p, details, NoPage)
  /\ sent' = [sent EXCEPT ![p] = details]
  /\ holder' = p
  /\ UNCHANGED <<memory, opened, invoice, response, Account>>

(* Stripe does not remember the key.                                       *)
Unknown(k) == memory[k] = NoAttempt \/ hour - memory[k].at >= StripeTtl

(* sessions.create at Stripe: a key it remembers opens nothing, and other  *)
(* parameters are an error.                                                *)
StripeCreates(p) ==
  LET k == PostKey[p] IN
  /\ p \in StripePosts /\ post[p] = "creating"
  /\ IF Unknown(k)
     THEN /\ page' = [page EXCEPT ![p] = p]
          /\ opened' = [opened EXCEPT ![p] = hour]
          /\ memory' = [memory EXCEPT ![k] =
               [plan |-> PlanOf[p], details |-> sent[p], at |-> hour, session |-> p]]
     ELSE /\ memory[k].plan = PlanOf[p] /\ memory[k].details = sent[p]
          /\ page' = [page EXCEPT ![p] = memory[k].session]
          /\ UNCHANGED <<opened, memory>>
  /\ post' = [post EXCEPT ![p] = "answered"]
  /\ UNCHANGED <<sent, holder, attempt, invoice, response, Account>>

(* Stripe's answer arrives: the session becomes known.                     *)
StripeAnswers(p) ==
  /\ p \in StripePosts /\ post[p] = "answered"
  /\ attempt' = Attempted(p, sent[p], page[p])
  /\ Respond(p, 200, page[p])
  /\ holder' = NoPage
  /\ UNCHANGED <<memory, opened, invoice, Account>>

(* sessions.retrieve: a page to pay on, unless the session is paid or      *)
(* expired.                                                                *)
StripeRetrieves(p) ==
  /\ post[p] = "retrieving"
  /\ \/ hour - opened[page[p]] < StripeTtl /\ Respond(p, 200, page[p])
     \/ Respond(p, 409, NoPage)
  /\ holder' = NoPage
  /\ UNCHANGED <<attempt, memory, opened, invoice, Account>>

(* A crypto checkout that is known is shown again.                         *)
ShowInvoice(p) ==
  /\ p \in CryptoPosts /\ post[p] = "new" /\ Refusal(p) = 0 /\ Repeats(p)
  /\ Respond(p, 200, invoice[PostKey[p]])
  /\ UNCHANGED <<holder, attempt, memory, opened, invoice, Account>>

(* createCryptoCheckout up to its first await.                             *)
AskNowPayments(p) ==
  /\ p \in CryptoPosts /\ post[p] = "new" /\ Refusal(p) = 0 /\ ~Repeats(p)
  /\ post' = [post EXCEPT ![p] = "creating"]
  /\ holder' = p
  /\ UNCHANGED <<sent, page, attempt, memory, opened, invoice, response, Account>>

(* createInvoice at NOWPayments, which knows no keys.                      *)
InvoiceOpens(p) ==
  /\ p \in CryptoPosts /\ post[p] = "creating"
  /\ post' = [post EXCEPT ![p] = "answered"]
  /\ page' = [page EXCEPT ![p] = p]
  /\ opened' = [opened EXCEPT ![p] = hour]
  /\ UNCHANGED <<sent, holder, attempt, memory, invoice, response, Account>>

(* upsertCryptoCheckout, and the answer.                                   *)
InvoiceIsSaved(p) ==
  /\ p \in CryptoPosts /\ post[p] = "answered"
  /\ invoice' = [invoice EXCEPT ![PostKey[p]] = page[p]]
  /\ Respond(p, 201, page[p])
  /\ holder' = NoPage
  /\ UNCHANGED <<attempt, memory, opened, Account>>

(* The provider fails, refuses, or its answer is lost.                     *)
CheckoutFails(p) ==
  /\ post[p] \in InFlight
  /\ Respond(p, 502, NoPage)
  /\ holder' = NoPage
  /\ UNCHANGED <<attempt, memory, opened, invoice, Account>>

(* The process dies: locks and requests are gone, records stay.            *)
CheckoutCrash ==
  /\ \E p \in Posts : post[p] \in InFlight
  /\ post' = [p \in Posts |-> IF post[p] \in InFlight THEN "lost" ELSE post[p]]
  /\ sent' = [p \in Posts |-> 0]
  /\ page' = [p \in Posts |-> NoPage]
  /\ holder' = NoPage
  /\ UNCHANGED <<attempt, memory, opened, invoice, response, Account>>

(* Events, the profile and administrators change the account.              *)
AccountChanges ==
  /\ changes < MaxAccountChanges /\ changes' = changes + 1
  /\ \/ details' = 1 - details /\ UNCHANGED <<subscribed, paused>>
     \/ /\ subscribed' \in {"none", "other"} \cup {PlanOf[p] : p \in CryptoPosts}
        /\ UNCHANGED <<details, paused>>
     \/ paused' = ~paused /\ UNCHANGED <<details, subscribed>>
  /\ UNCHANGED <<post, sent, page, holder, attempt, memory, opened, invoice, response, hour>>

HourPasses ==
  /\ hour < LastHour /\ hour' = hour + 1
  /\ UNCHANGED <<post, sent, page, holder, attempt, memory, opened, invoice, response>>
  /\ UNCHANGED <<details, subscribed, paused, changes>>

CheckoutStep(p) ==
  \/ Refuse(p) \/ AskStripe(p) \/ StripeCreates(p) \/ StripeAnswers(p) \/ StripeRetrieves(p)
  \/ ShowInvoice(p) \/ AskNowPayments(p) \/ InvoiceOpens(p) \/ InvoiceIsSaved(p)
  \/ CheckoutFails(p)

CheckoutNext == (\E p \in Posts : CheckoutStep(p)) \/ CheckoutCrash \/ AccountChanges \/ HourPasses

CheckoutSpec == CheckoutInit /\ [][CheckoutNext]_checkoutVars

----------------------------------------------------------------------------
(* Properties.                                                             *)

(* Each variable has its type.                                             *)
CheckoutTypeOK ==
  /\ post \in [Posts -> {"new", "over", "lost"} \cup InFlight]
  /\ page \in [Posts -> Posts \cup {NoPage}]
  /\ holder \in Posts \cup {NoPage}
  /\ invoice \in [PostKeys -> CryptoPosts \cup {NoPage}]
  /\ opened \in [Posts -> 0..Never]
  /\ hour \in 0..LastHour

(* The lock is held by whoever asks a provider, and by nobody else.        *)
LockIsTight == {p \in Posts : post[p] \in InFlight} = {holder} \ {NoPage}

(* There are never two sessions of one key that can still be paid.         *)
OneOpenSessionPerKey ==
  \A p, q \in StripePosts :
    /\ p # q /\ PostKey[p] = PostKey[q]
    /\ opened[p] # Never /\ opened[q] # Never
    => hour - opened[p] >= StripeTtl \/ hour - opened[q] >= StripeTtl

(* No page is for another plan or key than those asked for, and a crypto   *)
(* checkout that was shown is the one on record.                           *)
PagesAreAsked ==
  \A p \in Posts : response[p].page # NoPage =>
    LET shown == response[p].page IN
    /\ PostKey[shown] = PostKey[p] /\ PlanOf[shown] = PlanOf[p]
    /\ p \in CryptoPosts => invoice[PostKey[p]] = shown

(* Whatever is repeated, fails, loses its answer, or is cut by a crash, and *)
(* however the account changes meanwhile, a key stands for one checkout    *)
(* (POST /v1/billing/checkout).                                            *)
CheckoutIsSound == LockIsTight /\ OneOpenSessionPerKey /\ PagesAreAsked
=============================================================================
