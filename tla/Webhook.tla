------------------------------ MODULE Webhook -------------------------------
(***************************************************************************)
(* The methods whose verdict comes by webhook: government-id-liveness      *)
(* (Persona), plaid-bank-link (Plaid) and paid-billing-card (Stripe).      *)
(*                                                                         *)
(* /begin creates an inquiry at the vendor and binds it to the session;    *)
(* the vendor posts signed events about the inquiry, again until one post  *)
(* is answered with 200; the client polls /complete.  Posts arrive late,   *)
(* twice and out of order, and before /begin has bound the inquiry.  The   *)
(* process may restart: the bindings and results of Plaid and Stripe, and  *)
(* of Persona without a shared store, are in its memory.                   *)
(*                                                                         *)
(* "Inquiry" stands for Plaid's link token and Stripe's SetupIntent too.   *)
(* What a vendor decides is up to the vendor.                              *)
(***************************************************************************)
EXTENDS StoreClient, FiniteSets

CONSTANTS
  Sessions, Inquiries, Handlers,
  Deployments,         \* [method, shared, events]: what may be deployed, and
                       \*   how many events an inquiry has at most
  ReplayWindow,
  MaxTime, MaxEvents, MaxRestarts,
  None

VendorMethods == {"government-id-liveness", "plaid-bank-link", "paid-billing-card"}
ASSUME WebhookAssumption ==
  /\ Deployments \subseteq [method : VendorMethods, shared : {"memory", "redis", "firestore"},
                            events : 0..MaxEvents]
  /\ IsFiniteSet(Sessions) /\ IsFiniteSet(Inquiries) /\ IsFiniteSet(Handlers)
  /\ None \notin Sessions \cup Inquiries
  /\ \A n \in {ReplayWindow, MaxTime, MaxEvents, MaxRestarts} : n \in Nat

VARIABLES
  deployed, now, restarts,
  byInquiry,           \* the binding a store keeps: inquiry to session
  bySession,           \* the result a store keeps: session to result
  hpc, call,            \* per request: its step and what it carries
  recorded,            \* results that recordVerified put on sessions
  owner,               \* at the vendor: the session an inquiry is made for
  said,                \* at the vendor: events emitted, per inquiry
  posts,               \* posts under way: they stay and may arrive again
  acked,               \* at the vendor: events answered with 200
  forgot               \* history: sessions that a restart took something of

vendorVars == <<owner, said, posts, acked>>
storeVars  == <<byInquiry, bySession>>
webhookVars == <<deployed, now, restarts, storeVars, hpc, call, recorded, vendorVars, forgot>>

(* Plaid and Stripe have no shared store.                                  *)
NewResultStoreFromEnv ==
  IF deployed.method = "government-id-liveness" THEN deployed.shared ELSE "memory"

-----------------------------------------------------------------------------
(* Events: what each vendor calls them, and what they mean here.           *)
PersonaEvents == [name : {"inquiry"}, raw : {"created", "completed", "declined", "pending"}]
                   \cup [name : {"inquiry.expired"}, raw : {"created"}]
PlaidEvents == [name : {"SESSION_FINISHED"}, raw : {"", "SUCCESS", "EXITED", "PENDING"}]
                 \cup [name : {"SESSION_EXPIRED"}, raw : {""}]
StripeEvents == [name : {"created", "succeeded", "setup_failed", "canceled"}, raw : {""}]

mapPersonaStatus(e) ==
  CASE e.name = "inquiry.expired" -> "expired"
    [] e.raw \in {"approved", "completed"} -> "approved"
    [] e.raw \in {"declined", "failed"} -> "declined"
    [] e.raw \in {"needs_review", "needs-review", "pending"} -> "needs_review"
    [] OTHER -> e.raw
mapPlaidStatus(e) ==
  CASE e.name = "SESSION_EXPIRED" -> "expired"
    [] e.raw \in {"SUCCESS", "COMPLETED"} -> "approved"
    [] e.raw \in {"EXITED", "FAILED", "ABANDONED"} -> "declined"
    [] e.raw \in {"REQUIRES_REVIEW", "PENDING"} -> "needs_review"
    [] e.raw = "EXPIRED" -> "expired"
    [] OTHER -> e.raw
mapEventType(e) ==
  CASE e.name = "succeeded" -> "approved"
    [] e.name = "setup_failed" -> "declined"
    [] e.name = "canceled" -> "canceled"
    [] OTHER -> ""
EventsOf(m) == CASE m = "government-id-liveness" -> PersonaEvents
                 [] m = "plaid-bank-link" -> PlaidEvents
                 [] m = "paid-billing-card" -> StripeEvents
Events == EventsOf(deployed.method)
StatusOf(e) == CASE deployed.method = "government-id-liveness" -> mapPersonaStatus(e)
                 [] deployed.method = "plaid-bank-link" -> mapPlaidStatus(e)
                 [] deployed.method = "paid-billing-card" -> mapEventType(e)

(* A post: an event of an inquiry, the time it was signed at and the       *)
(* secrets it was signed with.                                             *)
Post(i, e, sigs) == [inquiry |-> i, event |-> e, t |-> now, sigs |-> sigs]
(* Mutation: the signature is not compared.                                *)
AnyFreshPost(p) == now - p.t <= ReplayWindow
(* One signature of several has to match: vendors send two while a secret  *)
(* is rotated.                                                             *)
VerifyWebhookSignature(p) ==
  /\ now - p.t <= ReplayWindow /\ p.t - now <= ReplayWindow
  /\ "current" \in p.sigs
(* Plaid and Stripe have code of their own for the same scheme.            *)
VerifyPlaidSignature(p) == VerifyWebhookSignature(p)
VerifyStripeSignature(p) == VerifyWebhookSignature(p)

WebhookTypeOK ==
  /\ deployed \in Deployments /\ now \in 0..MaxTime /\ restarts \in 0..MaxRestarts
  /\ byInquiry \in [Inquiries -> Sessions \cup {None}]
  /\ \A s \in Sessions : bySession[s] = None \/ bySession[s].inquiry \in Inquiries
  /\ hpc \in [Handlers -> {"idle", "bind", "put", "record"}]
  /\ \A h \in Handlers : hpc[h] # "idle" => call[h].s \in Sessions
  /\ \A i \in Inquiries : byInquiry[i] # None => owner[i] # None
  /\ recorded \subseteq Sessions \X Inquiries \X (0..MaxTime)

WebhookInit ==
  /\ deployed \in Deployments /\ now = 0 /\ restarts = 0
  /\ byInquiry = [i \in Inquiries |-> None]
  /\ bySession = [s \in Sessions |-> None]
  /\ hpc = [h \in Handlers |-> "idle"] /\ call = [h \in Handlers |-> None]
  /\ recorded = {} /\ forgot = {}
  /\ owner = [i \in Inquiries |-> None] /\ said = [i \in Inquiries |-> {}]
  /\ posts = {} /\ acked = {}

Goes(h, step, carries) ==
  hpc' = [hpc EXCEPT ![h] = step] /\ call' = [call EXCEPT ![h] = carries]
Returns(h) == Goes(h, "idle", None)
(* A request to a shared store may fail, without its effect.               *)
CanFail == NewResultStoreFromEnv # "memory"

-----------------------------------------------------------------------------
(* BeginCeremony: create the inquiry, then bind it.                        *)
BeginCeremony(h, s, i) ==
  /\ hpc[h] = "idle" /\ owner[i] = None
  /\ owner' = [owner EXCEPT ![i] = s]
  /\ Goes(h, "bind", [s |-> s, i |-> i])
  /\ UNCHANGED <<deployed, now, restarts, storeVars, recorded, said, posts, acked, forgot>>
CreateInquiry(h, s, i) ==
  deployed.method = "government-id-liveness" /\ BeginCeremony(h, s, i)
CreateLinkSession(h, s, i) ==
  deployed.method = "plaid-bank-link" /\ BeginCeremony(h, s, i)
CreateSetupIntent(h, s, i) ==
  deployed.method = "paid-billing-card" /\ BeginCeremony(h, s, i)
PutInquiry(h) ==
  /\ hpc[h] = "bind"
  /\ \/ byInquiry' = [byInquiry EXCEPT ![call[h].i] = call[h].s]
     \/ CanFail /\ UNCHANGED byInquiry
  /\ Returns(h)
  /\ UNCHANGED <<deployed, now, restarts, bySession, recorded, vendorVars, forgot>>

-----------------------------------------------------------------------------
(* The vendor, and the network.                                            *)
Emit(i, e) ==
  /\ owner[i] # None /\ e \in Events \ said[i] /\ Cardinality(said[i]) < deployed.events
  /\ said' = [said EXCEPT ![i] = @ \cup {e}]
  /\ posts' = posts \cup {Post(i, e, {"current", "other"})}
  /\ UNCHANGED <<deployed, now, restarts, storeVars, hpc, call, recorded, owner, acked, forgot>>
(* A post that was not answered with 200 is signed and sent again.         *)
Resend(i, e) ==
  /\ e \in said[i] /\ <<i, e>> \notin acked
  /\ posts' = posts \cup {Post(i, e, {"current"})}
  /\ UNCHANGED <<deployed, now, restarts, storeVars, hpc, call, recorded, owner, said,
                 acked, forgot>>
(* Anybody may post, without the secret.                                   *)
PostsByOthers == {Post(i, e, {"other"}) : i \in Inquiries, e \in Events}
(* The session a post names: Persona may leave it out, Stripe echoes it;   *)
(* in a post of others it is any.                                          *)
Refs(p) ==
  CASE "current" \notin p.sigs -> Sessions
    [] deployed.method = "government-id-liveness" -> {owner[p.inquiry], None}
    [] deployed.method = "plaid-bank-link" -> {None}
    [] deployed.method = "paid-billing-card" -> {owner[p.inquiry]}

-----------------------------------------------------------------------------
(* The handlers of a post: each finds the session the post is about, from  *)
(* what the post names (ref) and from the binding, if it is there.         *)
Bound(p, found) == IF found THEN byInquiry[p.inquiry] ELSE None
PersonaSession(p, ref, found) == IF ref # None THEN ref ELSE Bound(p, found)
(* Mutation: the binding is looked up by another id of the vendor's.       *)
ByOtherId(p, found) == None
PlaidSession(p, found) == Bound(p, found)
StripeSession(p, ref, found) == IF Bound(p, found) # None THEN Bound(p, found) ELSE ref

Founds == IF CanFail THEN BOOLEAN ELSE {TRUE}
(* The session is known, otherwise the answer is 404.                      *)
Accept(h, p, s) ==
  /\ s # None
  /\ Goes(h, "put", [s |-> s, i |-> p.inquiry, e |-> p.event, at |-> now])
  /\ UNCHANGED <<deployed, now, restarts, storeVars, recorded, vendorVars, forgot>>
(* Plaid and Stripe events that decide nothing are answered and dropped.   *)
Drop(h, p) ==
  /\ StatusOf(p.event) = "" /\ acked' = acked \cup {<<p.inquiry, p.event>>}
  /\ UNCHANGED <<deployed, now, restarts, storeVars, hpc, call, recorded, owner, said, posts,
                 forgot>>
PersonaWebhook(h, p) ==
  /\ hpc[h] = "idle" /\ deployed.method = "government-id-liveness"
  /\ VerifyWebhookSignature(p)
  /\ \E ref \in Refs(p), found \in Founds : Accept(h, p, PersonaSession(p, ref, found))
PlaidWebhook(h, p) ==
  /\ hpc[h] = "idle" /\ deployed.method = "plaid-bank-link" /\ VerifyPlaidSignature(p)
  /\ \/ Drop(h, p)
     \/ /\ StatusOf(p.event) # ""
        /\ \E found \in Founds : Accept(h, p, PlaidSession(p, found))
StripeWebhook(h, p) ==
  /\ hpc[h] = "idle" /\ deployed.method = "paid-billing-card" /\ VerifyStripeSignature(p)
  /\ \/ Drop(h, p)
     \/ /\ StatusOf(p.event) # ""
        /\ \E ref \in Refs(p), found \in Founds : Accept(h, p, StripeSession(p, ref, found))
Webhook(h, p) == PersonaWebhook(h, p) \/ PlaidWebhook(h, p) \/ StripeWebhook(h, p)
(* PutResult: the last post to be handled wins.  A failure is answered     *)
(* with 500, and the vendor tries again.                                   *)
PutResult(h) ==
  /\ hpc[h] = "put"
  /\ \/ /\ bySession' = [bySession EXCEPT ![call[h].s] =
             [inquiry |-> call[h].i, status |-> StatusOf(call[h].e), at |-> call[h].at]]
        /\ acked' = acked \cup {<<call[h].i, call[h].e>>}
     \/ CanFail /\ UNCHANGED <<bySession, acked>>
  /\ Returns(h)
  /\ UNCHANGED <<deployed, now, restarts, byInquiry, recorded, owner, said, posts, forgot>>

(* CompleteCeremony: the client polls; only an approval is recorded.       *)
GetResult(h, s) ==
  /\ hpc[h] = "idle" /\ bySession[s] # None /\ bySession[s].status = "approved"
  /\ Goes(h, "record", [s |-> s, result |-> bySession[s]])
  /\ UNCHANGED <<deployed, now, restarts, storeVars, recorded, vendorVars, forgot>>
CompleteGovernmentID(h, s) == deployed.method = "government-id-liveness" /\ GetResult(h, s)
CompleteBankLink(h, s) == deployed.method = "plaid-bank-link" /\ GetResult(h, s)
CompleteCard(h, s) == deployed.method = "paid-billing-card" /\ GetResult(h, s)
recordVerified(h) ==
  /\ hpc[h] = "record"
  /\ recorded' = recorded \cup
       {<<call[h].s, call[h].result.inquiry, call[h].result.at>>}
  /\ Returns(h)
  /\ UNCHANGED <<deployed, now, restarts, storeVars, vendorVars, forgot>>

-----------------------------------------------------------------------------
(* The process restarts: requests under way are lost, and its memory.      *)
Restart ==
  /\ restarts < MaxRestarts /\ restarts' = restarts + 1
  /\ hpc' = [h \in Handlers |-> "idle"] /\ call' = [h \in Handlers |-> None]
  /\ IF NewResultStoreFromEnv = "memory"
     THEN /\ byInquiry' = [i \in Inquiries |-> None]
          /\ bySession' = [s \in Sessions |-> None]
          /\ forgot' = Sessions
     ELSE UNCHANGED <<storeVars, forgot>>
  /\ UNCHANGED <<deployed, now, recorded, vendorVars>>
Tick ==
  /\ now < MaxTime /\ now' = now + 1
  /\ UNCHANGED <<deployed, restarts, storeVars, hpc, call, recorded, vendorVars, forgot>>

Begins(h) == \E s \in Sessions, i \in Inquiries :
  CreateInquiry(h, s, i) \/ CreateLinkSession(h, s, i) \/ CreateSetupIntent(h, s, i)
Steps(h) == PutInquiry(h) \/ PutResult(h) \/ recordVerified(h)
WebhookNext ==
  \/ \E h \in Handlers : Begins(h) \/ Steps(h)
  \/ \E h \in Handlers, p \in posts \cup PostsByOthers : Webhook(h, p)
  \/ \E h \in Handlers, s \in Sessions :
       CompleteGovernmentID(h, s) \/ CompleteBankLink(h, s) \/ CompleteCard(h, s)
  \/ \E i \in Inquiries, e \in Events : Emit(i, e) \/ Resend(i, e)
  \/ Restart \/ Tick

(* The vendor goes on posting what was not answered, posts arrive, and     *)
(* requests are served; a shared store does not fail for ever.             *)
Unanswered(i) == {e \in said[i] : <<i, e>> \notin acked}
Fairness ==
  /\ \A i \in Inquiries :
       /\ WF_webhookVars(\E e \in Unanswered(i) : Resend(i, e))
       /\ SF_webhookVars(\E h \in Handlers, p \in posts :
                    p.inquiry = i /\ p.event \in Unanswered(i) /\ Webhook(h, p))
       /\ SF_webhookVars(Unanswered(i) # {} /\ \E h \in Handlers :
                    PutResult(h) /\ Unanswered(i)' # Unanswered(i))
  /\ WF_webhookVars(\E h \in Handlers : Steps(h))
WebhookSpec == WebhookInit /\ [][WebhookNext]_webhookVars /\ Fairness

-----------------------------------------------------------------------------
(* A session carries a verdict only from an inquiry made for it, which the *)
(* vendor itself reported approved, whoever posts what and in whichever    *)
(* order (NewWebhookHandler).                                              *)
VerifiedWasApproved ==
  \A r \in recorded :
    owner[r[2]] = r[1] /\ \E e \in said[r[2]] : StatusOf(e) = "approved"

(* The time of verification is the time the post was handled: no more than *)
(* ReplayWindow after the vendor sent it, although the post stays about    *)
(* (WebhookReplayWindow).                                                  *)
VerifiedWhenPosted ==
  \A r \in recorded : \E p \in posts :
    /\ p.inquiry = r[2] /\ StatusOf(p.event) = "approved"
    /\ r[3] - p.t \in 0..ReplayWindow

(* Both: a recorded verdict is the vendor's own approval, at its time.     *)
VerifiedAsApproved == VerifiedWasApproved /\ VerifiedWhenPosted

(* What the vendor decides comes through: the event is posted until it is  *)
(* handled, whether it comes before the binding or the store fails, unless *)
(* a restart made the process forget.                                      *)
DecisionArrives ==
  \A i \in Inquiries :
    (said[i] # {} /\ byInquiry[i] # None)
      ~> (Unanswered(i) = {} \/ forgot # {})
=============================================================================
