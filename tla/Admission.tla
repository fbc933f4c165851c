----------------------------- MODULE Admission -----------------------------
(***************************************************************************)
(* How a task comes into being: POST /v1/tasks (src/harness/app.py), the   *)
(* policy it enforces (src/harness/policy.py) and the insertion            *)
(* (create_task of src/harness/store.py), with clients that submit and     *)
(* resubmit cards over several connections at the same time, and five      *)
(* policy files that are edited one by one and loaded together when the    *)
(* API starts.  A task stays as it was admitted when the policy changes;   *)
(* of its later life there is only what decides whether a human has a say. *)
(***************************************************************************)
EXTENDS Access, FiniteSets

CONSTANTS
  Bundles,    \* the contents of the policy files, edited well or badly
  Cards,      \* cards clients submit
  Keys,       \* values of idempotency_key
  Conns,      \* requests of POST /v1/tasks that may be under way at once
  None,
  MaxDeploys  \* bound: changes of the policy files

ASSUME AdmissionAssumption == MaxDeploys \in Nat

DataClassification ==
  {"internal", "confidential_local", "confidential_cloud_approved", "secret"}

ProviderClass == {"local_model", "subscription_oauth", "api_metered"}

VARIABLES
  bundle,  \* the policies the API has loaded
  rows,    \* for each key the committed rows of agent_tasks with that key: card,
           \* status, and as a history the bundle a task was admitted under and
           \* whether a human approved its result
  conns,   \* what each request is doing
  deploys  \* number of changes, for the bound

admissionVars == <<bundle, rows, conns, deploys>>

-----------------------------------------------------------------------------
(* assert_task_allowed.  A bundle has                                      *)
(*   authority: the authoritative system and PandaOS' runtime writeback,   *)
(*   classifications: the data classes described,                          *)
(*   providers: provider class -> data classes it may see,                 *)
(*   models: model -> provider class, verified, allowed data classes,      *)
(*   executors: role -> task classes, data classes, routing aliases,       *)
(*   routing: task class -> executor alias and route,                      *)
(*   approvals: task class -> required approval actions.                   *)
(* A key that is missing in a file is missing from its domain.             *)

AuthorityHolds(b) ==
  b.authority = [system |-> "control_harness", writeback |-> "forbidden"]

DataPolicyComplete(b) ==
  b.classifications = DataClassification /\ DOMAIN b.providers = ProviderClass

\* Faulty: the catalog only has to know its provider classes.
CatalogAgreesLoosely(b) ==
  \A m \in DOMAIN b.models : b.models[m].provider \in DOMAIN b.providers

\* What the catalog says of a model is what the data policy says of its
\* provider class.
CatalogAgrees(b) ==
  \A m \in DOMAIN b.models :
    /\ b.models[m].provider \in DOMAIN b.providers
    /\ b.models[m].allowed = b.providers[b.models[m].provider]

ExecutorMay(card, b) ==
  /\ card.role \in DOMAIN b.executors
  /\ card.class \in b.executors[card.role].classes
  /\ card.data \in b.executors[card.role].data

RouteIsCentral(card, b) ==
  /\ card.class \in DOMAIN b.routing
  /\ b.routing[card.class].executor \in b.executors[card.role].aliases
  /\ card.route = b.routing[card.class].route

\* Faulty: the subset is the wrong way round.
ApprovalsAskedReversed(card, b) ==
  card.class \in DOMAIN b.approvals /\ card.approvals \subseteq b.approvals[card.class]

ApprovalsAsked(card, b) ==
  card.class \in DOMAIN b.approvals /\ b.approvals[card.class] \subseteq card.approvals

\* assert_route_allowed.
RouteAllowed(card, b) ==
  /\ card.route # <<>>
  /\ \A i \in DOMAIN card.route :
       LET m == card.route[i]
       IN  /\ m \in DOMAIN b.models
           /\ b.models[m].provider # "api_metered" /\ b.models[m].verified
           /\ b.models[m].provider \in card.permitted
           /\ card.data \in b.models[m].allowed

assert_task_allowed(card, b) ==
  /\ AuthorityHolds(b) /\ DataPolicyComplete(b) /\ CatalogAgrees(b)
  /\ card.data # "secret"
  /\ ExecutorMay(card, b) /\ RouteIsCentral(card, b) /\ ApprovalsAsked(card, b)
  /\ RouteAllowed(card, b)

-----------------------------------------------------------------------------
(* Requests.                                                               *)

\* at: "insert", its INSERT has started; "inserted", it has inserted its row but
\* not committed it; "conflict", its INSERT did nothing; "answered"; "lost",
\* create_task raises "idempotency conflict lost the existing row".
\* saw: the cards of its key when the INSERT started, or the card of the answer.
Idle == [at |-> "idle", key |-> None, card |-> None, under |-> None, saw |-> <<>>]

CardsOf(k) == [i \in DOMAIN rows[k] |-> rows[k][i].card]

\* The tokens are those of the deployment; NasPilot rotates them.
TokenFiles == [p \in {Principals[i] : i \in DOMAIN Principals} |-> Token(p, 0)]

AdmissionInit ==
  /\ bundle \in Bundles
  /\ rows = [k \in Keys |-> <<>>]
  /\ conns = [c \in Conns |-> Idle]
  /\ deploys = 0

\* The middleware and the policy let the card through, and its INSERT starts.
Submit(c, supplied, k, card) ==
  /\ conns[c].at = "idle"
  /\ authenticate(TokenFiles, supplied, required_scope("create_task")) = 200
  /\ assert_task_allowed(card, bundle)
  /\ conns' = [conns EXCEPT ![c] = [at |-> "insert", key |-> k, card |-> card,
                                    under |-> bundle, saw |-> CardsOf(k)]]
  /\ UNCHANGED <<bundle, rows, deploys>>

\* Faulty: no unique index on idempotency_key.
MayInsertAlways(c) == TRUE

\* UNIQUE (idempotency_key): an INSERT waits for an open one of the same key.
MayInsert(c) ==
  \A d \in Conns \ {c} : conns[d].at = "inserted" => conns[d].key # conns[c].key

\* INSERT ... ON CONFLICT (idempotency_key) DO NOTHING.
Insert(c) ==
  /\ conns[c].at = "insert" /\ MayInsert(c)
  /\ conns' = [conns EXCEPT ![c].at = IF rows[conns[c].key] = <<>> THEN "inserted"
                                                                   ELSE "conflict"]
  /\ UNCHANGED <<bundle, rows, deploys>>

\* The row, its event and the commit; the client is told of its own task.
CommitInsert(c) ==
  /\ conns[c].at = "inserted"
  /\ rows' = [rows EXCEPT
                ![conns[c].key] = Append(@, [card |-> conns[c].card, status |-> "ready",
                                             under |-> conns[c].under, approved |-> FALSE])]
  /\ conns' = [conns EXCEPT ![c].at = "answered", ![c].saw = <<conns[c].card>>]
  /\ UNCHANGED <<bundle, deploys>>

\* Faulty: INSERT and SELECT are one statement, with one snapshot.
FoundAtStart(c) == conns[c].saw

\* The SELECT is a statement of its own and sees what is committed by now.
Found(c) == CardsOf(conns[c].key)

\* SELECT ... WHERE idempotency_key, after an INSERT that did nothing.
SelectExisting(c) ==
  /\ conns[c].at = "conflict"
  /\ conns' = [conns EXCEPT
                ![c] = IF Found(c) = <<>> THEN [@ EXCEPT !.at = "lost"]
                       ELSE [@ EXCEPT !.at = "answered", !.saw = <<Found(c)[1]>>]]
  /\ UNCHANGED <<bundle, rows, deploys>>

\* The request is over: it has been answered, or its connection to the database
\* breaks and whatever it inserted is rolled back.
Finish(c) ==
  /\ conns[c].at # "idle"
  /\ conns' = [conns EXCEPT ![c] = Idle]
  /\ UNCHANGED <<bundle, rows, deploys>>

\* The API is started again, perhaps after some policy files have changed.  Its
\* requests are gone, but for a COMMIT that is already on its way.
Deploy(b) ==
  /\ b = bundle \/ deploys < MaxDeploys
  /\ deploys' = IF b = bundle THEN deploys ELSE deploys + 1
  /\ bundle' = b
  /\ conns' = [c \in Conns |-> IF conns[c].at = "inserted" THEN conns[c] ELSE Idle]
  /\ UNCHANGED rows

-----------------------------------------------------------------------------
(* What becomes of a task, as far as it concerns its approval; TaskStore   *)
(* has the rest.                                                           *)

\* submit_receipt of a run that is completed looks at the stored card.
Complete(k, i) ==
  /\ rows[k][i].status = "ready"
  /\ rows' = [rows EXCEPT ![k][i].status =
                IF rows[k][i].card.approvals # {} THEN "review" ELSE "done"]
  /\ UNCHANGED <<bundle, conns, deploys>>

\* request_approval and decide_approval.
Decide(k, i, decision) ==
  /\ rows[k][i].status = "review"
  /\ rows' = [rows EXCEPT
                ![k][i] = [@ EXCEPT
                  !.status = IF decision = "approved" THEN "done" ELSE "blocked",
                  !.approved = (decision = "approved")]]
  /\ UNCHANGED <<bundle, conns, deploys>>

AdmissionNext ==
  \/ \E c \in Conns :
       \/ \E p \in DOMAIN TokenFiles, n \in 0..1, k \in Keys, card \in Cards :
            Submit(c, Token(p, n), k, card)
       \/ Insert(c) \/ CommitInsert(c) \/ SelectExisting(c) \/ Finish(c)
  \/ \E b \in Bundles : Deploy(b)
  \/ \E k \in Keys : \E i \in DOMAIN rows[k] :
       Complete(k, i) \/ \E decision \in {"approved", "rejected"} : Decide(k, i, decision)

AdmissionSpec == AdmissionInit /\ [][AdmissionNext]_admissionVars

-----------------------------------------------------------------------------
(* Properties.                                                             *)

Admitted == UNION {{rows[k][i] : i \in DOMAIN rows[k]} : k \in Keys}

Models(card) == {card.route[i] : i \in DOMAIN card.route}

\* data-classification.yaml: the data of a task reaches only provider classes
\* that the data policy opens to its class, whatever the model catalog says,
\* never a metered one, and secrets reach none.
DataStaysInItsProviders ==
  \A e \in Admitted : \A m \in Models(e.card) :
    LET provider == e.under.models[m].provider
    IN  /\ e.card.data \in e.under.providers[provider]
        /\ provider # "api_metered" /\ e.card.data # "secret"

\* However many requests submit a card at once, and whichever of them or of the
\* API's processes is lost on the way, a key never has two tasks.
KeyHasOneTask == \A k \in Keys : Len(rows[k]) <= 1

\* Every client that gets an answer is told of the one task that is in the
\* store, with the card it was first admitted with; none is told that the task
\* is lost (store.py:434).
AnswersNameTheTask ==
  \A c \in Conns :
    /\ conns[c].at # "lost"
    /\ conns[c].at = "answered" => conns[c].saw = CardsOf(conns[c].key)

\* A task whose class required an approval when it was admitted is not done
\* before a human has approved its result.  The policy is not asked again: all
\* depends on the card, which the client wrote and a receipt only reads.
HumansDecide ==
  \A e \in Admitted :
    e.under.approvals[e.card.class] # {} /\ e.status = "done" => e.approved

=============================================================================
