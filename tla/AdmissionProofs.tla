-------------------------- MODULE AdmissionProofs --------------------------
(***************************************************************************)
(* What admission guarantees for every content of the policy files, every  *)
(* card and any number of requests.                                        *)
(*                                                                         *)
(* The inductive invariant has two parts.  A row passed the check under    *)
(* the bundle it was admitted under, and is done only without approvals    *)
(* on its card or with one given.  And of the requests for a key, one at   *)
(* most has inserted a row it has not committed, and only while there is   *)
(* no other; whose INSERT did nothing finds a row.                         *)
(***************************************************************************)
EXTENDS Admission, TLAPS

Entry == [card : Cards, status : {"ready", "review", "done", "blocked"},
          under : Bundles, approved : BOOLEAN]

Request == [at : {"idle", "insert", "inserted", "conflict", "answered", "lost"},
            key : Keys \cup {None}, card : Cards \cup {None},
            under : Bundles \cup {None}, saw : Seq(Cards)]

\* A row as it was admitted, and as far as it has come.
Lawful(e) ==
  /\ assert_task_allowed(e.card, e.under)
  /\ e.status = "done" => e.card.approvals = {} \/ e.approved

\* The rows and the requests, and at most one row per key.
Typed ==
  /\ bundle \in Bundles
  /\ rows \in [Keys -> {<<>>} \cup {<<e>> : e \in Entry}]
  /\ conns \in [Conns -> Request]

\* What a request knows about its key.
RequestOK(c) ==
  /\ conns[c].at # "idle" => conns[c].key \in Keys
  /\ conns[c].at \in {"insert", "inserted"} =>
       /\ conns[c].card \in Cards /\ conns[c].under \in Bundles
       /\ assert_task_allowed(conns[c].card, conns[c].under)
  /\ conns[c].at = "inserted" => rows[conns[c].key] = <<>>
  /\ conns[c].at = "conflict" => rows[conns[c].key] # <<>>
  /\ conns[c].at = "answered" => /\ rows[conns[c].key] # <<>>
                                 /\ conns[c].saw = CardsOf(conns[c].key)
  /\ conns[c].at # "lost"

\* Two requests do not both have an open row of one key.
OneInserts ==
  \A c, d \in Conns : c # d /\ conns[c].at = "inserted" /\ conns[d].at = "inserted"
    => conns[c].key # conns[d].key

\* The inductive invariant.
AdmissionInv ==
  /\ Typed /\ OneInserts
  /\ \A k \in Keys : \A e \in Entry : rows[k] = <<e>> => Lawful(e)
  /\ \A c \in Conns : RequestOK(c)

-----------------------------------------------------------------------------
(* Sequences of one element.                                               *)

LEMMA Single ==
  ASSUME NEW e
  PROVE  /\ DOMAIN <<e>> = {1} /\ <<e>>[1] = e /\ <<e>> # <<>> /\ Len(<<e>>) = 1
         /\ Append(<<>>, e) = <<e>> /\ \A f : <<e>> = <<f>> => e = f
OBVIOUS

LEMMA SingleExcept ==
  ASSUME NEW e, NEW f
  PROVE  [<<e>> EXCEPT ![1] = f] = <<f>>
OBVIOUS

\* What a row of one key is,
LEMMA RowOf ==
  ASSUME Typed, NEW k \in Keys
  PROVE  rows[k] = <<>> \/ \E e \in Entry : rows[k] = <<e>>
BY DEF Typed

\* and its cards.
LEMMA CardsOfOne ==
  ASSUME NEW k, NEW e, rows[k] = <<e>>
  PROVE  CardsOf(k) = <<e.card>>
<1>1. CardsOf(k) = [i \in {1} |-> e.card]
  BY Single DEF CardsOf
<1>2. [i \in {1} |-> e.card] = <<e.card>>
  OBVIOUS
<1> QED
  BY <1>1, <1>2

LEMMA CardsOfType ==
  ASSUME Typed, NEW k \in Keys
  PROVE  CardsOf(k) \in Seq(Cards) /\ (rows[k] # <<>> => CardsOf(k) # <<>>)
<1>1. CASE rows[k] = <<>>
  <2>1. CardsOf(k) = [i \in {} |-> rows[k][i].card]
    BY <1>1 DEF CardsOf
  <2>2. CardsOf(k) = <<>>
    BY <2>1
  <2> QED
    BY <1>1, <2>2
<1>2. ASSUME NEW e \in Entry, rows[k] = <<e>>
      PROVE  CardsOf(k) \in Seq(Cards) /\ CardsOf(k) # <<>>
  <2>1. <<e.card>> \in Seq(Cards) /\ <<e.card>> # <<>>
    BY Single DEF Entry
  <2>2. CardsOf(k) = <<e.card>>
    BY <1>2, CardsOfOne
  <2> QED
    BY <2>1, <2>2
<1> QED
  BY <1>1, <1>2, RowOf

LEMMA IdleRequest == Idle \in Request /\ Idle.at = "idle"
BY DEF Idle, Request

-----------------------------------------------------------------------------
(* Steps.                                                                  *)

\* A request that is as it was, while the rows of its key are, stays in order.
LEMMA Untouched ==
  ASSUME NEW c \in Conns, RequestOK(c), conns'[c] = conns[c],
         conns[c].at # "idle" => rows'[conns[c].key] = rows[conns[c].key]
  PROVE  RequestOK(c)'
BY DEF RequestOK, CardsOf

\* An idle request is in order.
LEMMA IdleOK ==
  ASSUME NEW c \in Conns, conns'[c] = Idle
  PROVE  RequestOK(c)'
BY IdleRequest DEF RequestOK

\* A request that moves on without a commit leaves the rest in order.
LEMMA RequestMoves ==
  ASSUME AdmissionInv, NEW c \in Conns, NEW r \in Request,
         conns' = [conns EXCEPT ![c] = r], UNCHANGED <<bundle, rows>>,
         RequestOK(c)',
         r.at = "inserted" => \A d \in Conns \ {c} :
           conns[d].at = "inserted" => conns[d].key # r.key
  PROVE  AdmissionInv'
<1>1. conns'[c] = r /\ \A d \in Conns \ {c} : conns'[d] = conns[d]
  BY DEF AdmissionInv, Typed
<1>2. Typed'
  BY DEF AdmissionInv, Typed
<1>3. OneInserts'
  BY <1>1 DEF AdmissionInv, OneInserts
<1>4. \A d \in Conns : RequestOK(d)'
  BY <1>1, Untouched DEF AdmissionInv
<1> QED
  BY <1>2, <1>3, <1>4 DEF AdmissionInv

\* The start of an INSERT,
LEMMA SubmitKeeps ==
  ASSUME AdmissionInv, NEW c \in Conns, NEW supplied, NEW k \in Keys, NEW card \in Cards,
         Submit(c, supplied, k, card)
  PROVE  AdmissionInv'
<1> DEFINE r == [at |-> "insert", key |-> k, card |-> card, under |-> bundle,
                 saw |-> CardsOf(k)]
<1>1. r \in Request
  <2>1. CardsOf(k) \in Seq(Cards) /\ bundle \in Bundles
    BY CardsOfType DEF AdmissionInv, Typed
  <2> QED
    BY <2>1 DEF Request
<1>2. /\ conns' = [conns EXCEPT ![c] = r] /\ UNCHANGED <<bundle, rows>>
      /\ assert_task_allowed(card, bundle) /\ bundle \in Bundles
  BY DEF Submit, AdmissionInv, Typed
<1>3. /\ r.at = "insert" /\ r.key = k /\ r.card = card /\ r.under = bundle
  OBVIOUS
<1> HIDE DEF r
<1>4. conns'[c] = r
  BY <1>2 DEF AdmissionInv, Typed
<1>5. RequestOK(c)'
  BY <1>2, <1>3, <1>4 DEF RequestOK
<1> QED
  BY <1>1, <1>2, <1>3, <1>5, RequestMoves

\* its end,
LEMMA InsertKeeps ==
  ASSUME AdmissionInv, NEW c \in Conns, Insert(c)
  PROVE  AdmissionInv'
<1> DEFINE at == IF rows[conns[c].key] = <<>> THEN "inserted" ELSE "conflict"
           r == [conns[c] EXCEPT !.at = at]
<1>1. conns[c] \in Request /\ conns[c].at = "insert" /\ MayInsert(c) /\ RequestOK(c)
  BY DEF Insert, AdmissionInv, Typed
<1>2. conns' = [conns EXCEPT ![c] = r] /\ UNCHANGED <<bundle, rows>>
  BY DEF Insert
<1>3. /\ r \in Request /\ r.at = at /\ r.key = conns[c].key
      /\ r.card = conns[c].card /\ r.under = conns[c].under
  BY <1>1 DEF Request
<1> HIDE DEF r
<1>4. conns'[c] = r
  BY <1>2 DEF AdmissionInv, Typed
<1>5. RequestOK(c)'
  BY <1>1, <1>2, <1>3, <1>4 DEF RequestOK
<1>6. \A d \in Conns \ {c} : conns[d].at = "inserted" => conns[d].key # r.key
  BY <1>1, <1>3 DEF MayInsert
<1> QED
  BY <1>2, <1>3, <1>5, <1>6, RequestMoves

\* the SELECT after it,
LEMMA SelectKeeps ==
  ASSUME AdmissionInv, NEW c \in Conns, SelectExisting(c)
  PROVE  AdmissionInv'
<1> DEFINE k == conns[c].key
<1>1. /\ conns[c] \in Request /\ conns[c].at = "conflict" /\ k \in Keys
      /\ rows[k] # <<>> /\ Typed
  BY DEF SelectExisting, AdmissionInv, Typed, RequestOK
<1>2. PICK e \in Entry : rows[k] = <<e>>
  BY <1>1, RowOf
<1>3. Found(c) = <<e.card>> /\ Found(c) # <<>> /\ <<Found(c)[1]>> = <<e.card>>
  BY <1>2, CardsOfOne, Single DEF Found
<1>4. <<e.card>> \in Seq(Cards)
  BY DEF Entry
<1> DEFINE r == [conns[c] EXCEPT !.at = "answered", !.saw = <<e.card>>]
<1>5. conns' = [conns EXCEPT ![c] = r] /\ UNCHANGED <<bundle, rows>>
  BY <1>3 DEF SelectExisting
<1>6. r \in Request /\ r.at = "answered" /\ r.key = k /\ r.saw = <<e.card>>
  BY <1>1, <1>4 DEF Request
<1> HIDE DEF r
<1>7. conns'[c] = r
  BY <1>5 DEF AdmissionInv, Typed
<1>8. r.saw = CardsOf(r.key)
  BY <1>2, <1>6, CardsOfOne
<1>9. RequestOK(c)'
  BY <1>1, <1>5, <1>6, <1>7, <1>8 DEF RequestOK, CardsOf
<1> QED
  BY <1>5, <1>6, <1>9, RequestMoves

\* and the end of a request keep the invariant;
LEMMA FinishKeeps ==
  ASSUME AdmissionInv, NEW c \in Conns, Finish(c)
  PROVE  AdmissionInv'
<1>1. conns' = [conns EXCEPT ![c] = Idle] /\ UNCHANGED <<bundle, rows>>
  BY DEF Finish
<1>2. conns'[c] = Idle
  BY <1>1 DEF AdmissionInv, Typed
<1> QED
  BY <1>1, <1>2, IdleOK, IdleRequest, RequestMoves

\* so does a commit: no other request has a row of the key, or an answer about
\* it, because there was none;
LEMMA CommitKeeps ==
  ASSUME AdmissionInv, NEW c \in Conns, CommitInsert(c)
  PROVE  AdmissionInv'
<1> DEFINE k == conns[c].key
           card == conns[c].card
           e == [card |-> card, status |-> "ready", under |-> conns[c].under,
                 approved |-> FALSE]
           r == [conns[c] EXCEPT !.at = "answered", !.saw = <<card>>]
<1>1. /\ conns[c] \in Request /\ conns[c].at = "inserted" /\ k \in Keys
      /\ rows[k] = <<>> /\ card \in Cards /\ conns[c].under \in Bundles
      /\ assert_task_allowed(card, conns[c].under) /\ Typed
  BY DEF CommitInsert, AdmissionInv, Typed, RequestOK
<1>1a. PICK key \in Keys : key = k
  BY <1>1
<1>2. e \in Entry /\ Lawful(e) /\ e.card = card
  BY <1>1 DEF Entry, Lawful
<1>3. r \in Request /\ r.at = "answered" /\ r.key = k /\ r.saw = <<card>>
  <2>1. <<card>> \in Seq(Cards)
    BY <1>1
  <2> QED
    BY <1>1, <2>1 DEF Request
<1>4. /\ rows' = [rows EXCEPT ![k] = Append(rows[k], e)]
      /\ conns' = [conns EXCEPT ![c] = r] /\ bundle' = bundle
  BY <1>1 DEF CommitInsert, Typed
<1> HIDE DEF e, r
<1>5. /\ rows'[k] = <<e>> /\ \A j \in Keys \ {k} : rows'[j] = rows[j]
      /\ conns'[c] = r /\ \A d \in Conns \ {c} : conns'[d] = conns[d]
  BY <1>1, <1>4, Single DEF Typed
<1>6. Typed'
  BY <1>1, <1>2, <1>3, <1>4, Single DEF Typed
<1>7. OneInserts'
  BY <1>3, <1>5 DEF AdmissionInv, OneInserts
<1>8. \A j \in Keys : \A f \in Entry : rows'[j] = <<f>> => Lawful(f)
  BY <1>2, <1>5, Single DEF AdmissionInv
<1>9. RequestOK(c)'
  <2>1. CardsOf(key)' = <<e.card>>
    <3>1. CardsOf(key)' = [i \in {1} |-> e.card]
      <4>1. rows'[key] = <<e>>
        BY <1>1a, <1>5
      <4>2. DOMAIN rows'[key] = {1} /\ rows'[key][1] = e
        BY <4>1, Single
      <4> QED
        BY <4>2 DEF CardsOf
    <3>2. [i \in {1} |-> e.card] = <<e.card>>
      OBVIOUS
    <3> QED
      BY <3>1, <3>2
  <2>2. /\ conns'[c].at = "answered" /\ conns'[c].key = key
        /\ conns'[c].saw = CardsOf(key)' /\ rows'[key] # <<>>
    BY <1>1a, <1>2, <1>3, <1>5, <2>1, Single
  <2> QED
    BY <1>1a, <2>2 DEF RequestOK, CardsOf
<1>10. ASSUME NEW d \in Conns \ {c}
       PROVE  RequestOK(d)'
  <2>1. CASE conns[d].at # "idle" /\ conns[d].key = k
    <3>1. RequestOK(d) /\ conns[d].at # "inserted"
      BY <1>1, <2>1 DEF AdmissionInv, OneInserts
    <3>2. conns[d].at \in {"insert"} /\ conns[d] \in Request
      BY <1>1, <2>1, <3>1 DEF RequestOK, Typed, Request
    <3> QED
      BY <1>5, <3>1, <3>2 DEF RequestOK
  <2>2. CASE ~(conns[d].at # "idle" /\ conns[d].key = k)
    BY <1>5, <2>2, Untouched DEF AdmissionInv, RequestOK
  <2> QED
    BY <2>1, <2>2
<1> QED
  BY <1>6, <1>7, <1>8, <1>9, <1>10 DEF AdmissionInv

\* a change of the policies, which leaves only requests about to commit;
LEMMA DeployKeeps ==
  ASSUME AdmissionInv, NEW b \in Bundles, Deploy(b)
  PROVE  AdmissionInv'
<1>1. /\ bundle' \in Bundles /\ rows' = rows
      /\ conns' = [c \in Conns |-> IF conns[c].at = "inserted" THEN conns[c] ELSE Idle]
  BY DEF Deploy
<1>2. \A c \in Conns : conns'[c] = conns[c] \/ conns'[c] = Idle
  BY <1>1
<1>3. Typed'
  BY <1>1, IdleRequest DEF AdmissionInv, Typed
<1>4. OneInserts'
  BY <1>2, IdleRequest DEF AdmissionInv, OneInserts
<1>5. \A c \in Conns : RequestOK(c)'
  BY <1>1, <1>2, Untouched, IdleOK DEF AdmissionInv
<1> QED
  BY <1>1, <1>3, <1>4, <1>5 DEF AdmissionInv

\* and the later life of a task, which leaves the card alone.
LEMMA RowMoves ==
  ASSUME AdmissionInv, NEW k \in Keys, NEW e \in Entry, rows[k] = <<e>>,
         NEW f \in Entry, Lawful(f), f.card = e.card,
         rows' = [rows EXCEPT ![k] = <<f>>], UNCHANGED <<bundle, conns>>
  PROVE  AdmissionInv'
<1>1. rows'[k] = <<f>> /\ \A j \in Keys \ {k} : rows'[j] = rows[j]
  BY DEF AdmissionInv, Typed
<1>2. Typed'
  BY DEF AdmissionInv, Typed
<1>3. OneInserts'
  BY DEF AdmissionInv, OneInserts
<1>4. \A j \in Keys : \A g \in Entry : rows'[j] = <<g>> => Lawful(g)
  BY <1>1, Single DEF AdmissionInv
<1>5. ASSUME NEW c \in Conns
      PROVE  RequestOK(c)'
  <2>1. CASE conns[c].at # "idle" /\ conns[c].key = k
    <3>1. RequestOK(c) /\ rows[k] # <<>> /\ rows'[k] # <<>>
      BY <1>1, Single DEF AdmissionInv
    <3>2. CardsOf(k) = <<e.card>> /\ CardsOf(k)' = <<f.card>>
      <4>1. DOMAIN rows'[k] = {1} /\ rows'[k][1] = f
        BY <1>1, Single
      <4>2. CardsOf(k)' = [i \in {1} |-> f.card]
        BY <4>1 DEF CardsOf
      <4>3. [i \in {1} |-> f.card] = <<f.card>>
        OBVIOUS
      <4> QED
        BY <4>2, <4>3, CardsOfOne
    <3> QED
      BY <2>1, <3>1, <3>2 DEF RequestOK
  <2>2. CASE ~(conns[c].at # "idle" /\ conns[c].key = k)
    BY <1>1, <2>2, Untouched DEF AdmissionInv, RequestOK
  <2> QED
    BY <2>1, <2>2
<1> QED
  BY <1>2, <1>3, <1>4, <1>5 DEF AdmissionInv

LEMMA CompleteKeeps ==
  ASSUME AdmissionInv, NEW k \in Keys, NEW i \in DOMAIN rows[k], Complete(k, i)
  PROVE  AdmissionInv'
<1>1. PICK e \in Entry : rows[k] = <<e>> /\ i = 1
  BY RowOf, Single DEF AdmissionInv
<1> DEFINE f == [e EXCEPT !.status = IF e.card.approvals # {} THEN "review" ELSE "done"]
<1>2. f \in Entry /\ Lawful(f) /\ f.card = e.card
  BY <1>1 DEF AdmissionInv, Entry, Lawful
<1>3. rows' = [rows EXCEPT ![k] = [rows[k] EXCEPT ![1] = f]]
  BY <1>1, Single DEF Complete, AdmissionInv, Typed
<1> HIDE DEF f
<1>4. rows' = [rows EXCEPT ![k] = <<f>>] /\ UNCHANGED <<bundle, conns>>
  <2>1. [rows[k] EXCEPT ![1] = f] = <<f>>
    BY <1>1, SingleExcept
  <2> QED
    BY <1>3, <2>1 DEF Complete
<1> QED
  BY <1>1, <1>2, <1>4, RowMoves

LEMMA DecideKeeps ==
  ASSUME AdmissionInv, NEW k \in Keys, NEW i \in DOMAIN rows[k], NEW decision,
         Decide(k, i, decision)
  PROVE  AdmissionInv'
<1>1. PICK e \in Entry : rows[k] = <<e>> /\ i = 1
  BY RowOf, Single DEF AdmissionInv
<1> DEFINE f == [e EXCEPT !.status = IF decision = "approved" THEN "done" ELSE "blocked",
                          !.approved = (decision = "approved")]
<1>2. f \in Entry /\ Lawful(f) /\ f.card = e.card
  BY <1>1 DEF AdmissionInv, Entry, Lawful
<1>3. rows' = [rows EXCEPT ![k] = [rows[k] EXCEPT ![1] = f]]
  BY <1>1, Single DEF Decide, AdmissionInv, Typed
<1> HIDE DEF f
<1>4. rows' = [rows EXCEPT ![k] = <<f>>] /\ UNCHANGED <<bundle, conns>>
  <2>1. [rows[k] EXCEPT ![1] = f] = <<f>>
    BY <1>1, SingleExcept
  <2> QED
    BY <1>3, <2>1 DEF Decide
<1> QED
  BY <1>1, <1>2, <1>4, RowMoves

\* Every reachable state satisfies the invariant.
THEOREM AdmissionInvHolds == AdmissionSpec => []AdmissionInv
<1>1. AdmissionInit => AdmissionInv
  <2> SUFFICES ASSUME AdmissionInit PROVE AdmissionInv
    OBVIOUS
  <2>1. Typed /\ OneInserts /\ \A k \in Keys : \A e \in Entry : rows[k] # <<e>>
    BY IdleRequest, Single DEF AdmissionInit, Typed, OneInserts
  <2>2. \A c \in Conns : RequestOK(c)
    BY IdleRequest DEF AdmissionInit, RequestOK
  <2> QED
    BY <2>1, <2>2 DEF AdmissionInv
<1>2. AdmissionInv /\ [AdmissionNext]_admissionVars => AdmissionInv'
  <2> SUFFICES ASSUME AdmissionInv, [AdmissionNext]_admissionVars
               PROVE  AdmissionInv'
    OBVIOUS
  <2>1. CASE \E c \in Conns :
               \/ \E p \in DOMAIN TokenFiles, n \in 0..1, k \in Keys, card \in Cards :
                    Submit(c, Token(p, n), k, card)
               \/ Insert(c) \/ CommitInsert(c) \/ SelectExisting(c) \/ Finish(c)
    BY <2>1, SubmitKeeps, InsertKeeps, CommitKeeps, SelectKeeps, FinishKeeps
  <2>2. CASE \E b \in Bundles : Deploy(b)
    BY <2>2, DeployKeeps
  <2>3. CASE \E k \in Keys : \E i \in DOMAIN rows[k] :
               Complete(k, i) \/ \E decision \in {"approved", "rejected"} : Decide(k, i, decision)
    BY <2>3, CompleteKeeps, DecideKeeps
  <2>4. CASE UNCHANGED admissionVars
    BY <2>4 DEF admissionVars, AdmissionInv, Typed, OneInserts, RequestOK, CardsOf
  <2> QED
    BY <2>1, <2>2, <2>3, <2>4 DEF AdmissionNext
<1> QED
  BY <1>1, <1>2, PTL DEF AdmissionSpec

-----------------------------------------------------------------------------
(* What follows.                                                           *)

\* A row in the store is one its key alone has, and lawful.
LEMMA AdmittedIsLawful ==
  ASSUME AdmissionInv, NEW e \in Admitted
  PROVE  Lawful(e)
<1>1. PICK k \in Keys : \E i \in DOMAIN rows[k] : e = rows[k][i]
  BY DEF Admitted
<1> QED
  BY <1>1, RowOf, Single DEF AdmissionInv

\* The data of a task reaches only providers opened to its class, whatever the
\* model catalog of a half-edited bundle says.
THEOREM DataStays == AdmissionSpec => []DataStaysInItsProviders
<1>1. AdmissionInv => DataStaysInItsProviders
  <2> SUFFICES ASSUME AdmissionInv, NEW e \in Admitted, NEW m \in Models(e.card)
               PROVE  /\ e.card.data \in e.under.providers[e.under.models[m].provider]
                      /\ e.under.models[m].provider # "api_metered"
                      /\ e.card.data # "secret"
    BY DEF DataStaysInItsProviders
  <2>1. assert_task_allowed(e.card, e.under)
    BY AdmittedIsLawful DEF Lawful
  <2>2. PICK i \in DOMAIN e.card.route : m = e.card.route[i]
    BY DEF Models
  <2> QED
    BY <2>1, <2>2 DEF assert_task_allowed, RouteAllowed, CatalogAgrees
<1> QED
  BY <1>1, AdmissionInvHolds, PTL

\* A key never has two tasks, however many requests race for it.
THEOREM KeysHaveOneTask == AdmissionSpec => []KeyHasOneTask
<1>1. AdmissionInv => KeyHasOneTask
  <2> SUFFICES ASSUME AdmissionInv, NEW k \in Keys PROVE Len(rows[k]) <= 1
    BY DEF KeyHasOneTask
  <2>1. Len(rows[k]) = 0 \/ Len(rows[k]) = 1
    BY RowOf, Single DEF AdmissionInv
  <2>2. 0 <= 1 /\ 1 <= 1
    OBVIOUS
  <2> QED
    BY <2>1, <2>2, Zenon
<1> QED
  BY <1>1, AdmissionInvHolds, PTL

\* Every answer names the one task that is in the store.
THEOREM AnswersTrue == AdmissionSpec => []AnswersNameTheTask
<1>1. AdmissionInv => AnswersNameTheTask
  BY DEF AdmissionInv, AnswersNameTheTask, RequestOK
<1> QED
  BY <1>1, AdmissionInvHolds, PTL

\* No task whose class requires an approval is done without one.
THEOREM HumansHaveTheirSay == AdmissionSpec => []HumansDecide
<1>1. AdmissionInv => HumansDecide
  <2> SUFFICES ASSUME AdmissionInv, NEW e \in Admitted,
                      e.under.approvals[e.card.class] # {}, e.status = "done"
               PROVE  e.approved
    BY DEF HumansDecide
  <2>1. assert_task_allowed(e.card, e.under) /\ (e.card.approvals = {} \/ e.approved)
    BY AdmittedIsLawful DEF Lawful
  <2>2. e.card.approvals # {}
    BY <2>1 DEF assert_task_allowed, ApprovalsAsked
  <2> QED
    BY <2>1, <2>2
<1> QED
  BY <1>1, AdmissionInvHolds, PTL

=============================================================================
