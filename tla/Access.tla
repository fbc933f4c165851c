------------------------------- MODULE Access -------------------------------
(***************************************************************************)
(* Who may call what once authentication is on (src/harness/auth.py): two  *)
(* principals, each with a token in a file that is read again for every    *)
(* request, and a scope for every operation of the API.                    *)
(***************************************************************************)
EXTENDS Naturals, Sequences

\* _PRINCIPAL_SPECS, in the order in which the tokens are compared.
Principals == <<"svc-panda-orchestrator", "svc-hermes-nas">>

Scopes(principal) ==
  CASE principal = "svc-panda-orchestrator" ->
         {"tasks:create", "tasks:read", "operations:read"}
    [] principal = "svc-hermes-nas" ->
         {"tasks:read", "tasks:claim", "tasks:heartbeat", "tasks:receipt"}

\* The operations behind the routes under /v1/.
required_scope(operation) ==
  CASE operation = "create_task" -> "tasks:create"
    [] operation = "get_task"    -> "tasks:read"
    [] operation = "claim"       -> "tasks:claim"
    [] operation = "heartbeat"   -> "tasks:heartbeat"
    [] operation \in {"submit_receipt", "report_failure"} -> "tasks:receipt"
    [] operation \in {"cockpit", "metrics", "resilience", "projection", "trace"} ->
         "operations:read"
    [] operation \in {"expire_leases", "release_due_retries"} -> "maintenance:write"
    [] operation = "request_approval" -> "approvals:request"
    [] operation = "decide_approval"  -> "approvals:decide"

\* A token is a principal and a number that grows with every rotation.  A file
\* that is missing or too short for a token has none.
Token(principal, n) == <<principal, n>>
NoToken == <<>>

\* Faulty: the files are read once, at the start.
authenticate_cached(files, supplied, scope) ==
  LET matching == {i \in DOMAIN Principals : supplied = Token(Principals[i], 0)
                                             \/ supplied = files[Principals[i]]}
  IN  IF matching = {} THEN 401
      ELSE IF \E i \in matching : scope \in Scopes(Principals[i]) THEN 200 ELSE 403

\* The HTTP status of the middleware: 200 stands for going on to the handler.
\* The first file that cannot be read or that matches decides; an unreadable
\* file is no authentication error but an uncaught one.
authenticate(files, supplied, scope) ==
  LET deciding == {i \in DOMAIN Principals : files[Principals[i]] \in {NoToken, supplied}}
      first == Principals[CHOOSE i \in deciding : \A j \in deciding : i <= j]
  IN  CASE deciding = {} -> 401
        [] deciding # {} /\ files[first] = NoToken -> 500
        [] deciding # {} /\ files[first] # NoToken ->
             IF scope \in Scopes(first) THEN 200 ELSE 403

=============================================================================
