---------------------------- MODULE MCAdmission ----------------------------
(***************************************************************************)
(* Policy files for TLC as they are in policies/, with one slip each an    *)
(* editor could make, and cards that fit them or miss by one field.        *)
(***************************************************************************)
EXTENDS Admission, TLC

Authority == [system |-> "control_harness", writeback |-> "forbidden"]

\* As it is; with a data class opened to the cloud; with a provider forgotten.
ProperProviders ==
  [local_model |-> DataClassification \ {"secret"},
   subscription_oauth |-> {"internal", "confidential_cloud_approved"},
   api_metered |-> {}]

ProviderRules ==
  {ProperProviders,
   [ProperProviders EXCEPT !.subscription_oauth = @ \cup {"confidential_local"}],
   [local_model |-> ProperProviders.local_model,
    subscription_oauth |-> ProperProviders.subscription_oauth]}

\* As it is; with a class too many; with an unverified model; with the worker's
\* model metered.
ProperModels ==
  [deterministic_monitor |->
     [provider |-> "local_model", verified |-> TRUE,
      allowed |-> DataClassification \ {"secret"}],
   anthropic_oauth_reasoner |->
     [provider |-> "subscription_oauth", verified |-> TRUE,
      allowed |-> {"internal", "confidential_cloud_approved"}]]

Catalogs ==
  {ProperModels,
   [ProperModels EXCEPT !.anthropic_oauth_reasoner.allowed = @ \cup {"confidential_local"}],
   [ProperModels EXCEPT !.anthropic_oauth_reasoner.verified = FALSE],
   [ProperModels EXCEPT !.anthropic_oauth_reasoner =
      [provider |-> "api_metered", verified |-> TRUE, allowed |-> {}]]}

\* As it is; with the route of a class emptied; with the executor exchanged.
ProperRouting ==
  [docs_change |-> [executor |-> "hermes_local_builder",
                    route |-> <<"anthropic_oauth_reasoner">>],
   read_only_monitor |-> [executor |-> "hermes_nas_operator",
                          route |-> <<"deterministic_monitor">>]]

Routings ==
  {ProperRouting,
   [ProperRouting EXCEPT !.docs_change.route = <<>>],
   [ProperRouting EXCEPT !.docs_change.executor = "hermes_nas_operator"]}

Executors ==
  [hermes_local |-> [classes |-> {"docs_change"}, data |-> DataClassification \ {"secret"},
                     aliases |-> {"hermes_local_builder", "hermes_local_reviewer"}],
   hermes_nas |-> [classes |-> {"read_only_monitor"}, data |-> {"internal"},
                   aliases |-> {"hermes_nas_operator"}]]

\* As they are; with a second approval; with a class forgotten.
ProperApprovals == [docs_change |-> {"merge_main"}, read_only_monitor |-> {}]

ApprovalRules ==
  {ProperApprovals,
   [ProperApprovals EXCEPT !.docs_change = @ \cup {"deploy"}],
   [read_only_monitor |-> {}]}

Bundle(authority, providers, models, routing, approvals) ==
  [authority |-> authority, classifications |-> DataClassification,
   providers |-> providers, models |-> models, executors |-> Executors,
   routing |-> routing, approvals |-> approvals]

\* One file is edited, or the two that have to agree.
EditedBundles ==
  {Bundle(Authority, p, m, ProperRouting, ProperApprovals) :
     p \in ProviderRules, m \in Catalogs}
  \cup {Bundle(Authority, ProperProviders, ProperModels, r, ProperApprovals) : r \in Routings}
  \cup {Bundle(Authority, ProperProviders, ProperModels, ProperRouting, a) :
           a \in ApprovalRules}
  \cup {Bundle([Authority EXCEPT !.writeback = "allowed"], ProperProviders, ProperModels,
               ProperRouting, ProperApprovals)}

DocsCard ==
  [role |-> "hermes_local", class |-> "docs_change", data |-> "internal",
   route |-> <<"anthropic_oauth_reasoner">>,
   permitted |-> {"local_model", "subscription_oauth"}, approvals |-> {"merge_main"}]

MonitorCard ==
  [role |-> "hermes_nas", class |-> "read_only_monitor", data |-> "internal",
   route |-> <<"deterministic_monitor">>, permitted |-> {"local_model"}, approvals |-> {}]

\* Cards as they should be, and with one field changed.
SubmittedCards ==
  {DocsCard, MonitorCard}
  \cup {[DocsCard EXCEPT !.data = d] : d \in {"confidential_local", "secret"}}
  \cup {[DocsCard EXCEPT !.approvals = a] : a \in {{}, {"merge_main", "deploy"}}}
  \cup {[DocsCard EXCEPT !.route = <<>>], [DocsCard EXCEPT !.permitted = {"local_model"}],
        [DocsCard EXCEPT !.role = "hermes_nas"],
        [MonitorCard EXCEPT !.class = "docs_change"]}

Symmetry == Permutations(Conns)

=============================================================================
