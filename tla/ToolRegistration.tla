-------------------------- MODULE ToolRegistration --------------------------
(***************************************************************************)
(* The tools createMcpServer registers (src/src/tools): each register      *)
(* function tests policies in turn and returns at the first that fails, so *)
(* a tool has the set of policies that are tested before it.  Titles,      *)
(* input schemas and annotations are left out; all tools read, except for  *)
(* those in Executions.                                                    *)
(***************************************************************************)
EXTENDS Configuration

Policy(capability, mutation, dangerous) ==
  [capability |-> capability, mutation |-> mutation, dangerous |-> dangerous]

Reads(capability) == Policy(capability, FALSE, FALSE)
Executes(capability) == Policy(capability, TRUE, TRUE)

Register(tools, policies) == [tool : tools, policies : {policies}]

AuthTools == Register({"authenticate_merchant", "get_merchant_context"}, {Reads("read")})

SessionTools ==
  Register({"get_payment_session"}, {Reads("read")})
    \cup Register({"create_payment_session", "cancel_active_checkout"}, {Executes("finance")})

OrderTools ==
  Register({"get_order"}, {Reads("read")})
    \cup Register({"update_order_reference", "reauthorize_order"}, {Executes("finance")})

CaptureTools ==
  Register({"preview_capture"}, {Reads("finance")})
    \cup Register({"capture_order"}, {Reads("finance"), Executes("finance")})

RefundTools ==
  Register({"preview_refund"}, {Reads("finance")})
    \cup Register({"refund_order"}, {Reads("finance"), Executes("finance")})

\* Fault: the preview is registered with the capability of support.
ReleaseToolsMixed ==
  Register({"release_authorization"}, {Executes("finance")})
    \cup Register({"preview_release_authorization"}, {Reads("support")})

ReleaseTools ==
  Register({"preview_release_authorization"}, {Reads("finance")})
    \cup Register({"release_authorization"}, {Reads("finance"), Executes("finance")})

ReportTools ==
  Register({"list_settlement_summaries", "get_settlement_details", "get_order_report",
            "get_interest_balance", "get_interest_activity"}, {Reads("read")})

ReconciliationTools ==
  Register({"reconcile_settlement", "find_unmatched_orders", "detect_refund_mismatches",
            "detect_capture_mismatches", "detect_fee_anomalies",
            "explain_payout_difference", "generate_finance_daily_brief"},
           {Reads("finance")})

\* Ingesting a verified event is a mutation, but moves nothing at Sezzle.
WebhookTools ==
  LET ingest == Policy("webhooks", TRUE, FALSE) IN
  Register({"list_webhooks", "verify_webhook_signature", "list_webhook_events",
            "get_webhook_event", "inspect_webhook_health", "find_missing_order_events",
            "detect_out_of_order_events", "detect_duplicate_webhook_events"},
           {Reads("webhooks")})
    \cup Register({"ingest_webhook_event"}, {Reads("webhooks"), ingest})
    \cup Register({"create_webhook", "update_webhook", "delete_webhook", "send_test_webhook"},
                {Reads("webhooks"), ingest, Executes("webhooks")})

DiagnosticTools ==
  Register({"diagnose_integration", "validate_session_payload", "validate_redirect_urls",
            "audit_auth_capture_flow", "detect_stuck_authorizations",
            "detect_uncaptured_orders", "detect_duplicate_refunds",
            "test_webhook_configuration", "generate_go_live_checklist"}, {Reads("read")})

SupportTools ==
  Register({"explain_order_status_for_support", "classify_support_request",
            "draft_customer_response", "determine_safe_support_route",
            "identify_required_escalation"}, {Reads("support")})

AuditTools == Register({"list_audit_events", "get_audit_event"}, {Reads("admin")})

Registrations ==
  UNION {AuthTools, SessionTools, OrderTools, CaptureTools, RefundTools, ReleaseTools,
         ReportTools, ReconciliationTools, WebhookTools, DiagnosticTools, SupportTools,
         AuditTools}

Registered(config) ==
  {r.tool : r \in {r \in Registrations :
                    \A policy \in r.policies : ShouldRegisterTool(policy, config)}}

\* The tool whose preview each executing tool asks for: its counterpart, or itself
\* called with confirm = false.
Executions ==
  {"capture_order", "refund_order", "release_authorization", "create_payment_session",
   "cancel_active_checkout", "update_order_reference", "reauthorize_order",
   "create_webhook", "update_webhook", "delete_webhook", "send_test_webhook"}

Preparation ==
  [tool \in Executions |->
     CASE tool = "capture_order" -> "preview_capture"
       [] tool = "refund_order" -> "preview_refund"
       [] tool = "release_authorization" -> "preview_release_authorization"
       [] OTHER -> tool]

=============================================================================
