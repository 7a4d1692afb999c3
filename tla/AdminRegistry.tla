---------------------------- MODULE AdminRegistry ----------------------------
(***************************************************************************)
(* The tables of the administrator's panel: which columns its forms set,   *)
(* and whether it deletes rows.  What is shown and searched, and the       *)
(* permission each table asks for, are left out.                           *)
(***************************************************************************)

RegisterAdmin(form_fields, deletable) ==
    [form_fields |-> form_fields, deletable |-> deletable]

Registry ==
    [users |-> RegisterAdmin({"email", "username", "password", "full_name",
                              "is_active", "is_verified"}, TRUE),
     roles |-> RegisterAdmin({"name", "description"}, TRUE),
     permissions |-> RegisterAdmin({"name", "description"}, TRUE),
     tenants |-> RegisterAdmin({"name", "slug", "is_active"}, TRUE),
     audit_logs |-> RegisterAdmin({}, TRUE),
     api_keys |-> RegisterAdmin({"name", "user_id", "is_active", "scopes", "expires_at"}, TRUE),
     notification_preferences |->
        RegisterAdmin({"user_id", "email_enabled", "in_app_enabled", "webhook_enabled"}, TRUE),
     notifications |-> RegisterAdmin({"user_id", "event_type", "title", "body", "is_read"}, TRUE),
     files |-> RegisterAdmin({}, TRUE),
     plans |-> RegisterAdmin({"name", "slug", "description", "price_cents", "currency",
                              "interval", "trial_days", "is_active", "metering"}, TRUE),
     subscriptions |-> RegisterAdmin({"plan_id", "trial_end", "cancel_at_period_end",
                                      "pending_plan_id", "stripe_subscription_id"}, FALSE),
     invoices |-> RegisterAdmin({"currency"}, FALSE),
     invoice_lines |-> RegisterAdmin({}, FALSE),
     stripe_events |-> RegisterAdmin({}, FALSE)]

\* _coerce_value: a form holds strings.
BooleanColumns ==
    {"is_active", "is_verified", "is_read", "email_enabled", "in_app_enabled",
     "webhook_enabled", "cancel_at_period_end"}

CoerceValue(column, value) ==
    IF column \in BooleanColumns THEN value \in {"1", "true", "on"} ELSE value

\* Mutant: every submitted field is set.
SetFormFieldsAll(table, row, form) ==
    [c \in DOMAIN row |-> IF c \in DOMAIN form THEN CoerceValue(c, form[c]) ELSE row[c]]

\* The loop of admin_create and admin_edit: a submitted field that is not one
\* of the form's is ignored.
SetFormFields(table, row, form) ==
    [c \in DOMAIN row |->
        IF c \in DOMAIN form /\ c \in Registry[table].form_fields
        THEN CoerceValue(c, form[c]) ELSE row[c]]

Deletable(table) == Registry[table].deletable
=============================================================================
