------------------------------ MODULE Integrations ------------------------------
(***************************************************************************)
(* A tenant's connections to other services.  A provider's row is looked    *)
(* for and then saved whole, or created; nothing keeps a provider to one    *)
(* row, and of several the one with the least id, which is drawn at random, *)
(* serves.  A page shows a configuration with its secret masked, and what   *)
(* it gives back is stored.  QuickBooks is connected by a code that         *)
(* QuickBooks gives; its tokens are stored in a new row each time, are      *)
(* never refreshed, and what was synchronised is not noted.                 *)
(***************************************************************************)
EXTENDS Naturals, FiniteSets

CONSTANTS Requests,
          Ids,        \* of rows: numbers
          Invoices,   \* those that may be sent to QuickBooks
          None        \* no row, nothing given

VARIABLES
  rows,     \* rows[i]: the provider's name, configuration and activity, or None
  page,     \* the configuration shown last
  req,      \* req[r]: where request r is, its provider, what it read and brings
  expired,  \* requests whose tokens QuickBooks takes no more
  unpaid,   \* the invoices sent and not paid
  posted,   \* posted[i]: how often QuickBooks took invoice i
  wanted,   \* history: wanted[p]: the row as the last request asked for it
  amiss     \* history: providers with a save of what changed since it was
            \* read, or connected again without being disconnected

vars == <<rows, page, req, expired, unpaid, posted, wanted, amiss>>

Providers == {"sms", "quickbooks"}

Form(r)        == [what |-> "form", by |-> r, secret |-> "given"]
Tokens(r)      == [what |-> "tokens", by |-> r, secret |-> "given"]
Masked(config) == [config EXCEPT !.secret = "mask"]
Row(p, config, active) == [provider |-> p, config |-> config, active |-> active]

At(step, p, id, row, config) ==
  [at |-> step, provider |-> p, id |-> id, row |-> row, config |-> config, todo |-> {}]
NotYet == At("new", None, None, None, None)
Done   == At("done", None, None, None, None)

Init ==
  /\ rows = [i \in Ids |-> None] /\ wanted = [p \in Providers |-> None]
  /\ page = None
  /\ req = [r \in Requests |-> NotYet]
  /\ expired = {} /\ amiss = {}
  /\ unpaid \in SUBSET Invoices
  /\ posted = [i \in Invoices |-> 0]

Goes(r, next) == req' = [req EXCEPT ![r] = next]
Of(p)         == {i \in Ids : rows[i] # None /\ rows[i].provider = p}
Free          == {i \in Ids : rows[i] = None /\ \A r \in Requests : req[r].id # i}

(* The row found for a provider *)
GetIntegrationByProvider(p) ==
  IF Of(p) = {} THEN None ELSE CHOOSE i \in Of(p) : \A j \in Of(p) : i <= j
RowOf(i) == IF i = None THEN None ELSE rows[i]

-----------------------------------------------------------------------------
(* The page of a provider: tokens cannot be decrypted, as they never were   *)
(* encrypted                                                                *)
GetIntegrationConfig(p) ==
  LET row == RowOf(GetIntegrationByProvider(p)) IN
  /\ row # None /\ row.config.what = "form"
  /\ page' = Masked(row.config)
  /\ UNCHANGED <<rows, req, expired, unpaid, posted, wanted, amiss>>

(* A configuration of one's own, or that of the page *)
FindsIntegration(r, p) ==
  LET i == GetIntegrationByProvider(p) IN
  /\ req[r] = NotYet
  /\ \E config \in {Form(r), page} \ {None} : Goes(r, At("save", p, i, RowOf(i), config))
  /\ UNCHANGED <<rows, page, expired, unpaid, posted, wanted, amiss>>

Wants(p, config) == Row(p, config, wanted[p] = None \/ wanted[p].active)

(* A row that was deleted meanwhile is inserted again *)
SaveIntegration(r) ==
  LET p == req[r].provider
      read == req[r].row
  IN
  /\ req[r].at = "save"
  /\ IF read # None
     THEN rows' = [rows EXCEPT ![req[r].id] = Row(p, req[r].config, read.active)]
     ELSE \E i \in Free : rows' = [rows EXCEPT ![i] = Row(p, req[r].config, TRUE)]
  /\ wanted' = [wanted EXCEPT ![p] = Wants(p, req[r].config)]
  /\ amiss' = IF Of(p) = {req[r].id} \ {None} /\ (read # None => rows[req[r].id] = read)
              THEN amiss ELSE amiss \cup {p}
  /\ Goes(r, Done)
  /\ UNCHANGED <<page, expired, unpaid, posted>>

ToggleIntegration(r, i, active) ==
  /\ req[r] = NotYet /\ rows[i] # None
  /\ rows' = [rows EXCEPT ![i].active = active]
  /\ wanted' = [wanted EXCEPT ![rows[i].provider].active = active]
  /\ Goes(r, Done)
  /\ UNCHANGED <<page, expired, unpaid, posted, amiss>>

(* Rows are gone; with the last of a provider what was amiss with it is, too *)
Removes(p, gone) ==
  /\ rows' = [i \in Ids |-> IF i \in gone THEN None ELSE rows[i]]
  /\ wanted' = IF Of(p) \subseteq gone THEN [wanted EXCEPT ![p] = None] ELSE wanted
  /\ amiss' = IF Of(p) \subseteq gone THEN amiss \ {p} ELSE amiss
  /\ UNCHANGED <<page, expired, unpaid, posted>>

DeleteIntegration(r, i) ==
  /\ req[r] = NotYet /\ rows[i] # None
  /\ Removes(rows[i].provider, {i})
  /\ Goes(r, Done)

-----------------------------------------------------------------------------
(* QuickBooks.  Who connects is sent there, and comes back with a code that *)
(* it changes for tokens once.                                              *)

QuickBooksConnect(r) ==
  /\ req[r] = NotYet
  /\ Goes(r, At("away", "quickbooks", None, None, None))
  /\ UNCHANGED <<rows, page, expired, unpaid, posted, wanted, amiss>>

HandleOAuthCallback(r) ==
  /\ req[r].at = "away"
  /\ Goes(r, At("create", "quickbooks", None, None, Tokens(r)))
  /\ UNCHANGED <<rows, page, expired, unpaid, posted, wanted, amiss>>

(* Every time in a row of its own *)
SaveTokens(r) ==
  /\ req[r].at = "create"
  /\ \E i \in Free : rows' = [rows EXCEPT ![i] = Row("quickbooks", req[r].config, TRUE)]
  /\ wanted' = [wanted EXCEPT !["quickbooks"] = Row("quickbooks", req[r].config, TRUE)]
  /\ amiss' = IF Of("quickbooks") = {} THEN amiss ELSE amiss \cup {"quickbooks"}
  /\ Goes(r, Done)
  /\ UNCHANGED <<page, expired, unpaid, posted>>

(* All rows.  Mutated form: the one that serves.                            *)
TheOneThatServes == {GetIntegrationByProvider("quickbooks")}
Disconnected     == Of("quickbooks")

Disconnect(r) ==
  /\ req[r] = NotYet
  /\ rows' = [i \in Ids |-> IF i \in Disconnected THEN None ELSE rows[i]]
  /\ wanted' = [wanted EXCEPT !["quickbooks"] = None]
  /\ amiss' = amiss \ {"quickbooks"}
  /\ Goes(r, Done)
  /\ UNCHANGED <<page, expired, unpaid, posted>>

(* After an hour; RefreshAccessToken has no caller *)
TokensExpire(r) ==
  /\ r \notin expired
  /\ \E i \in Ids : rows[i] # None /\ rows[i].config = Tokens(r)
  /\ expired' = expired \cup {r}
  /\ UNCHANGED <<rows, page, req, unpaid, posted, wanted, amiss>>

Token(config) == IF config.what = "tokens" THEN {config.by} ELSE {}

(* What a test of the connection answers *)
TestConnection ==
  LET row == RowOf(GetIntegrationByProvider("quickbooks"))
  IN row # None /\ Token(row.config) \ expired # {}

SyncInvoices(r) ==
  LET i == GetIntegrationByProvider("quickbooks") IN
  /\ req[r] = NotYet
  /\ i # None
  /\ Goes(r, [At("sync", "quickbooks", None, None, rows[i].config) EXCEPT !.todo = unpaid])
  /\ UNCHANGED <<rows, page, expired, unpaid, posted, wanted, amiss>>

(* One of those listed, which may have been paid since *)
CreateQuickBooksInvoice(r, i) ==
  /\ req[r].at = "sync" /\ i \in req[r].todo
  /\ \/ Token(req[r].config) \ expired # {} /\ posted' = [posted EXCEPT ![i] = @ + 1]
     \/ UNCHANGED posted
  /\ Goes(r, [req[r] EXCEPT !.todo = @ \ {i}])
  /\ UNCHANGED <<rows, page, expired, unpaid, wanted, amiss>>

InvoicePaid(i) ==
  /\ i \in unpaid
  /\ unpaid' = unpaid \ {i}
  /\ UNCHANGED <<rows, page, req, expired, posted, wanted, amiss>>

Next ==
  \/ \E p \in Providers : GetIntegrationConfig(p) \/ \E r \in Requests : FindsIntegration(r, p)
  \/ \E r \in Requests, i \in Ids :
       DeleteIntegration(r, i) \/ \E active \in BOOLEAN : ToggleIntegration(r, i, active)
  \/ \E r \in Requests :
       \/ SaveIntegration(r) \/ QuickBooksConnect(r) \/ HandleOAuthCallback(r)
       \/ SaveTokens(r) \/ Disconnect(r) \/ TokensExpire(r) \/ SyncInvoices(r)
       \/ \E i \in Invoices : CreateQuickBooksInvoice(r, i)
  \/ \E i \in Invoices : InvoicePaid(i)

Spec == Init /\ [][Next]_vars

-----------------------------------------------------------------------------
(* A provider has the one row, as it was asked for last, or none, unless    *)
(* saves crossed or QuickBooks was connected twice.                        *)
RowsAreAsAsked ==
  \A p \in Providers \ amiss :
    /\ Cardinality(Of(p)) = IF wanted[p] = None THEN 0 ELSE 1
    /\ \A i \in Of(p) : rows[i] = wanted[p]

(* So a connection answers with the tokens it was made with last, while     *)
(* they are taken.                                                         *)
LatestTokensServe ==
  "quickbooks" \notin amiss /\ wanted["quickbooks"] # None
    => TestConnection = (Token(wanted["quickbooks"].config) \ expired # {})

(* An invoice is in QuickBooks at most once for each synchronisation, and   *)
(* only of one that had tokens.                                            *)
SyncsPostOnce ==
  \A i \in Invoices :
    posted[i] <= Cardinality({r \in Requests : req[r].at = "sync" /\ i \notin req[r].todo
                                               /\ req[r].config.what = "tokens"})

ConnectionsStand == RowsAreAsAsked /\ LatestTokensServe /\ SyncsPostOnce
=============================================================================
