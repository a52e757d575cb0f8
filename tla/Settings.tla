-------------------------------- MODULE Settings --------------------------------
(***************************************************************************)
(* A tenant's settings: one JSON document in a column of its row.  Most    *)
(* handlers read it with GetSettings, which shows secrets as a mask,       *)
(* change a section and hand the whole to SaveSettings; that reads the row *)
(* again, keeps stored sections the document lacks, encrypts all secrets   *)
(* and updates the column.  Saving the settings page starts from an empty  *)
(* document.  No statement asks whether the row changed since it was read. *)
(***************************************************************************)
EXTENDS Naturals, Sequences

CONSTANTS Requests,     \* requests; each also names what it gives
          Before,       \* names what was given before the first request
          MaxFailures,  \* bound on statements that fail
          None          \* nothing

VARIABLES
  doc,      \* the stored document
  fresh,    \* sections whose secret the latest update was given
  req,      \* req[r]: where request r is, the rounds it has to do, its
            \* document, whether that began empty, and whether the stored
            \* one was updated since it was read
  failures  \* how many statements have failed

vars == <<doc, fresh, req, failures>>

Secrets  == {"mpesa", "kra"}
Pages    == {"invoice", "payments", "notifications"}
Sections == Secrets \cup Pages \cup {"business", "branding"}
Steps    == {"email_verified", "business_profile", "first_invoice", "mpesa_setup", "dismissed"}

(* Who gave a section, the onboarding's steps, and the secrets: a stored   *)
(* one is given, masked, or encrypted more than once                       *)
Document(given, steps, secret) == [given |-> given, steps |-> steps, secret |-> secret]
Empty == Document([s \in Sections |-> None], {}, [s \in Secrets |-> None])

Init ==
  /\ doc \in {Empty, Document([s \in Sections |-> Before], Steps, [mpesa |-> "masked", kra |-> "given"])}
  /\ fresh = IF doc = Empty THEN {} ELSE {"kra"}
  /\ req = [r \in Requests |-> [pc |-> "new", todo |-> <<>>, copy |-> Empty,
                                empty |-> FALSE, stale |-> FALSE]]
  /\ failures = 0

-----------------------------------------------------------------------------
(* What the handlers do: rounds of reading, changing and saving.  A round  *)
(* gives sections, of which some have a secret, and marks steps.  "empty"  *)
(* reads nothing; if reading fails, "read" goes on with an empty document, *)
(* "try" skips the round.                                                  *)
Round(base, gives, secret, marks) ==
  [base |-> base, gives |-> gives, secret |-> secret, marks |-> marks]

SavePage(S)      == <<Round("empty", S, {}, {})>>
SaveBranded(S)   == <<Round("empty", S \cup {"branding"}, {}, {}), Round("try", {}, {}, {"business_profile"})>>
SaveMpesa(S)     == <<Round("read", {"mpesa"}, S, {}), Round("try", {}, {}, {"mpesa_setup"})>>
SaveKRA          == <<Round("read", {"kra"}, {"kra"}, {})>>
SaveBranding     == <<Round("read", {"branding"}, {}, {})>>
SaveNotification == <<Round("read", {"notifications"}, {}, {})>>
CreateInvoice    == <<Round("try", {}, {}, {"first_invoice"})>>

(* The onboarding's *)
MarkStep(s)     == Round("read", {}, {}, {s})
BusinessType    == Round("read", {"business"}, {}, {})
BusinessProfile == <<BusinessType, MarkStep("business_profile")>>
SavePayment     == <<Round("read", {"mpesa"}, {}, {}), MarkStep("mpesa_setup")>>
VerifyEmail     == <<MarkStep("email_verified")>>
FirstInvoice    == <<MarkStep("first_invoice")>>
Dismiss         == <<MarkStep("dismissed")>>

Handlers ==
  {SavePage(S) : S \in SUBSET Pages} \cup {SaveBranded(S) : S \in SUBSET Pages}
  \cup {SaveMpesa(S) : S \in SUBSET {"mpesa"}}
  \cup {SaveKRA, SaveBranding, SaveNotification, CreateInvoice}
  \cup {BusinessProfile, SavePayment, VerifyEmail, FirstInvoice, Dismiss}

-----------------------------------------------------------------------------
Now(r)  == Head(req[r].todo)
Done(r) == req' = [req EXCEPT ![r] = [pc |-> "done", todo |-> <<>>, copy |-> Empty,
                                      empty |-> FALSE, stale |-> FALSE]]

Fails == failures < MaxFailures /\ failures' = failures + 1

Comes(r) ==
  /\ req[r].pc = "new"
  /\ \E todo \in Handlers : req' = [req EXCEPT ![r].pc = "read", ![r].todo = todo]
  /\ UNCHANGED <<doc, fresh, failures>>

(* The payments' M-Pesa part is that of the section, if there is one *)
GetSettings ==
  LET mpesa == doc.given["mpesa"]
  IN Document([doc.given EXCEPT !["payments"] = IF mpesa = None THEN @ ELSE mpesa], doc.steps,
              [s \in Secrets |-> IF doc.secret[s] = None THEN None ELSE "mask"])

Changed(d, r) ==
  Document([s \in Sections |-> IF s \in Now(r).gives THEN r ELSE d.given[s]],
           d.steps \cup Now(r).marks,
           [s \in Secrets |-> IF s \notin Now(r).gives THEN d.secret[s]
                              ELSE IF s \in Now(r).secret THEN "plain" ELSE None])

Changes(r, d, empty) ==
  req' = [req EXCEPT ![r] = [pc |-> "merge", todo |-> @.todo, copy |-> Changed(d, r),
                             empty |-> empty, stale |-> FALSE]]

Reads(r) ==
  /\ req[r].pc = "read"
  /\ \/ /\ Now(r).base # "empty"
        /\ Changes(r, GetSettings, FALSE)
        /\ UNCHANGED failures
     \/ /\ \/ Now(r).base = "empty" /\ UNCHANGED failures
           \/ Now(r).base = "read" /\ Fails
        /\ Changes(r, Empty, TRUE)
     \/ /\ Now(r).base = "try"
        /\ Fails
        /\ Done(r)
  /\ UNCHANGED <<doc, fresh>>

(* Sections missing in the document are kept.  One that was read misses    *)
(* neither invoices' nor payments' settings: they have defaults.  The      *)
(* business is merged field by field, if the document has it at all.       *)
(* Mutated form: the notifications are not kept.                           *)
KeepsLess(r) ==
  Secrets \cup (IF req[r].empty THEN {"invoice", "payments"} ELSE {"business"})
Keeps(r) ==
  Secrets \cup {"notifications"} \cup (IF req[r].empty THEN {"invoice", "payments"} ELSE {"business"})

Merged(r) ==
  LET d == req[r].copy
  IN Document([s \in Sections |-> IF d.given[s] = None /\ s \in Keeps(r) THEN doc.given[s] ELSE d.given[s]],
              d.steps,
              [s \in Secrets |-> IF d.secret[s] = None THEN doc.secret[s] ELSE d.secret[s]])

(* Nothing tells a secret that is encrypted already (mutated form: it is   *)
(* left as it is)                                                          *)
EncryptedOnce(x) == CASE x = "plain" -> "given"
                      [] x = "mask"  -> "masked"
                      [] OTHER       -> x
Encrypted(x) == CASE x = None    -> None
                  [] x = "plain" -> "given"
                  [] x = "mask"  -> "masked"
                  [] OTHER       -> "wrapped"

Merges(r) ==
  /\ req[r].pc = "merge"
  /\ \/ /\ req' = [req EXCEPT ![r].pc = "update",
                              ![r].copy = [Merged(r) EXCEPT !.secret = [s \in Secrets |-> Encrypted(@[s])]]]
        /\ UNCHANGED failures
     \/ Fails /\ Done(r)
  /\ UNCHANGED <<doc, fresh>>

(* What others have read or merged is stale from now on *)
Outdated(r) ==
  [q \in Requests |->
     IF /\ q # r
        /\ \/ req[q].pc = "update"
           \/ req[q].pc = "merge" /\ ~req[q].empty
     THEN [req[q] EXCEPT !.stale = TRUE]
     ELSE req[q]]

Updates(r) == req[r].pc = "update" /\ req'[r].pc # "update" /\ UNCHANGED failures

SaveSettings(r) ==
  /\ req[r].pc = "update"
  /\ doc' = req[r].copy
  /\ fresh' = Now(r).secret
  /\ req' = [Outdated(r) EXCEPT
               ![r] = [pc |-> IF Len(req[r].todo) = 1 THEN "done" ELSE "read", todo |-> Tail(req[r].todo),
                       copy |-> Empty, empty |-> FALSE, stale |-> FALSE]]
  /\ UNCHANGED failures

UpdateFails(r) ==
  /\ req[r].pc = "update"
  /\ Fails
  /\ Done(r)
  /\ UNCHANGED <<doc, fresh>>

Next == \E r \in Requests : Comes(r) \/ Reads(r) \/ Merges(r) \/ SaveSettings(r) \/ UpdateFails(r)

Spec == Init /\ [][Next]_vars

-----------------------------------------------------------------------------
(* A section, once given, changes by a request that gives it, and a step,  *)
(* once marked, stays marked; or else whoever saves has read a document    *)
(* that was updated since, or started from an empty one (the settings      *)
(* page, or where reading failed), which loses business, branding and      *)
(* steps.  And the payments' M-Pesa part gives way to the M-Pesa section.  *)
SectionsStand ==
  [][\A r \in Requests : Updates(r) /\ ~req[r].stale =>
       /\ \A s \in Sections \ Now(r).gives :
            doc'.given[s] # doc.given[s] =>
              \/ req[r].empty /\ s \in {"business", "branding"}
              \/ ~req[r].empty /\ s = "payments" /\ doc.given["mpesa"] # None
       /\ ~req[r].empty => doc.steps \subseteq doc'.steps]_vars

(* A secret can be read back only until the next save of anything: that    *)
(* stores the mask it was shown as, or encrypts it once more.  The M-Pesa  *)
(* settings' own handler saves twice.                                      *)
SecretsLastOneSave == \A s \in Secrets : doc.secret[s] = "given" <=> s \in fresh
=============================================================================
