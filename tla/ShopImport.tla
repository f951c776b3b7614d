------------------------------ MODULE ShopImport ------------------------------
(***************************************************************************)
(* A shop lists many products at once: the import of a sheet, previewed on *)
(* the server and then confirmed (BulkImport.tsx), and the selection from  *)
(* the catalogue, which is sent without a preview (Products.tsx).  One     *)
(* call of bulkUpload works its rows off one transaction at a time, for    *)
(* minutes; the app waits 15 seconds, and the shop then sends the request  *)
(* again while customers buy and colleagues edit.                          *)
(*                                                                         *)
(* A request id is made up together with its rows, and a preview's signed  *)
(* token is bound to both, so sheet and preview belong to the request.     *)
(* Price, discount and stock are written together: stock stands for them.  *)
(***************************************************************************)
EXTENDS Naturals, FiniteSetsExt

CONSTANTS
  Listed,      \* rows that name a product of the catalogue
  New,         \* rows that describe one the catalogue lacks
  Requests, Calls,
  Stocks,      \* numbers a listing may be given
  Sheets,      \* what a shop may import: [mode, rows, stock]
  MaxStamp,    \* bound: changes of a listing from elsewhere
  MaxItems,    \* bound: rows of all sheets together
  None

Rows == Listed \cup New

ASSUME ImportAssumption ==
  /\ Listed \cap New = {} /\ Rows \subseteq Nat
  /\ Stocks \subseteq Nat /\ {MaxStamp, MaxItems} \subseteq Nat
  /\ Sheets \subseteq [mode : {"ADD_MISSING", "UPDATE_EXISTING"},
                        rows : (SUBSET Rows) \ {{}}, stock : Nat]
  /\ None \notin Requests \cup Calls \cup Sheets

VARIABLES
  listing,    \* [Listed -> [stock, stamp] or None]; stamp: updatedAt
  named,      \* [New -> products of that name in the catalogue]
  audit,      \* [Requests -> [Rows -> saved result or None]], AuditLog
  preview,    \* [Requests -> what the signed token says of the rows read so far]
  expired,    \* requests whose token is out of date
  sheet,      \* [Requests -> [mode, rows, stock] or None while it is unused]
  screen,     \* the shop's: [step, request, result, call]
  calls,      \* [Calls -> call on its way or None]
  written,    \* history: [Requests -> [Rows -> writes for that row]]
  touched     \* history: [Requests -> rows whose product changed since their preview]

shelf == <<listing, named>>
tokens == <<preview, expired>>
history == <<written, touched>>
vars == <<shelf, audit, tokens, sheet, screen, calls, history>>

Outcome == {"CREATED", "UPDATED", "SKIPPED"}
Result == UNION {[S -> Outcome \cup {"FAILED", "READ"}] : S \in SUBSET Rows}

CallOn == [kind : {"preview", "upload"}, request : Requests, begun : BOOLEAN,
           late : BOOLEAN, todo : SUBSET Rows, result : Result]

ASSUME AbsentAssumption ==
  None \notin Outcome /\ None \notin CallOn /\ None \notin [stock : Nat, stamp : Nat]

\* Rows come one after the other.
With(f, r, value) == [x \in DOMAIN f \cup {r} |-> IF x = r THEN value ELSE f[x]]

Fresh == [step |-> "mapping", request |-> None, result |-> <<>>, call |-> None]

Init ==
  /\ listing \in [Listed -> {None} \cup [stock : Stocks, stamp : {0}]]
  /\ named = [r \in New |-> 0]
  /\ audit = [q \in Requests |-> [r \in Rows |-> None]]
  /\ preview = [q \in Requests |-> <<>>] /\ expired = {}
  /\ sheet = [q \in Requests |-> None]
  /\ screen = Fresh /\ calls = [n \in Calls |-> None]
  /\ written = [q \in Requests |-> [r \in Rows |-> 0]]
  /\ touched = [q \in Requests |-> {}]

-----------------------------------------------------------------------------
(* The shop's screens                                                      *)

Previewed(q) == preview[q] # <<>>
Failed == {r \in DOMAIN screen.result : screen.result[r] = "FAILED"}

Call(kind, q) == [kind |-> kind, request |-> q, begun |-> FALSE, late |-> FALSE,
                  todo |-> sheet'[q].rows, result |-> <<>>]

Room(s) ==
  Cardinality(s.rows) +
    MapThenSumSet(LAMBDA q : Cardinality(sheet[q].rows), {q \in Requests : sheet[q] # None})
      <= MaxItems

Send(n, kind, q) ==
  /\ screen.call = None /\ calls[n] = None
  /\ calls' = [calls EXCEPT ![n] = Call(kind, q)]

\* Review: a new id with the rows of the file or, on the results, with those
\* that failed, corrected.
Review(n, q, s) ==
  /\ sheet[q] = None /\ Room(s)
  /\ \/ screen.step = "mapping"
     \/ /\ screen.step = "results" /\ Previewed(screen.request)
        /\ s.rows = Failed /\ s.mode = sheet[screen.request].mode
  /\ sheet' = [sheet EXCEPT ![q] = s]
  /\ Send(n, "preview", q)
  /\ screen' = [screen EXCEPT !.call = n]
  /\ UNCHANGED <<shelf, audit, tokens, history>>

\* submitSelected: listings that are missing, of products of the catalogue.
SubmitSelected(n, q, s) ==
  /\ sheet[q] = None /\ Room(s)
  /\ s.mode = "ADD_MISSING" /\ s.rows \subseteq Listed
  /\ \/ screen.step = "mapping"
     \/ screen.step = "results" /\ ~Previewed(screen.request) /\ s.rows = Failed
  /\ sheet' = [sheet EXCEPT ![q] = s]
  /\ Send(n, "upload", q)
  /\ screen' = [step |-> "selected", request |-> q, result |-> <<>>, call |-> n]
  /\ UNCHANGED <<shelf, audit, tokens, history>>

CanCommit(q) ==
  /\ \A r \in DOMAIN preview[q] : preview[q][r].status # "CONFLICT"
  /\ \E r \in DOMAIN preview[q] : preview[q][r].status \in {"NEW", "MATCH"}

\* Confirmed, or sent again with the same id: after an error or to retry what
\* failed.
Commit(n) ==
  /\ \/ screen.step = "preview" /\ CanCommit(screen.request)
     \/ screen.step = "selected"
     \/ screen.step = "results" /\ Failed # {}
  /\ UNCHANGED sheet
  /\ Send(n, "upload", screen.request)
  /\ screen' = [screen EXCEPT !.call = n]
  /\ UNCHANGED <<shelf, audit, tokens, history>>

\* The call on the screen has gone through its rows.
Answer(n, kind) == /\ screen.call = n /\ calls[n].kind = kind /\ calls[n].todo = {}
                   /\ calls' = [calls EXCEPT ![n] = None]

Reviewed(n) ==
  /\ Answer(n, "preview")
  /\ screen' = [step |-> "preview", request |-> calls[n].request, result |-> <<>>, call |-> None]
  /\ UNCHANGED <<shelf, audit, tokens, sheet, history>>

Committed(n) ==
  /\ Answer(n, "upload")
  /\ screen' = [screen EXCEPT !.step = "results", !.result = calls[n].result, !.call = None]
  /\ UNCHANGED <<shelf, audit, tokens, sheet, history>>

\* The button stays enabled while a call is on its way.
ChangeMapping ==
  /\ screen.step = "preview"
  /\ screen' = [screen EXCEPT !.step = "mapping"]
  /\ UNCHANGED <<shelf, audit, tokens, sheet, calls, history>>

\* The import is closed, on any step; its call goes on.
Close ==
  /\ screen # Fresh
  /\ screen' = Fresh
  /\ UNCHANGED <<shelf, audit, tokens, sheet, calls, history>>

\* Fifteen seconds are over: the server works on.
GiveUp ==
  /\ screen.call # None
  /\ screen' = [screen EXCEPT !.call = None]
  /\ UNCHANGED <<shelf, audit, tokens, sheet, calls, history>>

\* A call, or its answer, is lost, or the server stops in the middle of it.
Lose(n) ==
  /\ calls[n] # None
  /\ calls' = [calls EXCEPT ![n] = None]
  /\ screen' = IF screen.call = n THEN [screen EXCEPT !.call = None] ELSE screen
  /\ UNCHANGED <<shelf, audit, tokens, sheet, history>>

-----------------------------------------------------------------------------
(* MerchantProductsService                                                 *)

\* The call's turn for a row: sheets are worked off in their order.
Turn(n, kind, r) ==
  /\ calls[n] # None /\ calls[n].kind = kind /\ calls[n].begun
  /\ r \in calls[n].todo /\ \A other \in calls[n].todo : r <= other

\* Once all are done, nobody reads the answer to a call that was given up.
Answered(n, r, outcome) ==
  calls' = IF calls[n].todo = {r} /\ screen.call # n
           THEN [calls EXCEPT ![n] = None]
           ELSE [calls EXCEPT ![n].todo = @ \ {r}, ![n].result = With(@, r, outcome)]

\* The permissions and the token are looked at once, when the call comes in.
Begin(n) ==
  /\ calls[n] # None /\ ~calls[n].begun
  /\ calls' = [calls EXCEPT ![n].begun = TRUE, ![n].late = calls[n].request \in expired]
  /\ UNCHANGED <<shelf, audit, tokens, sheet, screen, history>>

Expire(q) ==
  /\ Previewed(q) /\ q \notin expired
  /\ expired' = expired \cup {q}
  /\ UNCHANGED <<shelf, audit, preview, sheet, screen, calls, history>>

\* previewRows: each row is read on its own.  An unknown category, an ambiguous
\* name or a product of another shop is a conflict too.
Status(q, r) ==
  IF r \in New THEN {IF named[r] = 0 THEN "NEW" ELSE "CONFLICT"}
  ELSE IF listing[r] # None /\ sheet[q].mode = "ADD_MISSING" THEN {"SKIP"}
  ELSE {"MATCH", "CONFLICT"}

PreviewRow(n, r) ==
  LET q == calls[n].request
  IN /\ Turn(n, "preview", r)
     /\ \E status \in Status(q, r) :
          preview' = [preview EXCEPT ![q] = With(@, r, [status |-> status,
                        old |-> IF r \in Listed THEN listing[r] ELSE None])]
     /\ Answered(n, r, "READ")
     /\ UNCHANGED <<shelf, audit, expired, sheet, screen, history>>

SaysOf(q, r, status) == r \in DOMAIN preview[q] /\ preview[q][r].status = status

\* bulkUpload's transaction for a row finds no saved result for it.
Unsaved(n, r) ==
  LET q == calls[n].request
  IN /\ Turn(n, "upload", r) /\ ~calls[n].late
     /\ audit[q][r] = None /\ ~SaysOf(q, r, "CONFLICT")

\* Wrong: the audit row of a row that was written is left for later.
WrongSaved(q, r, outcome) ==
  IF outcome = "SKIPPED" THEN [audit EXCEPT ![q][r] = outcome] ELSE audit

Saved(q, r, outcome) == [audit EXCEPT ![q][r] = outcome]

Save(n, r, outcome) ==
  /\ audit' = Saved(calls[n].request, r, outcome)
  /\ Answered(n, r, outcome)
  /\ UNCHANGED <<tokens, sheet, screen>>

Previews(r) == {q \in Requests : r \in DOMAIN preview[q]}
Touch(r) == [q \in Requests |-> IF q \in Previews(r) THEN touched[q] \cup {r} ELSE touched[q]]

Wrote(q, r) == /\ written' = [written EXCEPT ![q][r] = @ + 1]
               /\ touched' = Touch(r)

SkipRow(n, r) ==
  /\ Unsaved(n, r)
  /\ SaysOf(calls[n].request, r, "SKIP")
  /\ Save(n, r, "SKIPPED")
  /\ UNCHANGED <<shelf, history>>

CreateProduct(n, r) ==
  /\ Unsaved(n, r) /\ r \in New
  /\ SaysOf(calls[n].request, r, "NEW")
  /\ named' = [named EXCEPT ![r] = @ + 1]
  /\ Wrote(calls[n].request, r)
  /\ Save(n, r, "CREATED")
  /\ UNCHANGED listing

\* A listing that was not there when it was previewed, in either mode.
ToCreate(q, r) ==
  ~SaysOf(q, r, "SKIP") /\ (SaysOf(q, r, "MATCH") => preview[q][r].old = None)

CreateListing(n, r) ==
  LET q == calls[n].request
  IN /\ Unsaved(n, r) /\ r \in Listed /\ ToCreate(q, r)
     /\ IF listing[r] = None
        THEN /\ listing' = [listing EXCEPT ![r] = [stock |-> sheet[q].stock, stamp |-> 0]]
             /\ Wrote(q, r)
             /\ Save(n, r, "CREATED")
        ELSE Save(n, r, "SKIPPED") /\ UNCHANGED <<listing, history>>
     /\ UNCHANGED named

\* Wrong: asks only whether price and stock are the same again.
WrongAsShown(q, r) == listing[r] # None /\ listing[r].stock = preview[q][r].old.stock

AsShown(q, r) == listing[r] = preview[q][r].old

UpdateListing(n, r) ==
  LET q == calls[n].request
  IN /\ Unsaved(n, r) /\ r \in Listed
     /\ SaysOf(q, r, "MATCH") /\ preview[q][r].old # None
     /\ AsShown(q, r)
     /\ listing' = [listing EXCEPT ![r] = [stock |-> sheet[q].stock, stamp |-> @.stamp + 1]]
     /\ Wrote(q, r)
     /\ Save(n, r, "UPDATED")
     /\ UNCHANGED named

\* The transaction finds the result saved, or fails and finds it then.
ReplayRow(n, r) ==
  LET q == calls[n].request
  IN /\ Turn(n, "upload", r)
     /\ audit[q][r] # None
     /\ Answered(n, r, audit[q][r])
     /\ UNCHANGED <<shelf, audit, tokens, sheet, screen, history>>

\* A stale or conflicting row, a category closed meanwhile, a transaction that
\* does not get through: nothing is saved for it.
FailRow(n, r) ==
  /\ Turn(n, "upload", r)
  /\ audit[calls[n].request][r] = None
  /\ Answered(n, r, "FAILED")
  /\ UNCHANGED <<shelf, audit, tokens, sheet, screen, history>>

\* A sale, a cancellation, an edit, or a new listing from elsewhere.
Elsewhere(r, stock) ==
  /\ listing[r] # None => listing[r].stamp < MaxStamp
  /\ listing' = [listing EXCEPT ![r] =
       [stock |-> stock, stamp |-> IF @ = None THEN 0 ELSE @.stamp + 1]]
  /\ touched' = Touch(r)
  /\ UNCHANGED <<named, audit, tokens, sheet, screen, calls, written>>

-----------------------------------------------------------------------------
Next ==
  \/ \E n \in Calls :
       \/ \E q \in Requests, s \in Sheets : Review(n, q, s) \/ SubmitSelected(n, q, s)
       \/ Commit(n) \/ Reviewed(n) \/ Committed(n) \/ Lose(n) \/ Begin(n)
       \/ \E r \in Rows :
            \/ PreviewRow(n, r) \/ SkipRow(n, r) \/ CreateProduct(n, r)
            \/ CreateListing(n, r) \/ UpdateListing(n, r)
            \/ ReplayRow(n, r) \/ FailRow(n, r)
  \/ ChangeMapping \/ Close \/ GiveUp
  \/ \E q \in Requests : Expire(q)
  \/ \E r \in Listed, stock \in Stocks : Elsewhere(r, stock)

Spec == Init /\ [][Next]_vars

-----------------------------------------------------------------------------
(* Properties                                                              *)

\* What a screen confirms or a call works off has its sheet, and a screen waits
\* for a call of its own.
CallsOK ==
  /\ sheet \in [Requests -> Sheets \cup {None}]
  /\ screen \in [step : {"mapping", "selected", "preview", "results"},
                  request : Requests \cup {None}, result : Result, call : Calls \cup {None}]
  /\ calls \in [Calls -> CallOn \cup {None}]
  /\ \A n \in Calls : calls[n] # None => sheet[calls[n].request] # None
  /\ screen.call # None => calls[screen.call] # None
  /\ screen.step # "mapping" \/ (screen.call # None /\ calls[screen.call].kind = "upload")
       => screen.request # None /\ sheet[screen.request] # None

RowsOK ==
  /\ listing \in [Listed -> [stock : Nat, stamp : Nat] \cup {None}]
  /\ named \in [New -> Nat]
  /\ audit \in [Requests -> [Rows -> Outcome \cup {None}]]
  /\ written \in [Requests -> [Rows -> Nat]]
  /\ touched \in [Requests -> SUBSET Rows]
  /\ expired \subseteq Requests

\* Rows, screens and calls keep their shapes.
TypeOK == CallsOK /\ RowsOK

\* "Successful rows never reapply after partial/lost response" (remediation
\* design): however often a request is sent again, also while an earlier call
\* of it is still at work, each of its rows is written once.
RowOnce == \A q \in Requests, r \in Rows : written[q][r] <= 1

\* A price and stock the shop confirmed replaces only what it was shown: a sale
\* or an edit after the preview is never overwritten, whichever of several
\* calls and previews gets to the row.
NothingUnseenReplaced ==
  [][\A q \in Requests, r \in Listed :
       audit'[q][r] # audit[q][r] /\ audit'[q][r] = "UPDATED" => r \notin touched[q]]_vars
=============================================================================
